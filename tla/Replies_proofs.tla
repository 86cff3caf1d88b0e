--------------------------- MODULE Replies_proofs ---------------------------
(***************************************************************************)
(* Theorems about the replies and requests of confirmed services, for      *)
(* lists, errors and values of any size: each is read as it was sent, and  *)
(* one that lost its end is refused or read without what was lost.  The    *)
(* decoder of replies gets on, but for two places where it may linger.     *)
(***************************************************************************)
EXTENDS Codec_proofs

\* What is left of sequences one after another, behind the first k of them.
RestsOf(S, seqs, rest) ==
  /\ rest \in [0 .. Len(seqs) -> Seq(S)]
  /\ rest[0] = FlattenSeq(seqs) /\ rest[Len(seqs)] = <<>>
  /\ \A k \in 1 .. Len(seqs) : rest[k - 1] = seqs[k] \o rest[k]

\* The sequences up to one of them, one after another.
Flattens(seqs, n, g) ==
  \A i \in 1 .. n : g[i] = IF i = 1 THEN seqs[i] ELSE g[i - 1] \o seqs[i]

\* A sequence of sequences is flattened one after the other.
LEMMA FlatExists ==
  ASSUME NEW S, NEW seqs \in Seq(Seq(S)), NEW n \in 1 .. Len(seqs)
  PROVE  \E g \in [1 .. n -> Seq(S)] : Flattens(seqs, n, g)
<1> DEFINE N == Len(seqs)
           bad == {k \in 1 .. N : ~\E g \in [1 .. k -> Seq(S)] : Flattens(seqs, k, g)}
<1>1. N \in Nat /\ \A i \in 1 .. N : seqs[i] \in Seq(S)
  BY ElementOfSeq, LenProperties
<1> SUFFICES ASSUME bad # {} PROVE FALSE
  OBVIOUS
<1>2. bad \subseteq Nat
  OBVIOUS
<1>3. PICK k \in bad : \A i \in bad : k <= i
  <2> HIDE DEF bad
  <2> QED
    BY <1>2, Least
<1>4. k \in 1 .. N /\ ~\E g \in [1 .. k -> Seq(S)] : Flattens(seqs, k, g)
  OBVIOUS
<1>5. CASE k = 1
  <2> DEFINE g == [i \in 1 .. k |-> seqs[i]]
  <2>1. g \in [1 .. k -> Seq(S)]
    BY <1>1, <1>4
  <2>2. Flattens(seqs, k, g)
    BY <1>5 DEF Flattens
  <2> QED
    BY <1>4, <2>1, <2>2
<1>6. CASE k # 1
  <2>1. k - 1 \in 1 .. N /\ ~(k <= k - 1)
    BY <1>1, <1>4, <1>6
  <2>2. k - 1 \notin bad
    <3> HIDE DEF bad
    <3> QED
      BY <1>3, <2>1
  <2>3. PICK h \in [1 .. k - 1 -> Seq(S)] : Flattens(seqs, k - 1, h)
    BY <2>1, <2>2
  <2> HIDE DEF bad
  <2> DEFINE g == [i \in 1 .. k |-> IF i = k THEN h[k - 1] \o seqs[k] ELSE h[i]]
  <2>4. h[k - 1] \in Seq(S) /\ seqs[k] \in Seq(S)
    BY <1>1, <1>4, <2>1
  <2>5. h[k - 1] \o seqs[k] \in Seq(S)
    BY <2>4, ConcatProperties
  <2>6. g \in [1 .. k -> Seq(S)]
    <3> SUFFICES ASSUME NEW i \in 1 .. k
                 PROVE  (IF i = k THEN h[k - 1] \o seqs[k] ELSE h[i]) \in Seq(S)
      OBVIOUS
    <3>1. i # k => i \in 1 .. k - 1
      BY <1>1, <1>4
    <3> QED
      BY <2>5, <3>1
  <2>7. ASSUME NEW i \in 1 .. k
        PROVE  g[i] = IF i = 1 THEN seqs[i] ELSE g[i - 1] \o seqs[i]
    <3>1. CASE i = k
      <4>1. g[i] = h[k - 1] \o seqs[k] /\ i # 1
        BY <1>6, <3>1
      <4>2. i - 1 \in 1 .. k /\ i - 1 # k
        BY <1>1, <1>4, <1>6, <3>1
      <4>3. g[i - 1] = h[k - 1]
        BY <3>1, <4>2
      <4> HIDE DEF g
      <4> QED
        BY <3>1, <4>1, <4>3
    <3>2. CASE i # k
      <4>1. i \in 1 .. k - 1 /\ g[i] = h[i]
        BY <1>1, <1>4, <3>2
      <4>2. h[i] = IF i = 1 THEN seqs[i] ELSE h[i - 1] \o seqs[i]
        BY <2>3, <4>1 DEF Flattens
      <4>3. i # 1 => i - 1 \in 1 .. k /\ i - 1 # k
        BY <1>1, <1>4, <4>1
      <4>4. i # 1 => g[i - 1] = h[i - 1]
        BY <4>3
      <4> HIDE DEF g
      <4> QED
        BY <4>1, <4>2, <4>4
    <3> QED
      BY <3>1, <3>2
  <2>8. Flattens(seqs, k, g)
    <3> HIDE DEF g
    <3> QED
      BY <2>7 DEF Flattens
  <2> QED
    BY <1>4, <2>6, <2>8
<1> QED
  BY <1>5, <1>6

\* The last of these is what the sequences are flattened to.
LEMMA FlatIs ==
  ASSUME NEW S, NEW seqs \in Seq(Seq(S)), seqs # <<>>
  PROVE  \E g \in [1 .. Len(seqs) -> Seq(S)] :
            Flattens(seqs, Len(seqs), g) /\ g[Len(seqs)] = FlattenSeq(seqs)
<1> DEFINE N == Len(seqs)
           F(f) == [i \in 1 .. N |-> IF i = 1 THEN seqs[i] ELSE f[i - 1] \o seqs[i]]
           f == CHOOSE f : f = F(f)
<1>1. N \in Nat /\ N # 0
  BY EmptySeq, LenProperties
<1>2. PICK g \in [1 .. N -> Seq(S)] : Flattens(seqs, N, g)
  BY <1>1, FlatExists
<1>3. g = F(g)
  BY <1>2 DEF Flattens
<1>4. f = F(f)
  BY <1>3
<1>5. FlattenSeq(seqs) = f[N]
  BY <1>1 DEF FlattenSeq
<1> HIDE DEF f, F
<1>6. \A i \in 1 .. N : f[i] = g[i]
  <2> DEFINE bad == {k \in 1 .. N : f[k] # g[k]}
  <2> SUFFICES ASSUME bad # {} PROVE FALSE
    OBVIOUS
  <2>1. bad \subseteq Nat
    <3> HIDE DEF N
    <3> QED
      BY <1>1
  <2>2. PICK k \in bad : \A i \in bad : k <= i
    <3> HIDE DEF bad
    <3> QED
      BY <2>1, Least
  <2>3. k \in 1 .. N /\ f[k] # g[k]
    OBVIOUS
  <2>4. f[k] = IF k = 1 THEN seqs[k] ELSE f[k - 1] \o seqs[k]
    <3>1. f = [i \in 1 .. N |-> IF i = 1 THEN seqs[i] ELSE f[i - 1] \o seqs[i]]
      BY <1>4 DEF F
    <3> QED
      BY <2>3, <3>1
  <2>5. g[k] = IF k = 1 THEN seqs[k] ELSE g[k - 1] \o seqs[k]
    BY <1>2, <2>3 DEF Flattens
  <2>6. k # 1 => k - 1 \in 1 .. N /\ ~(k <= k - 1)
    BY <1>1, <2>3
  <2>7. k # 1 => f[k - 1] = g[k - 1]
    BY <2>2, <2>6
  <2> HIDE DEF bad
  <2> QED
    BY <2>3, <2>4, <2>5, <2>7
<1>7. g[N] = FlattenSeq(seqs)
  BY <1>1, <1>5, <1>6
<1> QED
  BY <1>2, <1>7

\* What is left behind the last n of the sequences.
RestsFrom(S, seqs, n, rest) ==
  /\ rest \in [Len(seqs) - n .. Len(seqs) -> Seq(S)] /\ rest[Len(seqs)] = <<>>
  /\ \A k \in Len(seqs) - n + 1 .. Len(seqs) : rest[k - 1] = seqs[k] \o rest[k]

\* What is behind each of the first n sequences, flattened.
LEMMA RestsExist ==
  ASSUME NEW S, NEW seqs \in Seq(Seq(S)), NEW n \in 0 .. Len(seqs)
  PROVE  \E rest : RestsFrom(S, seqs, n, rest)
<1> DEFINE N == Len(seqs)
           bad == {k \in 0 .. N : ~\E rest : RestsFrom(S, seqs, k, rest)}
<1>1. N \in Nat /\ \A i \in 1 .. N : seqs[i] \in Seq(S)
  BY ElementOfSeq, LenProperties
<1> SUFFICES ASSUME bad # {} PROVE FALSE
  OBVIOUS
<1>2. bad \subseteq Nat
  OBVIOUS
<1>3. PICK k \in bad : \A i \in bad : k <= i
  <2> HIDE DEF bad
  <2> QED
    BY <1>2, Least
<1>4. k \in 0 .. N /\ ~\E rest : RestsFrom(S, seqs, k, rest)
  OBVIOUS
<1>5. CASE k = 0
  <2> DEFINE rest == [i \in N .. N |-> <<>>]
  <2>1. N - k = N /\ N \in N .. N
    BY <1>1, <1>5
  <2>2. <<>> \in Seq(S)
    BY EmptySeq
  <2>3. rest \in [N .. N -> Seq(S)] /\ rest[N] = <<>>
    BY <2>1, <2>2
  <2>4. N - k + 1 .. N = {}
    BY <1>1, <1>5
  <2> HIDE DEF rest
  <2>5. RestsFrom(S, seqs, k, rest)
    BY <2>1, <2>3, <2>4 DEF RestsFrom
  <2> QED
    BY <1>4, <2>5
<1>6. CASE k # 0
  <2>1. k - 1 \in 0 .. N /\ ~(k <= k - 1)
    BY <1>1, <1>4, <1>6
  <2>2. k - 1 \notin bad
    <3> HIDE DEF bad
    <3> QED
      BY <1>3, <2>1
  <2>3. PICK h : RestsFrom(S, seqs, k - 1, h)
    BY <2>1, <2>2
  <2> HIDE DEF bad
  <2> DEFINE m == N - k
             rest == [i \in m .. N |-> IF i = m THEN seqs[m + 1] \o h[m + 1] ELSE h[i]]
  <2>4. m \in Nat /\ m + 1 \in 1 .. N /\ m + 1 = N - (k - 1) /\ m + 2 = N - (k - 1) + 1
    BY <1>1, <1>4, <1>6
  <2>5. /\ h \in [m + 1 .. N -> Seq(S)] /\ h[N] = <<>>
        /\ \A i \in m + 2 .. N : h[i - 1] = seqs[i] \o h[i]
    <3> HIDE DEF m
    <3> QED
      BY <2>3, <2>4 DEF RestsFrom
  <2> HIDE DEF m
  <2>6. rest \in [m .. N -> Seq(S)]
    <3> SUFFICES ASSUME NEW i \in m .. N
                 PROVE  (IF i = m THEN seqs[m + 1] \o h[m + 1] ELSE h[i]) \in Seq(S)
      OBVIOUS
    <3>1. i # m => i \in m + 1 .. N
      BY <2>4
    <3>2. m + 1 \in m + 1 .. N
      BY <1>1, <2>4
    <3>3. seqs[m + 1] \in Seq(S) /\ h[m + 1] \in Seq(S)
      BY <1>1, <2>4, <2>5, <3>2
    <3>4. seqs[m + 1] \o h[m + 1] \in Seq(S)
      BY <3>3, ConcatProperties
    <3> QED
      BY <2>5, <3>1, <3>4
  <2>7. rest[N] = <<>>
    <3>1. N \in m .. N /\ N # m
      BY <1>1, <2>4
    <3> QED
      BY <2>5, <3>1
  <2>8. ASSUME NEW i \in m + 1 .. N
        PROVE  rest[i - 1] = seqs[i] \o rest[i]
    <3>1. i \in m .. N /\ i # m /\ i - 1 \in m .. N
      BY <1>1, <2>4
    <3>2. rest[i] = h[i]
      BY <3>1
    <3>3. CASE i = m + 1
      <4>1. i - 1 = m
        BY <2>4, <3>3
      <4>2. rest[i - 1] = seqs[m + 1] \o h[m + 1]
        BY <3>1, <4>1
      <4> HIDE DEF rest
      <4> QED
        BY <3>2, <3>3, <4>2
    <3>4. CASE i # m + 1
      <4>1. i \in m + 2 .. N /\ i - 1 # m
        BY <1>1, <2>4, <3>4
      <4>2. rest[i - 1] = h[i - 1]
        BY <3>1, <4>1
      <4> HIDE DEF rest
      <4> QED
        BY <2>5, <3>2, <4>1, <4>2
    <3> QED
      BY <3>3, <3>4
  <2>9. RestsFrom(S, seqs, k, rest)
    <3> HIDE DEF rest
    <3> QED
      BY <2>6, <2>7, <2>8 DEF RestsFrom, m
  <2> QED
    BY <1>4, <2>9
<1> QED
  BY <1>5, <1>6

\* Sequences that are flattened are one after another.
LEMMA Flattened ==
  ASSUME NEW S, NEW seqs \in Seq(Seq(S))
  PROVE  \E rest : RestsOf(S, seqs, rest)
<1> DEFINE N == Len(seqs)
<1>1. N \in Nat /\ \A i \in 1 .. N : seqs[i] \in Seq(S)
  BY ElementOfSeq, LenProperties
<1>2. PICK rest : RestsFrom(S, seqs, N, rest)
  BY <1>1, RestsExist
<1>3. /\ rest \in [0 .. N -> Seq(S)] /\ rest[N] = <<>>
      /\ \A k \in 1 .. N : rest[k - 1] = seqs[k] \o rest[k]
  <2>1. N - N = 0 /\ N - N + 1 = 1
    BY <1>1
  <2> QED
    BY <1>2, <2>1 DEF RestsFrom
<1>4. rest[0] = FlattenSeq(seqs)
  <2>1. CASE N = 0
    <3>1. seqs = <<>>
      BY <2>1, EmptySeq
    <3>2. FlattenSeq(seqs) = seqs
      BY <2>1 DEF FlattenSeq
    <3> QED
      BY <1>3, <2>1, <3>1, <3>2
  <2>2. CASE N # 0
    <3>1. seqs # <<>>
      BY <2>2, EmptySeq
    <3>2. PICK g \in [1 .. N -> Seq(S)] : Flattens(seqs, N, g) /\ g[N] = FlattenSeq(seqs)
      BY <3>1, FlatIs
    <3> HIDE DEF N
    <3> DEFINE bad == {k \in 1 .. N : rest[0] # g[k] \o rest[k]}
    <3>3. bad = {}
      <4> SUFFICES ASSUME bad # {} PROVE FALSE
        OBVIOUS
      <4>1. bad \subseteq Nat
        BY <1>1
      <4>2. PICK k \in bad : \A i \in bad : k <= i
        <5> HIDE DEF bad
        <5> QED
          BY <4>1, Least
      <4>3. k \in 1 .. N /\ rest[0] # g[k] \o rest[k]
        OBVIOUS
      <4>4. g[k] = IF k = 1 THEN seqs[k] ELSE g[k - 1] \o seqs[k]
        BY <3>2, <4>3 DEF Flattens, N
      <4>5. k # 1
        <5> SUFFICES ASSUME k = 1 PROVE FALSE
          OBVIOUS
        <5>1. 1 \in 1 .. N /\ 1 - 1 = 0
          BY <4>3
        <5>2. rest[1 - 1] = seqs[1] \o rest[1]
          BY <1>3, <5>1
        <5> QED
          BY <4>3, <4>4, <5>1, <5>2
      <4>6. k - 1 \in 1 .. N /\ ~(k <= k - 1)
        BY <1>1, <4>3, <4>5
      <4>7. k - 1 \notin bad
        <5> HIDE DEF bad
        <5> QED
          BY <4>2, <4>6
      <4>8. rest[0] = g[k - 1] \o rest[k - 1]
        BY <4>6, <4>7
      <4> HIDE DEF bad
      <4>9. rest[k - 1] = seqs[k] \o rest[k]
        BY <1>3, <4>3
      <4>10. g[k - 1] \in Seq(S) /\ seqs[k] \in Seq(S)
        BY <1>1, <3>2, <4>3, <4>6
      <4>11. rest[k] \in Seq(S)
        BY <1>1, <1>3, <4>3
      <4>12. \A a, b, c \in Seq(S) : (a \o b) \o c = a \o (b \o c)
        BY ConcatAssociative
      <4>13. (g[k - 1] \o seqs[k]) \o rest[k] = g[k - 1] \o (seqs[k] \o rest[k])
        BY <4>10, <4>11, <4>12
      <4> QED
        BY <4>3, <4>4, <4>5, <4>8, <4>9, <4>13
    <3>4. N \in 1 .. N
      BY <1>1, <2>2
    <3>5. rest[0] = g[N] \o rest[N]
      BY <3>3, <3>4
    <3>6. g[N] \in Seq(S)
      BY <3>2, <3>4
    <3>7. g[N] = FlattenSeq(seqs)
      BY <3>2 DEF N
    <3> QED
      BY <1>3, <3>5, <3>6, <3>7, ConcatEmptySeq
  <2> QED
    BY <2>1, <2>2
<1> QED
  BY <1>3, <1>4 DEF RestsOf

\* A decoder in front of some bytes, of whose end the tail was cut off.
Upto(d, tail, s) == \E q \in Bytes : d = Good(q) /\ q \o tail = s

\* A tag that was cut off is read as zeros.
Lost(t, tail) == tail # <<>> /\ t.tag = 0 /\ t.meta = 0 /\ t.d.err = TRUE

\* A tag is read with its number, in front of what follows it, or it was cut off.
TagUpto(t, tail, num, meta, s) ==
  Lost(t, tail) \/ (t.tag = num /\ t.meta = meta /\ Upto(t.d, tail, s))

\* A number is read, or it was cut off.
NumberUpto(y, tail, w, s) ==
  (tail # <<>> /\ y.d.err = TRUE) \/ (y.v = w /\ Upto(y.d, tail, s))

\* The tail of what was cut within a part is not empty.
LEMMA CutTail ==
  \A w, tail, a, s \in Bytes : CutWithin(w, a) /\ w \o tail = a \o s =>
     tail # <<>> /\ Len(w) < Len(a)
<1> SUFFICES ASSUME NEW w \in Bytes, NEW tail \in Bytes, NEW a \in Bytes, NEW s \in Bytes,
                    CutWithin(w, a), w \o tail = a \o s
             PROVE  tail # <<>> /\ Len(w) < Len(a)
  OBVIOUS
<1>1. PICK t \in Bytes : t # <<>> /\ w \o t = a
  BY DEF CutWithin
<1>2. Len(w) + Len(t) = Len(a) /\ Len(w) + Len(tail) = Len(a) + Len(s)
  BY <1>1, JoinAt
<1>3. Len(w) \in Nat /\ Len(t) \in Nat /\ Len(tail) \in Nat /\ Len(a) \in Nat /\ Len(s) \in Nat
  BY LenBytes
<1>4. Len(t) # 0
  BY <1>1, EmptySeq DEF Bytes
<1>5. Len(tail) # 0 /\ Len(<<>>) = 0
  BY <1>2, <1>3, <1>4
<1>6. tail # <<>>
  BY <1>5
<1> QED
  BY <1>2, <1>3, <1>4, <1>6

\* A single byte is there, or nothing is.
LEMMA FirstByteCut ==
  \A b \in Byte : \A q, tail, s \in Bytes : q \o tail = <<b>> \o s =>
     (q = <<>> /\ tail # <<>>) \/ CutBehind(q, tail, <<b>>, s)
<1> SUFFICES ASSUME NEW b \in Byte, NEW q \in Bytes, NEW tail \in Bytes, NEW s \in Bytes,
                    q \o tail = <<b>> \o s, ~CutBehind(q, tail, <<b>>, s)
             PROVE  q = <<>> /\ tail # <<>>
  OBVIOUS
<1>1. <<b>> \in Bytes /\ Len(<<b>>) = 1
  BY DEF Bytes
<1>2. CutWithin(q, <<b>>)
  BY <1>1, CutJoin
<1>3. tail # <<>> /\ Len(q) < 1
  BY <1>1, <1>2, CutTail
<1>4. Len(q) = 0
  BY <1>3, LenBytes
<1> QED
  BY <1>3, <1>4, EmptySeq DEF Bytes

\* At the end no tag is read.
LEMMA NoTag == TagNumber(Good(<<>>)) = [d |-> [buf |-> <<>>, err |-> TRUE], tag |-> 0, meta |-> 0]
<1> DEFINE x == Decode(Good(<<>>), 1)
           y == Decode(x.d, 1)
<1>1. <<>> \in Bytes /\ Len(<<>>) < 1
  BY DEF Bytes
<1>2. x = [d |-> [buf |-> <<>>, err |-> TRUE], v |-> Zeros(1)]
  BY <1>1, Missing
<1> HIDE DEF x
<1>3. x.d = [buf |-> <<>>, err |-> TRUE] /\ x.v[1] = 0
  BY <1>2 DEF Zeros
<1>4. ~(0 >= 240) /\ 0 \div 16 = 0
  BY SMT
<1>5. TagNumber(Good(<<>>)) = IF x.v[1] >= 240 THEN [d |-> y.d, tag |-> y.v[1], meta |-> x.v[1]]
                              ELSE [d |-> x.d, tag |-> x.v[1] \div 16, meta |-> x.v[1]]
  BY DEF TagNumber, x
<1> QED
  BY <1>3, <1>4, <1>5

\* A tag of one byte.
LEMMA UptoTag ==
  \A low \in 0 .. 15, num \in 0 .. 14 : \A d : \A tail, s \in Bytes :
    Upto(d, tail, TagByte(low, num) \o s) =>
      TagUpto(TagNumber(d), tail, num, 16 * num + low, s)
<1> SUFFICES ASSUME NEW low \in 0 .. 15, NEW num \in 0 .. 14, NEW d, NEW tail \in Bytes,
                    NEW s \in Bytes, Upto(d, tail, TagByte(low, num) \o s)
             PROVE  TagUpto(TagNumber(d), tail, num, 16 * num + low, s)
  OBVIOUS
<1> DEFINE b == 16 * num + low
           t == TagNumber(d)
<1>1. b \in Byte /\ num \in Byte /\ Meta(low, num) = b /\ TagByte(low, num) = <<b>>
  BY SMT DEF Byte, Meta, TagByte
<1>2. PICK q \in Bytes : d = Good(q) /\ q \o tail = <<b>> \o s
  BY <1>1 DEF Upto
<1> HIDE DEF b
<1>3. (q = <<>> /\ tail # <<>>) \/ CutBehind(q, tail, <<b>>, s)
  BY <1>1, <1>2, FirstByteCut
<1>4. CASE q = <<>> /\ tail # <<>>
  <2>1. t = [d |-> [buf |-> <<>>, err |-> TRUE], tag |-> 0, meta |-> 0]
    BY <1>2, <1>4, NoTag
  <2> HIDE DEF t
  <2>2. Lost(t, tail)
    BY <1>4, <2>1 DEF Lost
  <2> QED
    BY <2>2 DEF TagUpto, t
<1>5. CASE CutBehind(q, tail, <<b>>, s)
  <2>1. PICK p \in Bytes : q = <<b>> \o p /\ p \o tail = s
    BY <1>5 DEF CutBehind
  <2>2. d = Good(TagByte(low, num) \o p)
    BY <1>1, <1>2, <2>1
  <2>3. t = [d |-> Good(p), tag |-> num, meta |-> b]
    BY <1>1, <2>2, ReadTagNumber
  <2> HIDE DEF t
  <2>4. t.tag = num /\ t.meta = b /\ t.d = Good(p)
    BY <2>3
  <2>5. Upto(t.d, tail, s)
    BY <2>1, <2>4 DEF Upto
  <2> QED
    BY <2>4, <2>5 DEF TagUpto, t, b
<1> QED
  BY <1>3, <1>4, <1>5

\* A tag with its value in it.
LEMMA TagAndValue ==
  \A d : TagNumber(d).meta \in Nat /\ TagNumber(d).meta % 8 # 5 =>
    LET t == TagNumber(d)
        x == TagNumberAndValue(d)
    IN  /\ x.d = t.d /\ x.tag = t.tag /\ x.meta = t.meta
        /\ x.v = IF t.meta % 8 < 5 THEN t.meta % 8 ELSE 0
        /\ ValueOf(t).d = t.d /\ ValueOf(t).v = x.v
<1> SUFFICES ASSUME NEW d, TagNumber(d).meta \in Nat, TagNumber(d).meta % 8 # 5
             PROVE  LET t == TagNumber(d)
                        x == TagNumberAndValue(d)
                    IN  /\ x.d = t.d /\ x.tag = t.tag /\ x.meta = t.meta
                        /\ x.v = IF t.meta % 8 < 5 THEN t.meta % 8 ELSE 0
                        /\ ValueOf(t).d = t.d /\ ValueOf(t).v = x.v
  OBVIOUS
<1> DEFINE t == TagNumber(d)
           x == TagNumberAndValue(d)
           v == ValueOf(t)
<1>1. x = [d |-> v.d, tag |-> t.tag, meta |-> t.meta, v |-> v.v]
  BY DEF TagNumberAndValue
<1>2. v = TagValue(t.d, t.meta)
  BY DEF ValueOf
<1> HIDE DEF t, x, v
<1>3. t.meta \in Nat /\ t.meta % 8 # 5
  BY DEF t
<1> DEFINE m == t.meta
<1>4. \A n \in Nat : n % 8 \in Nat
  BY SMT
<1>5. m % 8 \in Nat /\ m % 8 # 5
  BY <1>3, <1>4
<1>6. m % 8 < 5 => TagValue(t.d, m) = [d |-> t.d, v |-> m % 8]
  <2> HIDE DEF m
  <2> QED
    BY <1>5, SMT DEF TagValue
<1>7. ~(m % 8 < 5) => TagValue(t.d, m) = [d |-> t.d, v |-> 0]
  <2> HIDE DEF m
  <2>1. ~(m % 8 < 5) => m % 8 > 5
    BY <1>5, SMT
  <2> QED
    BY <1>5, <2>1, SMT DEF TagValue
<1>8. v.d = t.d /\ v.v = IF m % 8 < 5 THEN m % 8 ELSE 0
  <2>1. v = TagValue(t.d, m)
    BY <1>2
  <2> HIDE DEF m
  <2> QED
    BY <1>6, <1>7, <2>1
<1>9. x.d = v.d /\ x.tag = t.tag /\ x.meta = t.meta /\ x.v = v.v
  BY <1>1
<1> QED
  BY <1>8, <1>9 DEF t, x, v

\* A tag of one byte with its value in it.
LEMMA UptoTagValue ==
  \A low \in 0 .. 15, num \in 0 .. 14 : \A d : \A tail, s \in Bytes :
    low % 8 # 5 /\ Upto(d, tail, TagByte(low, num) \o s) =>
      /\ TagUpto(TagNumberAndValue(d), tail, num, 16 * num + low, s)
      /\ TagNumberAndValue(d).meta # 0 =>
           TagNumberAndValue(d).v = IF low % 8 < 5 THEN low % 8 ELSE 0
<1> SUFFICES ASSUME NEW low \in 0 .. 15, NEW num \in 0 .. 14, NEW d, NEW tail \in Bytes,
                    NEW s \in Bytes, low % 8 # 5, Upto(d, tail, TagByte(low, num) \o s)
             PROVE  /\ TagUpto(TagNumberAndValue(d), tail, num, 16 * num + low, s)
                    /\ TagNumberAndValue(d).meta # 0 =>
                         TagNumberAndValue(d).v = IF low % 8 < 5 THEN low % 8 ELSE 0
  OBVIOUS
<1> DEFINE b == 16 * num + low
           t == TagNumber(d)
           x == TagNumberAndValue(d)
<1>1. b \in Nat /\ b % 8 = low % 8
  BY SMT
<1>2. TagUpto(t, tail, num, b, s)
  BY UptoTag
<1> HIDE DEF b
<1>3. t.meta \in {0, b}
  <2> HIDE DEF t
  <2> QED
    BY <1>2 DEF TagUpto, Lost
<1>4. t.meta \in Nat /\ t.meta % 8 # 5
  <2> DEFINE m == t.meta
  <2>1. m \in {0, b}
    BY <1>3
  <2> HIDE DEF m
  <2>2. 0 % 8 = 0
    BY SMT
  <2>3. m \in Nat /\ m % 8 # 5
    BY <1>1, <2>1, <2>2
  <2> QED
    BY <2>3 DEF m
<1>5. /\ x.d = t.d /\ x.tag = t.tag /\ x.meta = t.meta
      /\ x.v = IF t.meta % 8 < 5 THEN t.meta % 8 ELSE 0
  BY <1>4, TagAndValue
<1> HIDE DEF t, x
<1>6. TagUpto(x, tail, num, b, s)
  BY <1>2, <1>5 DEF TagUpto, Lost
<1>7. x.meta # 0 => x.v = IF low % 8 < 5 THEN low % 8 ELSE 0
  <2>1. x.meta # 0 => t.meta = b
    BY <1>3, <1>5
  <2> QED
    BY <1>1, <1>5, <2>1
<1> QED
  BY <1>6, <1>7 DEF x, b

\* A number.
LEMMA UptoUnsigned ==
  \A w \in Word : \A d : \A tail, s \in Bytes :
    Upto(d, tail, Unsigned(w) \o s) => NumberUpto(DecodeUnsigned(d, ValueLength(w)), tail, w, s)
<1> SUFFICES ASSUME NEW w \in Word, NEW d, NEW tail \in Bytes, NEW s \in Bytes,
                    Upto(d, tail, Unsigned(w) \o s)
             PROVE  NumberUpto(DecodeUnsigned(d, ValueLength(w)), tail, w, s)
  OBVIOUS
<1> DEFINE n == ValueLength(w)
           a == Unsigned(w)
           y == DecodeUnsigned(d, n)
           x == Decode(d, n)
<1>1. n \in 1 .. 4 /\ a \in Bytes /\ Len(a) = n
  BY UnsignedBytes
<1>2. PICK q \in Bytes : d = Good(q) /\ q \o tail = a \o s
  BY DEF Upto
<1>3. CutWithin(q, a) \/ CutBehind(q, tail, a, s)
  <2> HIDE DEF a
  <2> QED
    BY <1>1, <1>2, CutJoin
<1>4. CASE CutWithin(q, a)
  <2>1. tail # <<>> /\ Len(q) < n
    <3> HIDE DEF a
    <3> QED
      BY <1>1, <1>2, <1>4, CutTail
  <2>2. n \in Nat
    BY <1>1
  <2>3. x = [d |-> [buf |-> <<>>, err |-> TRUE], v |-> Zeros(n)]
    BY <1>2, <2>1, <2>2, Missing
  <2>4. y.d = x.d
    BY <1>1, SMT DEF DecodeUnsigned
  <2> HIDE DEF x, y, n
  <2>5. x.d.err = TRUE
    BY <2>3
  <2> QED
    BY <2>1, <2>4, <2>5 DEF NumberUpto, y, n
<1>5. CASE CutBehind(q, tail, a, s)
  <2>1. PICK p \in Bytes : q = a \o p /\ p \o tail = s
    BY <1>5 DEF CutBehind
  <2>2. y = [d |-> Good(p), v |-> w]
    BY <1>2, <2>1, UnsignedRead
  <2> HIDE DEF y
  <2>3. y.v = w /\ y.d = Good(p)
    BY <2>2
  <2> QED
    BY <2>1, <2>3 DEF NumberUpto, Upto, y
<1> QED
  BY <1>3, <1>4, <1>5

\* The largest numbers of types, instances and properties.
LEMMA Largest == MaxObject \in Nat /\ MaxInstance \in Nat /\ MaxPropertyID \in Nat
<1>1. MaxObject \in Nat
  BY SMT DEF MaxObject
<1>2. MaxInstance \in Nat
  BY SMT DEF MaxInstance
<1>3. MaxPropertyID \in Nat
  BY SMT DEF MaxPropertyID
<1> QED
  BY <1>1, <1>2, <1>3

\* An object identifier is read, or it was cut off.
IdUpto(y, tail, type, instance, s) ==
  \/ tail # <<>> /\ y.d.err = TRUE
  \/ y.type = type /\ y.instance = instance /\ Upto(y.d, tail, s)

\* An object identifier is read up to the cut.
LEMMA UptoId ==
  \A type \in 0 .. MaxObject, instance \in 0 .. MaxInstance : \A d : \A tail, s \in Bytes :
    Upto(d, tail, ObjectId(type, instance) \o s) =>
      IdUpto(DecodeObjectId(d), tail, type, instance, s)
<1> SUFFICES ASSUME NEW type \in 0 .. MaxObject, NEW instance \in 0 .. MaxInstance, NEW d,
                    NEW tail \in Bytes, NEW s \in Bytes,
                    Upto(d, tail, ObjectId(type, instance) \o s)
             PROVE  IdUpto(DecodeObjectId(d), tail, type, instance, s)
  OBVIOUS
<1> DEFINE a == ObjectId(type, instance)
           y == DecodeObjectId(d)
           x == Decode(d, 4)
<1>1. type \in Nat /\ type <= MaxObject /\ instance \in Nat /\ instance <= MaxInstance
      /\ <<>> \in Bytes
  <2>1. type \in Nat /\ type <= MaxObject /\ instance \in Nat /\ instance <= MaxInstance
    BY Largest
  <2>3. <<>> \in Bytes
    BY DEF Bytes
  <2> QED
    BY <2>1, <2>3
<1>2. a \in Bytes /\ Len(a) = 4
  BY <1>1, ObjectIdRead
<1>3. PICK q \in Bytes : d = Good(q) /\ q \o tail = a \o s
  BY DEF Upto
<1>4. CutWithin(q, a) \/ CutBehind(q, tail, a, s)
  <2> HIDE DEF a
  <2> QED
    BY <1>2, <1>3, CutJoin
<1>5. CASE CutWithin(q, a)
  <2>1. tail # <<>> /\ Len(q) < 4
    <3> HIDE DEF a
    <3> QED
      BY <1>2, <1>3, <1>5, CutTail
  <2>2. x = [d |-> [buf |-> <<>>, err |-> TRUE], v |-> Zeros(4)]
    BY <1>3, <2>1, Missing
  <2>3. y.d = x.d
    BY DEF DecodeObjectId
  <2> HIDE DEF x, y
  <2>4. x.d.err = TRUE
    BY <2>2
  <2> QED
    BY <2>1, <2>3, <2>4 DEF IdUpto, y
<1>6. CASE CutBehind(q, tail, a, s)
  <2>1. PICK p \in Bytes : q = a \o p /\ p \o tail = s
    BY <1>6 DEF CutBehind
  <2>2. y = [d |-> Good(p), type |-> type, instance |-> instance]
    BY <1>1, <1>3, <2>1, ObjectIdRead
  <2> HIDE DEF y
  <2>3. y.type = type /\ y.instance = instance /\ y.d = Good(p)
    BY <2>2
  <2> QED
    BY <2>1, <2>3 DEF IdUpto, Upto, y
<1> QED
  BY <1>4, <1>5, <1>6

\* Of the values only strings are longer than a tag has room for.
LEMMA LongIsString == \A x \in AppValues : SizeOf(x) > 4 => TagOf(x) = 7
<1> SUFFICES ASSUME NEW x \in AppValues, SizeOf(x) > 4 PROVE TagOf(x) = 7
  OBVIOUS
<1> DEFINE n == SizeOf(x)
           id == TagOf(x)
<1>1. n \in Nat
  <2>1. <<>> \in Bytes
    BY DEF Bytes
  <2> QED
    BY <2>1, ValueParts DEF Parts
<1>2. x.t \in {"uint", "int", "enum"} => x.v \in Word
  BY DEF AppValues, Null
<1>3. x.t \in {"uint", "int", "enum"} => n <= 4
  <2> SUFFICES ASSUME x.t \in {"uint", "int", "enum"} PROVE n <= 4
    OBVIOUS
  <2>1. ValueLength(x.v) \in 1 .. 4 /\ n = ValueLength(x.v)
    BY <1>2, UnsignedBytes DEF SizeOf
  <2> QED
    BY <2>1
<1>4. x.t = "bool" => n <= 4
  <2>1. x.t = "bool" => x.v \in {<<0>>, <<1>>} /\ n = x.v[1]
    BY DEF AppValues, Null, SizeOf
  <2> QED
    BY <2>1
<1>5. x.t \in {"null", "real", "double", "objectid"} => n <= 4
  BY DEF SizeOf
<1>6. x.t = "string" => id = 7
  BY DEF TagOf
<1>7. x.t \in {"uint", "int", "enum", "real", "double", "bool", "null", "objectid", "string"}
  BY DEF AppValues, Null
<1>8. n > 4
  OBVIOUS
<1> HIDE DEF n, id
<1>9. id = 7
  BY <1>1, <1>3, <1>4, <1>5, <1>6, <1>7, <1>8
<1> QED
  BY <1>9 DEF id

\* The length behind a tag is read, or it was cut off and read as zero.
SizeUpto(z, tail, n, s) ==
  \/ tail # <<>> /\ z.d.err = TRUE /\ z.v = 0 /\ n > 4
  \/ z.v = n /\ Upto(z.d, tail, s)

\* The length of a value is read up to the cut.
LEMMA UptoSize ==
  \A n \in Nat : \A num \in 0 .. 14 : \A d : \A tail, s \in Bytes :
    n < LongLength /\ Upto(d, tail, Extended(n) \o s) =>
      SizeUpto(TagValue(d, 16 * num + TagLow(FALSE, n)), tail, n, s)
<1> SUFFICES ASSUME NEW n \in Nat, NEW num \in 0 .. 14, NEW d, NEW tail \in Bytes, NEW s \in Bytes,
                    n < LongLength, Upto(d, tail, Extended(n) \o s)
             PROVE  SizeUpto(TagValue(d, 16 * num + TagLow(FALSE, n)), tail, n, s)
  OBVIOUS
<1> DEFINE low == TagLow(FALSE, n)
           m == 16 * num + low
           z == TagValue(d, m)
           e == Good(Extended(n) \o s)
           y == TagValue(e, m)
<1>1. low = (IF n <= 4 THEN n ELSE 5) /\ low \in 0 .. 15
  BY DEF TagLow
<1>2. low % 8 = IF n <= 4 THEN n ELSE 5
  <2> HIDE DEF low
  <2> QED
    BY <1>1, SMT
<1>3. num \in Byte /\ Meta(low, num) = m /\ m \in Byte /\ m % 8 = low % 8
  <2> HIDE DEF low
  <2> QED
    BY <1>1, SMT DEF Byte, Meta
<1>4. y = [d |-> Good(s), v |-> n]
  <2>1. \A g : g = Meta(low, num) => TagValue(e, g) = [d |-> Good(s), v |-> n]
    <3> HIDE DEF low
    <3> QED
      BY <1>1, <1>2, <1>3, ExtendedRead
  <2> HIDE DEF low
  <2> QED
    BY <1>3, <2>1
<1>5. PICK q \in Bytes : d = Good(q) /\ q \o tail = Extended(n) \o s
  BY DEF Upto
<1>6. Follows(d, e, tail) /\ d.err # TRUE
  BY <1>5, FollowsGood, NoError
<1>7. /\ ReadAlike(d, z, y, tail)
      /\ z.d.err = TRUE => z.v = 0 /\ m % 8 = 5
  <2> HIDE DEF e, m
  <2> QED
    BY <1>3, <1>6, CutLength
<1>8. tail = <<>> => z = y
  <2>1. tail = <<>> => d = e
    <3>1. q \o <<>> = q
      BY ConcatEmptySeq DEF Bytes
    <3> QED
      BY <1>5, <3>1
  <2> HIDE DEF e
  <2> QED
    BY <2>1
<1> HIDE DEF y, z, e, m
<1>9. y.d = Good(s) /\ y.v = n /\ y.d.err = FALSE
  BY <1>4, NoError
<1>10. CASE z.d.err = TRUE
  <2>1. tail # <<>>
    BY <1>8, <1>9, <1>10
  <2>2. n > 4
    <3> HIDE DEF low
    <3> QED
      BY <1>1, <1>2, <1>3, <1>7, <1>10
  <2> QED
    BY <1>7, <1>10, <2>1, <2>2 DEF SizeUpto, z, m
<1>11. CASE z.d.err # TRUE
  <2>1. z.v = n /\ z.d.buf \in Bytes /\ z.d = Good(z.d.buf) /\ Good(s) = Good(z.d.buf \o tail)
    BY <1>7, <1>9, <1>11 DEF ReadAlike, Follows
  <2>2. s = z.d.buf \o tail
    BY <2>1, NoError
  <2>3. Upto(z.d, tail, s)
    BY <2>1, <2>2 DEF Upto
  <2> QED
    BY <2>1, <2>3 DEF SizeUpto, z, m
<1> QED
  BY <1>10, <1>11

\* A value is read, or it was cut off.
ValueUpto(z, tail, x, s) ==
  \/ tail # <<>> /\ (z.err = TRUE \/ (z.err = FALSE /\ z.d.err = TRUE))
  \/ z.err = FALSE /\ z.x = Received(x) /\ Upto(z.d, tail, s)

\* A value is read up to the cut.
LEMMA UptoData ==
  \A x \in AppValues : \A d : \A tail, s \in Bytes :
    Upto(d, tail, DataOf(x) \o s) => ValueUpto(AppDataOfTag(d, TagOf(x), SizeOf(x)), tail, x, s)
<1> SUFFICES ASSUME NEW x \in AppValues, NEW d, NEW tail \in Bytes, NEW s \in Bytes,
                    Upto(d, tail, DataOf(x) \o s)
             PROVE  ValueUpto(AppDataOfTag(d, TagOf(x), SizeOf(x)), tail, x, s)
  OBVIOUS
<1> DEFINE a == DataOf(x)
           z == AppDataOfTag(d, TagOf(x), SizeOf(x))
<1>1. a \in Bytes
  BY ValueParts DEF Parts
<1>2. PICK q \in Bytes : d = Good(q) /\ q \o tail = a \o s
  BY DEF Upto
<1>3. CutWithin(q, a) \/ CutBehind(q, tail, a, s)
  <2> HIDE DEF a
  <2> QED
    BY <1>1, <1>2, CutJoin
<1>4. CASE CutWithin(q, a)
  <2>1. tail # <<>>
    <3> HIDE DEF a
    <3> QED
      BY <1>1, <1>2, <1>4, CutTail
  <2>2. PICK t \in Bytes : t # <<>> /\ q \o t = a
    BY <1>4 DEF CutWithin
  <2>3. z.err = TRUE
    BY <1>2, <2>2, CutData
  <2> HIDE DEF z
  <2> QED
    BY <2>1, <2>3 DEF ValueUpto, z
<1>5. CASE CutBehind(q, tail, a, s)
  <2>1. PICK p \in Bytes : q = a \o p /\ p \o tail = s
    BY <1>5 DEF CutBehind
  <2>2. z = [d |-> Good(p), x |-> Received(x), err |-> FALSE]
    <3>1. Parts(x, p)
      BY ValueParts
    <3> QED
      BY <1>2, <2>1, <3>1 DEF Parts
  <2> HIDE DEF z
  <2>3. z.d = Good(p) /\ z.x = Received(x) /\ z.err = FALSE
    BY <2>2
  <2> QED
    BY <2>1, <2>3 DEF ValueUpto, Upto, z
<1> QED
  BY <1>3, <1>4, <1>5

\* The value behind its tag, with the length that is in the tag or follows it.
LEMMA UptoValue ==
  \A x \in AppValues : \A d : \A tail, s \in Bytes :
    Upto(d, tail, Extended(SizeOf(x)) \o (DataOf(x) \o s)) =>
      LET size == TagValue(d, 16 * TagOf(x) + TagLow(FALSE, SizeOf(x)))
      IN  ValueUpto(AppDataOfTag(size.d, TagOf(x), size.v), tail, x, s)
<1> SUFFICES ASSUME NEW x \in AppValues, NEW d, NEW tail \in Bytes, NEW s \in Bytes,
                    Upto(d, tail, Extended(SizeOf(x)) \o (DataOf(x) \o s))
             PROVE  LET size == TagValue(d, 16 * TagOf(x) + TagLow(FALSE, SizeOf(x)))
                    IN  ValueUpto(AppDataOfTag(size.d, TagOf(x), size.v), tail, x, s)
  OBVIOUS
<1> DEFINE n == SizeOf(x)
           id == TagOf(x)
           size == TagValue(d, 16 * id + TagLow(FALSE, n))
           b == DataOf(x) \o s
           z == AppDataOfTag(size.d, id, size.v)
<1>1. id \in 0 .. 12 /\ n \in Nat /\ n < LongLength /\ DataOf(x) \in Bytes
  BY ValueParts DEF Parts
<1>2. b \in Bytes
  BY <1>1, AppendIn
<1>3. n > 4 => id = 7
  BY LongIsString
<1>4. SizeUpto(size, tail, n, b)
  <2>1. id \in 0 .. 14
    BY <1>1
  <2> HIDE DEF n, id, b
  <2> QED
    BY <1>1, <1>2, <2>1, UptoSize DEF n, b
<1>5. \A f : AppDataOfTag(f, 7, 0) = [d |-> f, x |-> [t |-> "string", v |-> <<>>], err |-> FALSE]
  BY SMT DEF AppDataOfTag
<1> HIDE DEF size
<1>6. CASE tail # <<>> /\ size.d.err = TRUE /\ size.v = 0 /\ n > 4
  <2>1. z = AppDataOfTag(size.d, 7, 0)
    BY <1>3, <1>6
  <2>2. z = [d |-> size.d, x |-> [t |-> "string", v |-> <<>>], err |-> FALSE]
    BY <1>5, <2>1
  <2> HIDE DEF z
  <2>3. z.d = size.d /\ z.err = FALSE
    BY <2>2
  <2> QED
    BY <1>6, <2>3 DEF ValueUpto, z, size, n, id
<1>7. CASE size.v = n /\ Upto(size.d, tail, b)
  <2>1. ValueUpto(AppDataOfTag(size.d, id, n), tail, x, s)
    BY <1>7, UptoData
  <2> QED
    BY <1>7, <2>1 DEF size
<1> QED
  BY <1>4, <1>6, <1>7 DEF SizeUpto

\* An object of a reply, with its properties.
AppObjects == [type : 0 .. MaxObject, instance : 0 .. MaxInstance, props : Seq(AppAnswered)]

\* The number of a property, its index, and what is behind the number.
NumberBytes(p) == ContextUnsigned(2, ToWord(p.prop))
PlaceBytes(p) == IF p.index = ArrayAll THEN <<>> ELSE ContextUnsigned(3, p.index)
BehindNumber(p, s) ==
  PlaceBytes(p) \o (<<78>> \o (AppData(p.data, FALSE) \o (<<79>> \o s)))

\* The properties of an object, the objects of a reply, and what is left of both.
PartSeq(o) == [j \in 1 .. Len(o.props) |-> Property(o.props[j], "answered")]
ObjectBytes(o) ==
  ContextObjectId(0, o.type, o.instance) \o OpeningTag(1) \o FlattenSeq(PartSeq(o)) \o ClosingTag(1)
ObjectSeq(objects) == [i \in 1 .. Len(objects) |-> ObjectBytes(objects[i])]
PropRests(o) == CHOOSE rest : RestsOf(Byte, PartSeq(o), rest)
ObjectRests(objects) == CHOOSE rest : RestsOf(Byte, ObjectSeq(objects), rest)
After(objects, i, j) == PropRests(objects[i])[j] \o (<<31>> \o ObjectRests(objects)[i])

\* The tags around objects and values are single bytes.
LEMMA Tags1 ==
  /\ OpeningTag(1) = <<30>> /\ ClosingTag(1) = <<31>> /\ OpeningTag(4) = <<78>> /\ ClosingTag(4) = <<79>>
  /\ <<30>> \in Bytes /\ <<31>> \in Bytes /\ <<78>> \in Bytes /\ <<79>> \in Bytes
<1>1. OpeningTag(1) = <<30>> /\ ClosingTag(1) = <<31>>
  BY SMT DEF OpeningTag, ClosingTag, TagByte
<1>2. OpeningTag(4) = <<78>> /\ ClosingTag(4) = <<79>>
  BY SMT DEF OpeningTag, ClosingTag, TagByte
<1>3. 30 \in Byte /\ 31 \in Byte /\ 78 \in Byte /\ 79 \in Byte
  BY DEF Byte
<1>4. <<30>> \in Bytes /\ <<31>> \in Bytes /\ <<78>> \in Bytes /\ <<79>> \in Bytes
  BY <1>3 DEF Bytes
<1> QED
  BY <1>1, <1>2, <1>4

\* The property of a reply has its number, its index and its value in place.
LEMMA AnsweredParts ==
  \A p \in AppAnswered :
    /\ ToWord(p.prop) \in Word /\ Natural(ToWord(p.prop)) = p.prop
    /\ p.index \in Word /\ p.data \in AppValues
    /\ NumberBytes(p) \in Bytes /\ PlaceBytes(p) \in Bytes /\ AppData(p.data, FALSE) \in Bytes
<1> SUFFICES ASSUME NEW p \in AppAnswered
             PROVE  /\ ToWord(p.prop) \in Word /\ Natural(ToWord(p.prop)) = p.prop
                    /\ p.index \in Word /\ p.data \in AppValues
                    /\ NumberBytes(p) \in Bytes /\ PlaceBytes(p) \in Bytes
                    /\ AppData(p.data, FALSE) \in Bytes
  OBVIOUS
<1>1. p.prop \in 0 .. MaxPropertyID /\ p.index \in Word /\ p.data \in AppValues
  BY DEF AppAnswered
<1>2. p.prop \in Nat /\ p.prop <= MaxPropertyID
  BY <1>1, Largest
<1>3. ToWord(p.prop) \in Word /\ Natural(ToWord(p.prop)) = p.prop
  BY <1>2, PropertyWord
<1>4. 2 \in Byte /\ 3 \in Byte /\ <<>> \in Bytes
  BY DEF Byte, Bytes
<1>5. NumberBytes(p) \in Bytes
  BY <1>3, <1>4, ContextRead DEF NumberBytes
<1>6. PlaceBytes(p) \in Bytes
  <2>1. ContextUnsigned(3, p.index) \in Bytes
    BY <1>1, <1>4, ContextRead
  <2> QED
    BY <1>4, <2>1 DEF PlaceBytes
<1>7. AppData(p.data, FALSE) \in Bytes
  BY <1>1, ValueBytes
<1> QED
  BY <1>1, <1>3, <1>5, <1>6, <1>7

\* Four parts in front of a rest, grouped from the left or from the right.
FromLeft(c, g, f, h) == ((c \o g) \o f) \o h
FromRight(g, f, h, z) == g \o (f \o (h \o z))

Grouped(c, g, f, h, z) ==
  /\ FromLeft(c, g, f, h) \in Bytes /\ FromRight(g, f, h, z) \in Bytes
  /\ FromLeft(c, g, f, h) \o z = c \o FromRight(g, f, h, z)

\* How the bytes of a property are grouped.
LEMMA Regroup ==
  \A c, g, f, h, z : c \in Bytes /\ g \in Bytes /\ f \in Bytes /\ h \in Bytes /\ z \in Bytes =>
    Grouped(c, g, f, h, z)
<1> TAKE c, g, f, h, z
<1> HAVE c \in Bytes /\ g \in Bytes /\ f \in Bytes /\ h \in Bytes /\ z \in Bytes
<1> DEFINE p2 == c \o g
           p3 == p2 \o f
           q3 == h \o z
           q2 == f \o q3
<1>1. p2 \in Bytes /\ q3 \in Bytes
  BY AppendIn
<1>2. p3 \in Bytes /\ q2 \in Bytes
  <2> HIDE DEF p2, q3
  <2> QED
    BY <1>1, AppendIn
<1>3. p3 \o h \in Bytes /\ g \o q2 \in Bytes
  <2> HIDE DEF p3, q2
  <2> QED
    BY <1>2, AppendIn
<1>4. (p3 \o h) \o z = p3 \o q3
  <2> HIDE DEF p3
  <2> QED
    BY <1>2, Append3
<1>5. p3 \o q3 = p2 \o q2
  <2> HIDE DEF p2, q3
  <2> QED
    BY <1>1, Append3
<1>6. p2 \o q2 = c \o (g \o q2)
  <2> HIDE DEF q2
  <2> QED
    BY <1>2, Append3
<1> QED
  BY <1>1, <1>2, <1>3, <1>4, <1>5, <1>6 DEF Grouped, FromLeft, FromRight

\* A property is its number and what is behind it.
LEMMA PropertyParts ==
  \A p \in AppAnswered : \A s \in Bytes :
    /\ Property(p, "answered") \in Bytes /\ BehindNumber(p, s) \in Bytes
    /\ Property(p, "answered") \o s = NumberBytes(p) \o BehindNumber(p, s)
<1> SUFFICES ASSUME NEW p \in AppAnswered, NEW s \in Bytes
             PROVE  /\ Property(p, "answered") \in Bytes /\ BehindNumber(p, s) \in Bytes
                    /\ Property(p, "answered") \o s = NumberBytes(p) \o BehindNumber(p, s)
  OBVIOUS
<1> DEFINE n == NumberBytes(p)
           i == PlaceBytes(p)
           v == AppData(p.data, FALSE)
<1>1. n \in Bytes /\ i \in Bytes /\ v \in Bytes /\ <<78>> \in Bytes /\ <<79>> \in Bytes
  BY AnsweredParts, Tags1
<1>2. Property(p, "answered") = (((n \o i) \o <<78>>) \o v) \o <<79>>
  <2>1. Property(p, "answered") = PropertyBytes(p, 2) \o OpeningTag(4) \o AppData(p.data, FALSE) \o ClosingTag(4)
    BY DEF Property
  <2>2. PropertyBytes(p, 2) = n \o i
    BY DEF PropertyBytes, NumberBytes, PlaceBytes
  <2> HIDE DEF n, i, v
  <2> QED
    BY <2>1, <2>2, Tags1 DEF v
<1>3. BehindNumber(p, s) = i \o (<<78>> \o (v \o (<<79>> \o s)))
  BY DEF BehindNumber
<1> DEFINE a == <<78>>
           b == <<79>>
<1> HIDE DEF n, i, v, a, b
<1>4. n \in Bytes /\ i \in Bytes /\ v \in Bytes /\ a \in Bytes /\ b \in Bytes
  BY <1>1 DEF a, b
<1> DEFINE m == n \o i
           t == a \o (v \o (b \o s))
<1>5. m \in Bytes
  BY <1>4, AppendIn
<1>6. /\ ((m \o a) \o v) \o b \in Bytes /\ t \in Bytes
      /\ (((m \o a) \o v) \o b) \o s = m \o t
  <2> HIDE DEF m
  <2>1. Grouped(m, a, v, b, s)
    BY <1>4, <1>5, Regroup
  <2> QED
    BY <2>1 DEF Grouped, FromLeft, FromRight
<1>7. i \o t \in Bytes /\ m \o t = n \o (i \o t)
  <2> HIDE DEF t
  <2>1. t \in Bytes
    BY <1>6
  <2>2. i \o t \in Bytes
    BY <1>4, <2>1, AppendIn
  <2>3. (n \o i) \o t = n \o (i \o t)
    BY <1>4, <2>1, Append3
  <2> QED
    BY <2>2, <2>3
<1>8. Property(p, "answered") = ((m \o a) \o v) \o b
  BY <1>2 DEF a, b
<1>9. BehindNumber(p, s) = i \o t
  BY <1>3 DEF a, b
<1> HIDE DEF m, t
<1> QED
  BY <1>6, <1>7, <1>8, <1>9 DEF n, a, b

\* What is left behind the properties of an object.
LEMMA PropertyRests ==
  \A o \in AppObjects :
    /\ Len(o.props) \in Nat /\ \A j \in 1 .. Len(o.props) : o.props[j] \in AppAnswered
    /\ \A j \in 0 .. Len(o.props) : PropRests(o)[j] \in Bytes
    /\ PropRests(o)[0] = FlattenSeq(PartSeq(o)) /\ PropRests(o)[Len(o.props)] = <<>>
    /\ \A j \in 1 .. Len(o.props) :
         PropRests(o)[j - 1] = Property(o.props[j], "answered") \o PropRests(o)[j]
<1> SUFFICES ASSUME NEW o \in AppObjects
             PROVE  /\ Len(o.props) \in Nat /\ \A j \in 1 .. Len(o.props) : o.props[j] \in AppAnswered
                    /\ \A j \in 0 .. Len(o.props) : PropRests(o)[j] \in Bytes
                    /\ PropRests(o)[0] = FlattenSeq(PartSeq(o)) /\ PropRests(o)[Len(o.props)] = <<>>
                    /\ \A j \in 1 .. Len(o.props) :
                         PropRests(o)[j - 1] = Property(o.props[j], "answered") \o PropRests(o)[j]
  OBVIOUS
<1> DEFINE ps == o.props
           seqs == PartSeq(o)
           rest == PropRests(o)
<1>1. ps \in Seq(AppAnswered)
  BY DEF AppObjects
<1> HIDE DEF ps
<1>2. Len(ps) \in Nat /\ \A j \in 1 .. Len(ps) : ps[j] \in AppAnswered
  BY <1>1, ElementOfSeq, LenProperties
<1>3. seqs = [j \in 1 .. Len(ps) |-> Property(ps[j], "answered")]
  BY DEF PartSeq, ps
<1>4. <<>> \in Bytes
  BY DEF Bytes
<1>5. \A j \in 1 .. Len(ps) : Property(ps[j], "answered") \in Bytes
  BY <1>2, <1>4, PropertyParts
<1> DEFINE k == Len(ps)
<1>6. seqs \in Seq(Seq(Byte)) /\ Len(seqs) = k
  <2>1. seqs \in [1 .. k -> Bytes] /\ k \in Nat
    BY <1>2, <1>3, <1>5
  <2> HIDE DEF seqs, k
  <2> QED
    BY <2>1 DEF Bytes
<1>7. RestsOf(Byte, seqs, rest)
  <2>1. \E x : RestsOf(Byte, seqs, x)
    <3> HIDE DEF seqs
    <3> QED
      BY <1>6, Flattened
  <2> QED
    BY <2>1 DEF PropRests
<1>8. \A j \in 1 .. k : seqs[j] = Property(ps[j], "answered")
  BY <1>3
<1> HIDE DEF seqs, rest
<1>9. /\ rest \in [0 .. k -> Seq(Byte)] /\ rest[0] = FlattenSeq(seqs) /\ rest[k] = <<>>
      /\ \A j \in 1 .. k : rest[j - 1] = seqs[j] \o rest[j]
  <2> HIDE DEF k
  <2> QED
    BY <1>6, <1>7 DEF RestsOf
<1>10. \A j \in 0 .. k : rest[j] \in Bytes
  BY <1>9 DEF Bytes
<1> QED
  BY <1>2, <1>8, <1>9, <1>10 DEF ps, seqs, rest, k

\* What is left behind the objects of a reply.
LEMMA ReplyRests ==
  \A objects \in AppReplies :
    /\ Len(objects) \in Nat /\ \A i \in 1 .. Len(objects) : objects[i] \in AppObjects
    /\ \A i \in 0 .. Len(objects) : ObjectRests(objects)[i] \in Bytes
    /\ ObjectRests(objects)[Len(objects)] = <<>>
    /\ \A i \in 1 .. Len(objects) :
         ObjectRests(objects)[i - 1] = ObjectBytes(objects[i]) \o ObjectRests(objects)[i]
    /\ ReadMultiplePropertyAck(1, objects) =
         Ack(ServiceReadPropMultiple, 1) \o ObjectRests(objects)[0]
<1> SUFFICES ASSUME NEW objects \in AppReplies
             PROVE  /\ Len(objects) \in Nat /\ \A i \in 1 .. Len(objects) : objects[i] \in AppObjects
                    /\ \A i \in 0 .. Len(objects) : ObjectRests(objects)[i] \in Bytes
                    /\ ObjectRests(objects)[Len(objects)] = <<>>
                    /\ \A i \in 1 .. Len(objects) :
                         ObjectRests(objects)[i - 1] = ObjectBytes(objects[i]) \o ObjectRests(objects)[i]
                    /\ ReadMultiplePropertyAck(1, objects) =
                         Ack(ServiceReadPropMultiple, 1) \o ObjectRests(objects)[0]
  OBVIOUS
<1> DEFINE seqs == ObjectSeq(objects)
           rest == ObjectRests(objects)
           k == Len(objects)
<1>1. objects \in Seq(AppObjects)
  BY DEF AppReplies, AppObjects
<1>2. k \in Nat /\ \A i \in 1 .. k : objects[i] \in AppObjects
  BY <1>1, ElementOfSeq, LenProperties
<1>3. seqs = [i \in 1 .. k |-> ObjectBytes(objects[i])]
  BY DEF ObjectSeq
<1>4. \A o \in AppObjects : ObjectBytes(o) \in Bytes
  <2> SUFFICES ASSUME NEW o \in AppObjects PROVE ObjectBytes(o) \in Bytes
    OBVIOUS
  <2> DEFINE c == ContextObjectId(0, o.type, o.instance)
             f == FlattenSeq(PartSeq(o))
  <2>1. o.type \in 0 .. MaxObject /\ o.instance \in 0 .. MaxInstance
    BY DEF AppObjects
  <2>2. 0 \in Byte /\ <<>> \in Bytes
    BY DEF Byte, Bytes
  <2>3. c \in Bytes
    <3>1. o.type \in Nat /\ o.type <= MaxObject /\ o.instance \in Nat /\ o.instance <= MaxInstance
      BY <2>1, Largest
    <3> QED
      BY <2>2, <3>1, ContextIdRead
  <2>4. f \in Bytes
    <3>1. PropRests(o)[0] = f /\ Len(o.props) \in Nat
      BY PropertyRests
    <3>2. 0 \in 0 .. Len(o.props)
      BY <3>1
    <3> QED
      BY <3>1, <3>2, PropertyRests
  <2>5. ObjectBytes(o) = ((c \o <<30>>) \o f) \o <<31>>
    BY Tags1 DEF ObjectBytes
  <2> HIDE DEF c, f
  <2>6. c \o <<30>> \in Bytes
    BY <2>3, Tags1, AppendIn
  <2>7. (c \o <<30>>) \o f \in Bytes
    BY <2>4, <2>6, AppendIn
  <2>8. ((c \o <<30>>) \o f) \o <<31>> \in Bytes
    BY <2>7, Tags1, AppendIn
  <2> QED
    BY <2>5, <2>8
<1>5. seqs \in Seq(Seq(Byte)) /\ Len(seqs) = k
  <2>1. seqs \in [1 .. k -> Bytes]
    BY <1>2, <1>3, <1>4
  <2> HIDE DEF seqs, k
  <2> QED
    BY <1>2, <2>1 DEF Bytes
<1>6. RestsOf(Byte, seqs, rest)
  <2>1. \E x : RestsOf(Byte, seqs, x)
    <3> HIDE DEF seqs
    <3> QED
      BY <1>5, Flattened
  <2> QED
    BY <2>1 DEF ObjectRests
<1>7. \A i \in 1 .. k : seqs[i] = ObjectBytes(objects[i])
  BY <1>3
<1>8. FlattenSeq(seqs) = Objects(objects, "answered")
  BY DEF ObjectSeq, Objects, ObjectBytes, PartSeq
<1> HIDE DEF seqs, rest
<1>9. /\ rest \in [0 .. k -> Seq(Byte)] /\ rest[0] = FlattenSeq(seqs) /\ rest[k] = <<>>
      /\ \A i \in 1 .. k : rest[i - 1] = seqs[i] \o rest[i]
  <2> HIDE DEF k
  <2> QED
    BY <1>5, <1>6 DEF RestsOf
<1>10. \A i \in 0 .. k : rest[i] \in Bytes
  BY <1>9 DEF Bytes
<1>11. ReadMultiplePropertyAck(1, objects) = Ack(ServiceReadPropMultiple, 1) \o rest[0]
  BY <1>8, <1>9 DEF ReadMultiplePropertyAck
<1> QED
  BY <1>2, <1>7, <1>9, <1>10, <1>11 DEF seqs, rest, k

\* Behind a property comes the next one, or the end of its object.
LEMMA AfterProperty ==
  \A objects \in AppReplies : \A i \in 1 .. Len(objects) :
    /\ \A j \in 0 .. Len(objects[i].props) : After(objects, i, j) \in Bytes
    /\ \A j \in 1 .. Len(objects[i].props) :
         /\ objects[i].props[j] \in AppAnswered
         /\ After(objects, i, j - 1) =
              NumberBytes(objects[i].props[j]) \o BehindNumber(objects[i].props[j], After(objects, i, j))
    /\ After(objects, i, Len(objects[i].props)) = <<31>> \o ObjectRests(objects)[i]
    /\ ObjectRests(objects)[i - 1] =
         ContextObjectId(0, objects[i].type, objects[i].instance) \o (<<30>> \o After(objects, i, 0))
<1> SUFFICES ASSUME NEW objects \in AppReplies, NEW i \in 1 .. Len(objects)
             PROVE  /\ \A j \in 0 .. Len(objects[i].props) : After(objects, i, j) \in Bytes
                    /\ \A j \in 1 .. Len(objects[i].props) :
                         /\ objects[i].props[j] \in AppAnswered
                         /\ After(objects, i, j - 1) =
                              NumberBytes(objects[i].props[j]) \o
                              BehindNumber(objects[i].props[j], After(objects, i, j))
                    /\ After(objects, i, Len(objects[i].props)) = <<31>> \o ObjectRests(objects)[i]
                    /\ ObjectRests(objects)[i - 1] =
                         ContextObjectId(0, objects[i].type, objects[i].instance) \o
                         (<<30>> \o After(objects, i, 0))
  OBVIOUS
<1> DEFINE o == objects[i]
           k == Len(o.props)
           pr == PropRests(o)
           z == ObjectRests(objects)[i]
           e == <<31>> \o z
<1>1. o \in AppObjects /\ z \in Bytes /\ ObjectRests(objects)[i - 1] = ObjectBytes(o) \o z
  <2>1. Len(objects) \in Nat
    BY ReplyRests
  <2>2. i \in 0 .. Len(objects)
    BY <2>1
  <2> QED
    BY <2>2, ReplyRests
<1>2. e \in Bytes
  <2> HIDE DEF z
  <2> QED
    BY <1>1, Tags1, AppendIn
<1>3. /\ k \in Nat /\ \A j \in 1 .. k : o.props[j] \in AppAnswered
      /\ \A j \in 0 .. k : pr[j] \in Bytes
      /\ pr[0] = FlattenSeq(PartSeq(o)) /\ pr[k] = <<>>
      /\ \A j \in 1 .. k : pr[j - 1] = Property(o.props[j], "answered") \o pr[j]
  <2> HIDE DEF o
  <2> QED
    BY <1>1, PropertyRests
<1>4. \A j : After(objects, i, j) = pr[j] \o e
  BY DEF After
<1> HIDE DEF pr, e, z, k
<1>5. \A j \in 0 .. k : After(objects, i, j) \in Bytes
  BY <1>2, <1>3, <1>4, AppendIn
<1>6. ASSUME NEW j \in 1 .. k
      PROVE  After(objects, i, j - 1) = NumberBytes(o.props[j]) \o BehindNumber(o.props[j], After(objects, i, j))
  <2> DEFINE p == o.props[j]
             a == After(objects, i, j)
  <2>1. j \in 0 .. k
    BY <1>3
  <2>2. p \in AppAnswered /\ a \in Bytes /\ pr[j] \in Bytes
    BY <1>3, <1>5, <2>1
  <2>3. After(objects, i, j - 1) = (Property(p, "answered") \o pr[j]) \o e
    BY <1>3, <1>4
  <2>4. Property(p, "answered") \in Bytes
    BY <2>2, PropertyParts
  <2>5. (Property(p, "answered") \o pr[j]) \o e = Property(p, "answered") \o (pr[j] \o e)
    <3> DEFINE u == Property(p, "answered")
               w == pr[j]
    <3>1. u \in Bytes /\ w \in Bytes
      BY <2>2, <2>4
    <3> HIDE DEF u, w
    <3>2. (u \o w) \o e = u \o (w \o e)
      BY <1>2, <3>1, Append3
    <3> QED
      BY <3>2 DEF u, w
  <2>6. Property(p, "answered") \o a = NumberBytes(p) \o BehindNumber(p, a)
    <3> HIDE DEF p, a
    <3> QED
      BY <2>2, PropertyParts
  <2>7. pr[j] \o e = a
    BY <1>4
  <2> HIDE DEF p, a
  <2>8. After(objects, i, j - 1) = NumberBytes(p) \o BehindNumber(p, a)
    BY <2>3, <2>5, <2>6, <2>7
  <2> QED
    BY <2>8 DEF p, a
<1>7. After(objects, i, k) = e
  <2>1. <<>> \o e = e
    BY <1>2, ConcatEmptySeq DEF Bytes
  <2> QED
    BY <1>3, <1>4, <2>1
<1>8. ObjectRests(objects)[i - 1] = ContextObjectId(0, o.type, o.instance) \o (<<30>> \o After(objects, i, 0))
  <2> DEFINE c == ContextObjectId(0, o.type, o.instance)
             f == pr[0]
             g == <<30>>
             h == <<31>>
  <2>1. f \in Bytes
    BY <1>3
  <2>2. c \in Bytes
    <3>1. o.type \in 0 .. MaxObject /\ o.instance \in 0 .. MaxInstance
      <4> HIDE DEF o
      <4> QED
        BY <1>1 DEF AppObjects
    <3>2. o.type \in Nat /\ o.type <= MaxObject /\ o.instance \in Nat /\ o.instance <= MaxInstance
      BY <3>1, Largest
    <3>3. 0 \in Byte /\ <<>> \in Bytes
      BY DEF Byte, Bytes
    <3> HIDE DEF o
    <3> QED
      BY <3>2, <3>3, ContextIdRead
  <2>3. ObjectBytes(o) = ((c \o g) \o f) \o h
    BY <1>3, Tags1 DEF ObjectBytes
  <2>4. g \in Bytes /\ h \in Bytes /\ e = h \o z
    BY Tags1 DEF e
  <2> HIDE DEF c, f, g, h
  <2>5. (((c \o g) \o f) \o h) \o z = c \o (g \o (f \o (h \o z)))
    <3>1. c \in Bytes /\ g \in Bytes /\ f \in Bytes /\ h \in Bytes /\ z \in Bytes
      BY <1>1, <2>1, <2>2, <2>4
    <3>2. Grouped(c, g, f, h, z)
      BY <3>1, Regroup
    <3> QED
      BY <3>2 DEF Grouped, FromLeft, FromRight
  <2>6. After(objects, i, 0) = f \o e
    BY <1>4 DEF f
  <2>7. ObjectRests(objects)[i - 1] = ObjectBytes(o) \o z
    BY <1>1 DEF z
  <2>8. ObjectRests(objects)[i - 1] = c \o (g \o After(objects, i, 0))
    BY <2>3, <2>4, <2>5, <2>6, <2>7
  <2> QED
    BY <2>8 DEF c, g
<1> QED
  BY <1>3, <1>5, <1>6, <1>7, <1>8 DEF o, k, e, z

\* The first of a sequence.
Firsts(g, n) == [k \in 1 .. n |-> g[k]]

\* What is read of a property, of an object, and of an object up to a property.
ReadProp(p) == [prop |-> p.prop, index |-> p.index, data |-> <<Received(p.data)>>]
ReadProps(o) == [j \in 1 .. Len(o.props) |-> ReadProp(o.props[j])]
PartObject(o, j) == [type |-> o.type, instance |-> o.instance, props |-> Firsts(ReadProps(o), j)]

\* All fields of the decoder's variables are there.
Fields ==
  {"d", "tag", "meta", "length", "prop", "index", "list", "stamp", "id", "props", "objects"}
Reader(x) == x = [f \in Fields |-> x[f]]

\* The decoder is in an object, behind some of its properties.
InObject(x, objects, i, j) ==
  /\ i \in 1 .. Len(objects) /\ j \in 0 .. Len(objects[i].props)
  /\ x.objects = Firsts(ReceivedObjects(objects), i - 1)
  /\ x.id = <<objects[i].type, objects[i].instance>>
  /\ x.props = Firsts(ReadProps(objects[i]), j)

\* The tag behind a property was read: that of the next one, the one that closes
\* the object, or none.
NextRead(objects, i, j, tail, d, tag, meta, v) ==
  \/ tail # <<>> /\ tag = 0 /\ meta = 0 /\ d.err = TRUE
  \/ /\ j < Len(objects[i].props)
     /\ tag = 2 /\ IsContextSpecific(meta) /\ ~IsClosing(meta)
     /\ v = ValueLength(ToWord(objects[i].props[j + 1].prop))
     /\ Upto(d, tail, Unsigned(ToWord(objects[i].props[j + 1].prop)) \o
                      BehindNumber(objects[i].props[j + 1], After(objects, i, j + 1)))
  \/ /\ j = Len(objects[i].props)
     /\ tag = 1 /\ IsClosing(meta) /\ Upto(d, tail, ObjectRests(objects)[i])

\* What the decoder has read, in each of its loops.
PartOfReply(objects, list) ==
  \E i \in 1 .. Len(objects) : \E j \in 0 .. Len(objects[i].props) :
     list = Append(Firsts(ReceivedObjects(objects), i - 1), PartObject(objects[i], j))
AtObject(x, objects, tail) ==
  \E i \in 0 .. Len(objects) :
     Upto(x.d, tail, ObjectRests(objects)[i]) /\ x.objects = Firsts(ReceivedObjects(objects), i)
LostObject(x, objects, tail) ==
  tail # <<>> /\ (x.d.err = TRUE \/ (x.d = Good(<<>>) /\ PartOfReply(objects, x.objects)))
AtProperty(x, objects, tail) ==
  \E i, j : /\ InObject(x, objects, i, j)
            /\ NextRead(objects, i, j, tail, x.d, x.tag, x.meta, x.length)
InValue(x, objects, tail, i, j) ==
  LET p == objects[i].props[j]
  IN  /\ j \in 1 .. Len(objects[i].props) /\ InObject(x, objects, i, j - 1)
      /\ x.prop = p.prop /\ x.index = p.index /\ x.list = <<>>
      /\ x.tag = TagOf(p.data)
      /\ x.meta = 16 * TagOf(p.data) + TagLow(FALSE, SizeOf(p.data))
      /\ Upto(x.d, tail, Extended(SizeOf(p.data)) \o (DataOf(p.data) \o
                         (<<79>> \o After(objects, i, j))))
AtValue(x, objects, tail) == \E i, j : InValue(x, objects, tail, i, j)
ReadState(objects, tail, at, x) ==
  /\ Reader(x)
  /\ \/ at = "object" /\ (AtObject(x, objects, tail) \/ LostObject(x, objects, tail))
     \/ at = "property" /\ AtProperty(x, objects, tail)
     \/ at = "value" /\ (AtValue(x, objects, tail) \/ Lost(x, tail))

\* What the decoder returns.
Result(objects, tail, y) ==
  \/ tail # <<>> /\ y.err = TRUE
  \/ y.err = FALSE /\ tail # <<>> /\ PartOfReply(objects, y.objects)
  \/ y.err = FALSE /\ \E i \in 0 .. Len(objects) :
        y.objects = Firsts(ReceivedObjects(objects), i) /\ (tail = <<>> => i = Len(objects))

\* A round of the decoder ends in one of these states, or with such a result.
RoundOk(objects, tail, x) ==
  IF x.place = None THEN Result(objects, tail, x.out) ELSE ReadState(objects, tail, x.place, x.r)

\* A reader that goes on holds what it read.
LEMMA GiveOk ==
  \A objects, tail, x : \A at \in {"object", "property", "value"} :
    ReadState(objects, tail, at, x) => RoundOk(objects, tail, Give(at, x))
<1> SUFFICES ASSUME NEW objects, NEW tail, NEW x, NEW at \in {"object", "property", "value"},
                    ReadState(objects, tail, at, x)
             PROVE  RoundOk(objects, tail, Give(at, x))
  OBVIOUS
<1> DEFINE g == Give(at, x)
<1>1. g = [place |-> at, r |-> x, out |-> None]
  BY DEF Give
<1> HIDE DEF g
<1>2. g.place = at /\ g.r = x /\ at # None
  BY <1>1 DEF None
<1> QED
  BY <1>2 DEF RoundOk, g

\* A reader that ends holds what it read.
LEMMA LeaveOk ==
  \A objects, tail, y : Result(objects, tail, y) => RoundOk(objects, tail, Leave(y))
<1> SUFFICES ASSUME NEW objects, NEW tail, NEW y, Result(objects, tail, y)
             PROVE  RoundOk(objects, tail, Leave(y))
  OBVIOUS
<1> DEFINE g == Leave(y)
<1>1. g = [place |-> None, r |-> NoReader, out |-> y]
  BY DEF Leave
<1> HIDE DEF g
<1>2. g.place = None /\ g.out = y
  BY <1>1
<1> QED
  BY <1>2 DEF RoundOk, g

\* A reader may refuse what was cut.
LEMMA RefuseOk == \A objects, tail : tail # <<>> => RoundOk(objects, tail, Refuse)
<1> SUFFICES ASSUME NEW objects, NEW tail, tail # <<>> PROVE RoundOk(objects, tail, Refuse)
  OBVIOUS
<1> DEFINE y == [err |-> TRUE]
<1>1. y.err = TRUE
  OBVIOUS
<1>2. Refuse = Leave(y)
  BY DEF Refuse
<1> HIDE DEF y
<1>3. Result(objects, tail, y)
  BY <1>1 DEF Result
<1> QED
  BY <1>2, <1>3, LeaveOk

\* One more of a sequence, and all of it.
LEMMA FirstsNext ==
  \A g : \A n \in Nat : Append(Firsts(g, n), g[n + 1]) = Firsts(g, n + 1)
<1> SUFFICES ASSUME NEW g, NEW n \in Nat
             PROVE  Append(Firsts(g, n), g[n + 1]) = Firsts(g, n + 1)
  OBVIOUS
<1> DEFINE S == {g[k] : k \in 1 .. n + 1}
           a == Firsts(g, n)
           e == g[n + 1]
           b == Firsts(g, n + 1)
<1>1. e \in S
  OBVIOUS
<1>2. a \in Seq(S) /\ Len(a) = n
  <2>1. a \in [1 .. n -> S]
    BY DEF Firsts
  <2> HIDE DEF a, S
  <2> QED
    BY <2>1
<1>3. \A k \in 1 .. n : a[k] = g[k]
  BY DEF Firsts
<1>4. b = [k \in 1 .. n + 1 |-> g[k]]
  BY DEF Firsts
<1> HIDE DEF a, S, e
<1>5. Append(a, e) \in Seq(S) /\ Len(Append(a, e)) = n + 1
      /\ \A k \in 1 .. n + 1 : Append(a, e)[k] = IF k = n + 1 THEN e ELSE a[k]
  BY <1>1, <1>2, AppendProperties
<1>6. Append(a, e) \in [1 .. n + 1 -> S]
  <2> DEFINE c == Append(a, e)
  <2>1. c \in Seq(S) /\ Len(c) = n + 1
    BY <1>5
  <2> HIDE DEF c
  <2>2. c \in [1 .. Len(c) -> S]
    BY <2>1
  <2>3. c \in [1 .. n + 1 -> S]
    BY <2>1, <2>2
  <2> QED
    BY <2>3 DEF c
<1>7. \A k \in 1 .. n + 1 : Append(a, e)[k] = g[k]
  <2> SUFFICES ASSUME NEW k \in 1 .. n + 1 PROVE Append(a, e)[k] = g[k]
    OBVIOUS
  <2>1. k # n + 1 => k \in 1 .. n
    OBVIOUS
  <2> QED
    BY <1>3, <1>5, <2>1 DEF e
<1> HIDE DEF b
<1>8. Append(a, e) = b
  BY <1>4, <1>6, <1>7
<1> QED
  BY <1>8 DEF a, b, e

\* The objects as they are read.
LEMMA ObjectsRead ==
  \A objects \in AppReplies :
    /\ ReceivedObjects(objects) =
         [i \in 1 .. Len(objects) |-> PartObject(objects[i], Len(objects[i].props))]
    /\ Len(objects) \in Nat
    /\ \A i \in 1 .. Len(objects) : objects[i] \in AppObjects /\ Len(objects[i].props) \in Nat
<1> SUFFICES ASSUME NEW objects \in AppReplies
             PROVE  /\ ReceivedObjects(objects) =
                         [i \in 1 .. Len(objects) |-> PartObject(objects[i], Len(objects[i].props))]
                    /\ Len(objects) \in Nat
                    /\ \A i \in 1 .. Len(objects) :
                         objects[i] \in AppObjects /\ Len(objects[i].props) \in Nat
  OBVIOUS
<1>1. Len(objects) \in Nat /\ \A i \in 1 .. Len(objects) : objects[i] \in AppObjects
  BY ReplyRests
<1>2. \A i \in 1 .. Len(objects) : Len(objects[i].props) \in Nat
  BY <1>1, PropertyRests
<1>3. ASSUME NEW o \in AppObjects
      PROVE  [o EXCEPT !.props =
                [j \in 1 .. Len(@) |-> [prop |-> @[j].prop, index |-> @[j].index,
                                        data |-> IF "values" \in DOMAIN @[j] THEN @[j].values
                                                 ELSE <<Received(@[j].data)>>]]]
             = PartObject(o, Len(o.props))
  <2> DEFINE ps == o.props
             k == Len(ps)
             q == [j \in 1 .. k |-> [prop |-> ps[j].prop, index |-> ps[j].index,
                                     data |-> IF "values" \in DOMAIN ps[j] THEN ps[j].values
                                              ELSE <<Received(ps[j].data)>>]]
  <2>1. \A j \in 1 .. k : ps[j] \in AppAnswered
    BY PropertyRests
  <2>2. \A j \in 1 .. k : ~("values" \in DOMAIN ps[j])
    <3> SUFFICES ASSUME NEW j \in 1 .. k PROVE ~("values" \in DOMAIN ps[j])
      OBVIOUS
    <3>1. DOMAIN ps[j] = {"prop", "index", "data"}
      BY <2>1 DEF AppAnswered
    <3> QED
      BY <3>1
  <2>3. q = ReadProps(o)
    <3>1. \A j \in 1 .. k :
            [prop |-> ps[j].prop, index |-> ps[j].index,
             data |-> IF "values" \in DOMAIN ps[j] THEN ps[j].values
                      ELSE <<Received(ps[j].data)>>] = ReadProp(ps[j])
      BY <2>2 DEF ReadProp
    <3>2. ReadProps(o) = [j \in 1 .. k |-> ReadProp(ps[j])]
      BY DEF ReadProps
    <3> HIDE DEF ps, k
    <3> QED
      BY <3>1, <3>2
  <2>4. ReadProps(o) = Firsts(ReadProps(o), k)
    BY DEF ReadProps, Firsts
  <2>5. o = [type |-> o.type, instance |-> o.instance, props |-> ps]
    BY DEF AppObjects
  <2> HIDE DEF q, k
  <2>6. [o EXCEPT !.props = q] = [type |-> o.type, instance |-> o.instance, props |-> q]
    <3> HIDE DEF ps
    <3> QED
      BY <2>5
  <2>7. [o EXCEPT !.props = q] = PartObject(o, k)
    BY <2>3, <2>4, <2>6 DEF PartObject
  <2> QED
    BY <2>7 DEF q, k, ps
<1>4. ReceivedObjects(objects) =
        [i \in 1 .. Len(objects) |-> PartObject(objects[i], Len(objects[i].props))]
  BY <1>1, <1>3 DEF ReceivedObjects
<1> QED
  BY <1>1, <1>2, <1>4

\* A short tag in a context is one byte.
LEMMA ShortTag ==
  \A num \in 0 .. 14, n \in 1 .. 4 : \A v, s \in Bytes :
    /\ (Tag(num, TRUE, n) \o v) \o s = TagByte(8 + n, num) \o (v \o s)
    /\ v \o s \in Bytes
<1> SUFFICES ASSUME NEW num \in 0 .. 14, NEW n \in 1 .. 4, NEW v \in Bytes, NEW s \in Bytes
             PROVE  /\ (Tag(num, TRUE, n) \o v) \o s = TagByte(8 + n, num) \o (v \o s)
                    /\ v \o s \in Bytes
  OBVIOUS
<1> DEFINE b == TagByte(8 + n, num)
<1>1. b \in Bytes
  <2>1. 8 + n \in 0 .. 15 /\ num \in Byte
    BY DEF Byte
  <2> QED
    BY <2>1, TagByteBytes
<1>2. Tag(num, TRUE, n) = b
  <2>1. Extended(n) = <<>> /\ TagLow(TRUE, n) = 8 + n
    BY DEF Extended, TagLow
  <2>2. Tag(num, TRUE, n) = b \o <<>>
    BY <2>1 DEF Tag
  <2> HIDE DEF b
  <2> QED
    BY <1>1, <2>2, EmptySeq, ConcatEmptySeq DEF Bytes
<1> HIDE DEF b
<1>3. v \in Bytes /\ s \in Bytes
  OBVIOUS
<1>4. (b \o v) \o s = b \o (v \o s) /\ v \o s \in Bytes
  BY <1>1, <1>3, Append3, AppendIn
<1> QED
  BY <1>2, <1>4 DEF b

\* The tag byte of an object identifier stands before its four bytes.
LEMMA IdTag ==
  \A v, s \in Bytes : (Tag(0, TRUE, 4) \o v) \o s = TagByte(12, 0) \o (v \o s)
<1> SUFFICES ASSUME NEW v \in Bytes, NEW s \in Bytes
             PROVE  (Tag(0, TRUE, 4) \o v) \o s = TagByte(12, 0) \o (v \o s)
  OBVIOUS
<1> DEFINE num == 0
           n == 4
           low == 8 + n
<1>1. num \in 0 .. 14 /\ n \in 1 .. 4 /\ low = 12
  OBVIOUS
<1> HIDE DEF num, n
<1>2. (Tag(num, TRUE, n) \o v) \o s = TagByte(low, num) \o (v \o s)
  BY <1>1, ShortTag
<1> HIDE DEF low
<1>3. (Tag(num, TRUE, n) \o v) \o s = TagByte(12, num) \o (v \o s)
  BY <1>1, <1>2
<1> QED
  BY <1>3 DEF num, n

\* The tags that are opened and closed in a reply.
LEMMA BracketBytes ==
  /\ <<30>> = TagByte(14, 1) /\ <<31>> = TagByte(15, 1)
  /\ <<78>> = TagByte(14, 4) /\ <<79>> = TagByte(15, 4)
BY DEF TagByte

\* What is read behind a property, or at the start of an object.
LEMMA NextTag ==
  \A objects \in AppReplies : \A i \in 1 .. Len(objects) : \A j \in 0 .. Len(objects[i].props) :
  \A d : \A tail \in Bytes :
    Upto(d, tail, After(objects, i, j)) =>
      LET t == TagNumberAndValue(d)
      IN  NextRead(objects, i, j, tail, t.d, t.tag, t.meta, t.v)
<1> SUFFICES ASSUME NEW objects \in AppReplies, NEW i \in 1 .. Len(objects),
                    NEW j \in 0 .. Len(objects[i].props), NEW d, NEW tail \in Bytes,
                    Upto(d, tail, After(objects, i, j))
             PROVE  LET t == TagNumberAndValue(d)
                    IN  NextRead(objects, i, j, tail, t.d, t.tag, t.meta, t.v)
  OBVIOUS
<1> DEFINE t == TagNumberAndValue(d)
           m == Len(objects[i].props)
<1> SUFFICES NextRead(objects, i, j, tail, t.d, t.tag, t.meta, t.v)
  OBVIOUS
<1>0. objects[i] \in AppObjects /\ m \in Nat /\ j \in 0 .. m
  BY ObjectsRead
<1>1. CASE j < m
  <2> DEFINE p == objects[i].props[j + 1]
             w == ToWord(p.prop)
             n == ValueLength(w)
             s == BehindNumber(p, After(objects, i, j + 1))
             low == 8 + n
             u == Unsigned(w) \o s
  <2>1. j + 1 \in 1 .. m /\ j + 1 \in 0 .. m /\ (j + 1) - 1 = j
    <3> HIDE DEF m
    <3> QED
      BY <1>0, <1>1
  <2>2. p \in AppAnswered /\ After(objects, i, j + 1) \in Bytes
        /\ After(objects, i, j) = NumberBytes(p) \o s
    <3> HIDE DEF s
    <3> QED
      BY <2>1, AfterProperty DEF s
  <2>3. s \in Bytes /\ w \in Word
    BY <2>2, PropertyParts, AnsweredParts
  <2>4. n \in 1 .. 4 /\ Unsigned(w) \in Bytes
    <3> HIDE DEF w
    <3> QED
      BY <2>3, UnsignedBytes
  <2>5. NumberBytes(p) = Tag(2, TRUE, n) \o Unsigned(w)
    BY DEF NumberBytes, ContextUnsigned
  <2>6. After(objects, i, j) = TagByte(low, 2) \o u /\ u \in Bytes
    <3>1. 2 \in 0 .. 14
      OBVIOUS
    <3> DEFINE v == Unsigned(w)
    <3>2. v \in Bytes
      BY <2>4
    <3> HIDE DEF s, n, v, p
    <3>3. (Tag(2, TRUE, n) \o v) \o s = TagByte(8 + n, 2) \o (v \o s) /\ v \o s \in Bytes
      BY <2>3, <2>4, <3>1, <3>2, ShortTag
    <3> QED
      BY <2>2, <2>5, <3>3 DEF v
  <2>7. low \in 0 .. 15 /\ 2 \in 0 .. 14 /\ low % 8 = n /\ low % 8 # 5 /\ low % 8 < 5
        /\ 16 * 2 + low = 40 + n
    <3> HIDE DEF n
    <3> QED
      BY <2>4
  <2>8. TagUpto(t, tail, 2, 16 * 2 + low, u) /\ (t.meta # 0 => t.v = IF low % 8 < 5 THEN low % 8 ELSE 0)
    <3> HIDE DEF u, low
    <3> QED
      BY <2>6, <2>7, UptoTagValue
  <2>9. CASE Lost(t, tail)
    BY <2>9 DEF Lost, NextRead
  <2>10. CASE t.tag = 2 /\ t.meta = 16 * 2 + low /\ Upto(t.d, tail, u)
    <3>1. t.meta = 40 + n /\ t.v = n
      <4> HIDE DEF t, low, n
      <4> QED
        BY <2>4, <2>7, <2>8, <2>10
    <3>2. IsContextSpecific(40 + n) /\ ~IsClosing(40 + n)
      <4> HIDE DEF n
      <4> QED
        BY <2>4 DEF IsContextSpecific, IsClosing
    <3>3. t.tag = 2 /\ Upto(t.d, tail, u)
      BY <2>10
    <3>4. IsContextSpecific(t.meta) /\ ~IsClosing(t.meta)
      BY <3>1, <3>2
    <3> HIDE DEF t
    <3> QED
      BY <1>1, <3>1, <3>3, <3>4 DEF NextRead
  <2> QED
    BY <2>8, <2>9, <2>10 DEF TagUpto
<1>2. CASE ~(j < m)
  <2>1. j = m
    <3> HIDE DEF m
    <3> QED
      BY <1>0, <1>2
  <2> DEFINE s == ObjectRests(objects)[i]
  <2>2. After(objects, i, j) = TagByte(15, 1) \o s
    BY <2>1, AfterProperty, BracketBytes
  <2>3. s \in Bytes
    <3>1. i \in 0 .. Len(objects)
      BY ObjectsRead
    <3> QED
      BY <3>1, ReplyRests
  <2>4. TagUpto(t, tail, 1, 16 * 1 + 15, s)
    <3>1. 15 \in 0 .. 15 /\ 1 \in 0 .. 14 /\ 15 % 8 # 5
      OBVIOUS
    <3> HIDE DEF s
    <3> QED
      BY <2>2, <2>3, <3>1, UptoTagValue
  <2>5. CASE Lost(t, tail)
    BY <2>5 DEF Lost, NextRead
  <2>6. CASE t.tag = 1 /\ t.meta = 16 * 1 + 15 /\ Upto(t.d, tail, s)
    <3>1. IsClosing(16 * 1 + 15)
      BY DEF IsClosing
    <3>2. t.tag = 1 /\ Upto(t.d, tail, s) /\ IsClosing(t.meta)
      BY <2>6, <3>1
    <3> HIDE DEF t
    <3> QED
      BY <2>1, <3>2 DEF NextRead
  <2> QED
    BY <2>4, <2>5, <2>6 DEF TagUpto
<1> QED
  BY <1>1, <1>2

\* What a round changes in the decoder's variables and what it leaves: the round
\* that opens an object,
OpenObject(x, d, tag, meta, v, id) ==
  [x EXCEPT !.d = d, !.tag = tag, !.meta = meta, !.length = v, !.id = id, !.props = <<>>]

\* What a reader is once it opened an object.
LEMMA FieldsFirst ==
  \A x, d, tag, meta, v, id : Reader(x) =>
    LET y == OpenObject(x, d, tag, meta, v, id)
    IN  Reader(y) /\ y.d = d /\ y.tag = tag /\ y.meta = meta /\ y.length = v
                 /\ y.id = id /\ y.props = <<>> /\ y.objects = x.objects
<1> SUFFICES ASSUME NEW x, NEW d, NEW tag, NEW meta, NEW v, NEW id, Reader(x)
             PROVE  LET y == OpenObject(x, d, tag, meta, v, id)
                    IN  Reader(y) /\ y.d = d /\ y.tag = tag /\ y.meta = meta /\ y.length = v
                 /\ y.id = id /\ y.props = <<>> /\ y.objects = x.objects
  OBVIOUS
<1> DEFINE y == [x EXCEPT !.d = d, !.tag = tag, !.meta = meta, !.length = v, !.id = id, !.props = <<>>]
<1>1. DOMAIN x = Fields /\ x = [f \in DOMAIN x |-> x[f]]
  BY DEF Reader
<1>2. Reader(y)
  <2>1. y = [f \in DOMAIN y |-> y[f]] /\ DOMAIN y = DOMAIN x
    BY <1>1
  <2> HIDE DEF y
  <2> QED
    BY <1>1, <2>1 DEF Reader
<1>3. y.d = d /\ y.tag = tag /\ y.meta = meta /\ y.length = v
                 /\ y.id = id /\ y.props = <<>> /\ y.objects = x.objects
  BY <1>1 DEF Fields
<1> QED
  BY <1>2, <1>3 DEF OpenObject

\* the round that closes it,
CloseObject(x, objects) ==
  [x EXCEPT !.objects = objects]

\* What a reader is once it closed an object.
LEMMA FieldsObject ==
  \A x, objects : Reader(x) =>
    LET y == CloseObject(x, objects)
    IN  Reader(y) /\ y.d = x.d /\ y.objects = objects
<1> SUFFICES ASSUME NEW x, NEW objects, Reader(x)
             PROVE  LET y == CloseObject(x, objects)
                    IN  Reader(y) /\ y.d = x.d /\ y.objects = objects
  OBVIOUS
<1> DEFINE y == [x EXCEPT !.objects = objects]
<1>1. DOMAIN x = Fields /\ x = [f \in DOMAIN x |-> x[f]]
  BY DEF Reader
<1>2. Reader(y)
  <2>1. y = [f \in DOMAIN y |-> y[f]] /\ DOMAIN y = DOMAIN x
    BY <1>1
  <2> HIDE DEF y
  <2> QED
    BY <1>1, <2>1 DEF Reader
<1>3. y.d = x.d /\ y.objects = objects
  BY <1>1 DEF Fields
<1> QED
  BY <1>2, <1>3 DEF CloseObject

\* the round that opens a value,
OpenValue(x, d, tag, meta, prop, index) ==
  [x EXCEPT !.d = d, !.tag = tag, !.meta = meta, !.prop = prop, !.index = index, !.list = <<>>]

\* What a reader is once it opened a value.
LEMMA FieldsValue ==
  \A x, d, tag, meta, prop, index : Reader(x) =>
    LET y == OpenValue(x, d, tag, meta, prop, index)
    IN  Reader(y) /\ y.d = d /\ y.tag = tag /\ y.meta = meta /\ y.prop = prop /\ y.index = index
                 /\ y.list = <<>> /\ y.id = x.id /\ y.props = x.props /\ y.objects = x.objects
<1> SUFFICES ASSUME NEW x, NEW d, NEW tag, NEW meta, NEW prop, NEW index, Reader(x)
             PROVE  LET y == OpenValue(x, d, tag, meta, prop, index)
                    IN  Reader(y) /\ y.d = d /\ y.tag = tag /\ y.meta = meta /\ y.prop = prop /\ y.index = index
                 /\ y.list = <<>> /\ y.id = x.id /\ y.props = x.props /\ y.objects = x.objects
  OBVIOUS
<1> DEFINE y == [x EXCEPT !.d = d, !.tag = tag, !.meta = meta, !.prop = prop, !.index = index, !.list = <<>>]
<1>1. DOMAIN x = Fields /\ x = [f \in DOMAIN x |-> x[f]]
  BY DEF Reader
<1>2. Reader(y)
  <2>1. y = [f \in DOMAIN y |-> y[f]] /\ DOMAIN y = DOMAIN x
    BY <1>1
  <2> HIDE DEF y
  <2> QED
    BY <1>1, <2>1 DEF Reader
<1>3. y.d = d /\ y.tag = tag /\ y.meta = meta /\ y.prop = prop /\ y.index = index
                 /\ y.list = <<>> /\ y.id = x.id /\ y.props = x.props /\ y.objects = x.objects
  BY <1>1 DEF Fields
<1> QED
  BY <1>2, <1>3 DEF OpenValue

\* the round that closes it,
CloseValue(x, d, tag, meta, v, props) ==
  [x EXCEPT !.d = d, !.tag = tag, !.meta = meta, !.length = v, !.list = <<>>, !.props = props]

\* What a reader is once it closed a value.
LEMMA FieldsProperty ==
  \A x, d, tag, meta, v, props : Reader(x) =>
    LET y == CloseValue(x, d, tag, meta, v, props)
    IN  Reader(y) /\ y.d = d /\ y.tag = tag /\ y.meta = meta /\ y.length = v
                 /\ y.id = x.id /\ y.props = props /\ y.objects = x.objects
<1> SUFFICES ASSUME NEW x, NEW d, NEW tag, NEW meta, NEW v, NEW props, Reader(x)
             PROVE  LET y == CloseValue(x, d, tag, meta, v, props)
                    IN  Reader(y) /\ y.d = d /\ y.tag = tag /\ y.meta = meta /\ y.length = v
                 /\ y.id = x.id /\ y.props = props /\ y.objects = x.objects
  OBVIOUS
<1> DEFINE y == [x EXCEPT !.d = d, !.tag = tag, !.meta = meta, !.length = v, !.list = <<>>, !.props = props]
<1>1. DOMAIN x = Fields /\ x = [f \in DOMAIN x |-> x[f]]
  BY DEF Reader
<1>2. Reader(y)
  <2>1. y = [f \in DOMAIN y |-> y[f]] /\ DOMAIN y = DOMAIN x
    BY <1>1
  <2> HIDE DEF y
  <2> QED
    BY <1>1, <2>1 DEF Reader
<1>3. y.d = d /\ y.tag = tag /\ y.meta = meta /\ y.length = v
                 /\ y.id = x.id /\ y.props = props /\ y.objects = x.objects
  BY <1>1 DEF Fields
<1> QED
  BY <1>2, <1>3 DEF CloseValue

\* and a round inside a value.
NextValue(x, d, tag, meta, list) ==
  [x EXCEPT !.d = d, !.tag = tag, !.meta = meta, !.list = list]

\* What a reader is after a value of a list.
LEMMA FieldsRound ==
  \A x, d, tag, meta, list : Reader(x) =>
    LET y == NextValue(x, d, tag, meta, list)
    IN  Reader(y) /\ y.d = d /\ y.tag = tag /\ y.meta = meta
<1> SUFFICES ASSUME NEW x, NEW d, NEW tag, NEW meta, NEW list, Reader(x)
             PROVE  LET y == NextValue(x, d, tag, meta, list)
                    IN  Reader(y) /\ y.d = d /\ y.tag = tag /\ y.meta = meta
  OBVIOUS
<1> DEFINE y == [x EXCEPT !.d = d, !.tag = tag, !.meta = meta, !.list = list]
<1>1. DOMAIN x = Fields /\ x = [f \in DOMAIN x |-> x[f]]
  BY DEF Reader
<1>2. Reader(y)
  <2>1. y = [f \in DOMAIN y |-> y[f]] /\ DOMAIN y = DOMAIN x
    BY <1>1
  <2> HIDE DEF y
  <2> QED
    BY <1>1, <2>1 DEF Reader
<1>3. y.d = d /\ y.tag = tag /\ y.meta = meta
  BY <1>1 DEF Fields
<1> QED
  BY <1>2, <1>3 DEF NextValue

\* The end of the reply, which is whole or cut right behind an object.
LEMMA EndOk ==
  \A objects \in AppReplies : \A tail \in Bytes : \A i \in 0 .. Len(objects) : \A list :
    Upto(Good(<<>>), tail, ObjectRests(objects)[i]) /\ list = Firsts(ReceivedObjects(objects), i)
    => RoundOk(objects, tail, Leave([objects |-> list, err |-> FALSE]))
<1> SUFFICES ASSUME NEW objects \in AppReplies, NEW tail \in Bytes, NEW i \in 0 .. Len(objects),
                    NEW list, Upto(Good(<<>>), tail, ObjectRests(objects)[i]),
                    list = Firsts(ReceivedObjects(objects), i)
             PROVE  RoundOk(objects, tail, Leave([objects |-> list, err |-> FALSE]))
  OBVIOUS
<1> DEFINE y == [objects |-> list, err |-> FALSE]
<1>1. y.objects = list /\ y.err = FALSE
  OBVIOUS
<1> HIDE DEF y
<1>2. tail = <<>> => i = Len(objects)
  <2> SUFFICES ASSUME tail = <<>>, i # Len(objects) PROVE FALSE
    OBVIOUS
  <2>1. Len(objects) \in Nat
    BY ReplyRests
  <2>2. i + 1 \in 1 .. Len(objects) /\ (i + 1) - 1 = i
    BY <2>1
  <2> DEFINE o == objects[i + 1]
             c == ContextObjectId(0, o.type, o.instance)
             s == <<30>> \o After(objects, i + 1, 0)
  <2>3. ObjectRests(objects)[i] = c \o s
    BY <2>2, AfterProperty
  <2>4. PICK q \in Bytes : Good(<<>>) = Good(q) /\ q \o tail = ObjectRests(objects)[i]
    BY DEF Upto
  <2>5. q = <<>>
    <3>1. Good(<<>>).buf = <<>> /\ Good(q).buf = q
      BY NoError
    <3> QED
      BY <2>4, <3>1
  <2>6. c \o s = <<>>
    <3>1. q \o tail = <<>>
      BY <2>5, EmptySeq, ConcatEmptySeq DEF Bytes
    <3> QED
      BY <2>3, <2>4, <3>1
  <2>7. c \in Bytes /\ Len(c) >= 5 /\ s \in Bytes
    <3>1. o \in AppObjects /\ 0 \in 0 .. Len(o.props)
      BY <2>2, ObjectsRead
    <3>2. o.type \in Nat /\ o.type <= MaxObject /\ o.instance \in Nat /\ o.instance <= MaxInstance
      BY <3>1, Largest DEF AppObjects
    <3>3. 0 \in Byte /\ <<>> \in Bytes
      BY DEF Byte, Bytes
    <3> HIDE DEF o
    <3>4. c \in Bytes /\ Len(c) >= 5
      BY <3>2, <3>3, ContextIdRead
    <3>5. After(objects, i + 1, 0) \in Bytes
      BY <2>2, <3>1, AfterProperty DEF o
    <3>6. s \in Bytes
      BY <3>5, Tags1, AppendIn
    <3> QED
      BY <3>4, <3>6
  <2> HIDE DEF c, s
  <2>8. Len(c \o s) = Len(c) + Len(s) /\ Len(c) \in Nat /\ Len(s) \in Nat
    BY <2>7, LenBytes DEF Bytes
  <2>9. Len(<<>>) = 0
    OBVIOUS
  <2> QED
    BY <2>6, <2>7, <2>8, <2>9
<1>3. Result(objects, tail, y)
  BY <1>1, <1>2 DEF Result
<1> QED
  BY <1>3, LeaveOk DEF y

\* An object that was opened.
LEMMA OpenedOk ==
  \A objects \in AppReplies : \A tail \in Bytes : \A i \in 1 .. Len(objects) :
  \A x, d, tag, meta, v, id :
    /\ Reader(x) /\ x.objects = Firsts(ReceivedObjects(objects), i - 1)
    /\ id = <<objects[i].type, objects[i].instance>>
    /\ NextRead(objects, i, 0, tail, d, tag, meta, v)
    => RoundOk(objects, tail, Give("property", OpenObject(x, d, tag, meta, v, id)))
<1> SUFFICES ASSUME NEW objects \in AppReplies, NEW tail \in Bytes, NEW i \in 1 .. Len(objects),
                    NEW x, NEW d, NEW tag, NEW meta, NEW v, NEW id,
                    Reader(x), x.objects = Firsts(ReceivedObjects(objects), i - 1),
                    id = <<objects[i].type, objects[i].instance>>,
                    NextRead(objects, i, 0, tail, d, tag, meta, v)
             PROVE  RoundOk(objects, tail, Give("property", OpenObject(x, d, tag, meta, v, id)))
  OBVIOUS
<1> DEFINE y == OpenObject(x, d, tag, meta, v, id)
<1>1. /\ Reader(y) /\ y.d = d /\ y.tag = tag /\ y.meta = meta /\ y.length = v
      /\ y.id = id /\ y.props = <<>> /\ y.objects = x.objects
  BY FieldsFirst
<1>2. 0 \in 0 .. Len(objects[i].props)
  BY ObjectsRead
<1>3. Firsts(ReadProps(objects[i]), 0) = <<>>
  BY DEF Firsts
<1> HIDE DEF y
<1>4. InObject(y, objects, i, 0)
  BY <1>1, <1>2, <1>3 DEF InObject
<1>5. NextRead(objects, i, 0, tail, y.d, y.tag, y.meta, y.length)
  BY <1>1
<1>6. AtProperty(y, objects, tail)
  BY <1>4, <1>5 DEF AtProperty
<1>7. ReadState(objects, tail, "property", y)
  BY <1>1, <1>6 DEF ReadState
<1> QED
  BY <1>7, GiveOk DEF y

\* The round that opens an object, or ends the reply.
LEMMA ObjectOk ==
  ASSUME NEW objects \in AppReplies, NEW tail \in Bytes, Reader(r),
         AtObject(r, objects, tail) \/ LostObject(r, objects, tail)
  PROVE  LET t == TagNumberAndValue(r.d)
             id == DecodeObjectId(t.d)
             open == TagNumber(id.d)
             first == TagNumberAndValue(open.d)
         IN  RoundOk(objects, tail, ObjectRound(t, id, open, first))
<1> DEFINE t == TagNumberAndValue(r.d)
           id == DecodeObjectId(t.d)
           open == TagNumber(id.d)
           first == TagNumberAndValue(open.d)
           x == ObjectRound(t, id, open, first)
<1> SUFFICES RoundOk(objects, tail, x)
  OBVIOUS
<1>1. r.d.err = TRUE \/ r.d.buf = <<>> => x = Leave([objects |-> r.objects, err |-> r.d.err])
  BY DEF ObjectRound
<1>2. r.d = Good(<<>>) => r.d.err = FALSE /\ r.d.buf = <<>>
  BY NoError
<1>3. CASE tail # <<>> /\ r.d.err = TRUE
  <2> DEFINE y == [objects |-> r.objects, err |-> r.d.err]
  <2>1. y.err = TRUE
    BY <1>3
  <2>2. x = Leave(y)
    BY <1>1, <1>3
  <2> HIDE DEF y
  <2>3. Result(objects, tail, y)
    BY <1>3, <2>1 DEF Result
  <2> QED
    BY <2>2, <2>3, LeaveOk
<1>4. CASE tail # <<>> /\ r.d = Good(<<>>) /\ PartOfReply(objects, r.objects)
  <2> DEFINE y == [objects |-> r.objects, err |-> r.d.err]
  <2>1. y.err = FALSE /\ y.objects = r.objects
    BY <1>2, <1>4
  <2>2. x = Leave(y)
    BY <1>1, <1>2, <1>4
  <2> HIDE DEF y
  <2>3. Result(objects, tail, y)
    BY <1>4, <2>1 DEF Result
  <2> QED
    BY <2>2, <2>3, LeaveOk
<1>5. CASE AtObject(r, objects, tail)
  <2>1. PICK i \in 0 .. Len(objects) :
          Upto(r.d, tail, ObjectRests(objects)[i]) /\ r.objects = Firsts(ReceivedObjects(objects), i)
    BY <1>5 DEF AtObject
  <2>2. PICK q \in Bytes : r.d = Good(q) /\ q \o tail = ObjectRests(objects)[i]
    BY <2>1 DEF Upto
  <2>3. r.d.err = FALSE /\ r.d.buf = q
    BY <2>2, NoError
  <2>4. Len(objects) \in Nat
    BY ReplyRests
  <2>5. CASE q = <<>>
    <3>1. x = Leave([objects |-> r.objects, err |-> FALSE])
      BY <1>1, <2>3, <2>5
    <3>2. Upto(Good(<<>>), tail, ObjectRests(objects)[i])
      BY <2>1, <2>2, <2>5
    <3> QED
      BY <2>1, <3>1, <3>2, EndOk
  <2>6. CASE q # <<>>
    <3>1. i # Len(objects)
      <4> SUFFICES ASSUME i = Len(objects) PROVE FALSE
        OBVIOUS
      <4>1. q \o tail = <<>>
        BY <2>2, ReplyRests
      <4>2. Len(q \o tail) = Len(q) + Len(tail) /\ Len(q) \in Nat /\ Len(tail) \in Nat
        BY LenBytes DEF Bytes
      <4>3. Len(<<>>) = 0 /\ Len(q) # 0
        BY <2>6 DEF Bytes
      <4> QED
        BY <4>1, <4>2, <4>3
    <3>2. i + 1 \in 1 .. Len(objects) /\ (i + 1) - 1 = i
      BY <2>4, <3>1
    <3> DEFINE o == objects[i + 1]
               a == After(objects, i + 1, 0)
               b == <<30>> \o a
               c == ObjectId(o.type, o.instance) \o b
    <3>3. /\ o.type \in 0 .. MaxObject /\ o.instance \in 0 .. MaxInstance
          /\ a \in Bytes /\ b \in Bytes /\ c \in Bytes /\ 0 \in 0 .. Len(o.props)
      <4>1. o \in AppObjects /\ 0 \in 0 .. Len(o.props)
        BY <3>2, ObjectsRead
      <4>2. o.type \in 0 .. MaxObject /\ o.instance \in 0 .. MaxInstance
        BY <4>1 DEF AppObjects
      <4>3. a \in Bytes
        BY <3>2, <4>1, AfterProperty
      <4>4. b \in Bytes
        BY <4>3, Tags1, AppendIn
      <4>5. ObjectId(o.type, o.instance) \in Bytes
        <5>1. o.type \in Nat /\ o.type <= MaxObject /\ o.instance \in Nat /\ o.instance <= MaxInstance
          BY <4>2, Largest
        <5>2. <<>> \in Bytes
          BY DEF Bytes
        <5> HIDE DEF o
        <5> QED
          BY <5>1, <5>2, ObjectIdRead
      <4>6. c \in Bytes
        <5> HIDE DEF b
        <5> QED
          BY <4>4, <4>5, AppendIn
      <4> QED
        BY <4>1, <4>2, <4>3, <4>4, <4>6
    <3>4. ObjectRests(objects)[i] = TagByte(12, 0) \o c
      <4>1. ObjectRests(objects)[i] = ContextObjectId(0, o.type, o.instance) \o b
        BY <3>2, AfterProperty
      <4>2. ContextObjectId(0, o.type, o.instance) = Tag(0, TRUE, 4) \o ObjectId(o.type, o.instance)
        BY DEF ContextObjectId
      <4> DEFINE v == ObjectId(o.type, o.instance)
      <4>3. v \in Bytes /\ b \in Bytes
        <5>1. o.type \in Nat /\ o.type <= MaxObject /\ o.instance \in Nat /\ o.instance <= MaxInstance
          BY <3>3, Largest
        <5>2. <<>> \in Bytes
          BY DEF Bytes
        <5>3. b \in Bytes
          BY <3>3
        <5> HIDE DEF o, b
        <5> QED
          BY <5>1, <5>2, <5>3, ObjectIdRead
      <4> HIDE DEF b, v, o
      <4>4. (Tag(0, TRUE, 4) \o v) \o b = TagByte(12, 0) \o (v \o b)
        BY <4>3, IdTag
      <4> QED
        BY <4>1, <4>2, <4>4 DEF v
    <3>5. /\ TagUpto(t, tail, 0, 12, c)
      <4>1. 12 \in 0 .. 15 /\ 0 \in 0 .. 14 /\ 12 % 8 # 5 /\ 16 * 0 + 12 = 12
        OBVIOUS
      <4>2. Upto(r.d, tail, TagByte(12, 0) \o c)
        BY <2>1, <3>4
      <4> HIDE DEF c
      <4> QED
        BY <3>3, <4>1, <4>2, UptoTagValue
    <3>6. r.d.err = FALSE /\ r.d.buf # <<>>
      BY <2>3, <2>6
    <3>7. /\ t.tag # 0 \/ ~IsContextSpecific(t.meta) => x = Refuse
          /\ open.tag # 1 \/ ~IsOpening(open.meta) => x = Refuse
          /\ ~(first.tag = 1 /\ IsClosing(first.meta)) /\ first.tag # 2 => x = Refuse
          /\ /\ t.tag = 0 /\ IsContextSpecific(t.meta) /\ open.tag = 1 /\ IsOpening(open.meta)
             /\ (first.tag = 1 /\ IsClosing(first.meta)) \/ first.tag = 2
             => x = Give("property", OpenObject(r, first.d, first.tag, first.meta, first.v,
                                                <<id.type, id.instance>>))
      <4> HIDE DEF t, id, open, first
      <4> QED
        BY <3>6 DEF ObjectRound, OpenObject
    <3>8. tail # <<>> => RoundOk(objects, tail, Refuse)
      BY RefuseOk
    <3> HIDE DEF x, c
    <3>9. CASE Lost(t, tail)
      <4>1. ~IsContextSpecific(0)
        BY DEF IsContextSpecific
      <4> QED
        BY <3>7, <3>8, <3>9, <4>1 DEF Lost
    <3>10. CASE t.tag = 0 /\ t.meta = 12 /\ Upto(t.d, tail, c)
      <4>1. IsContextSpecific(t.meta)
        BY <3>10 DEF IsContextSpecific
      <4>2. IdUpto(id, tail, o.type, o.instance, b)
        <5> HIDE DEF t, o, b
        <5> QED
          BY <3>3, <3>10, UptoId DEF c
      <4> HIDE DEF t
      <4>3. CASE tail # <<>> /\ id.d.err = TRUE
        <5>1. open = [d |-> id.d, tag |-> 0, meta |-> 0]
          BY <4>3, StuckTag
        <5> HIDE DEF open
        <5>2. open.tag # 1
          BY <5>1
        <5> QED
          BY <3>7, <3>8, <4>3, <5>2
      <4>4. CASE id.type = o.type /\ id.instance = o.instance /\ Upto(id.d, tail, b)
        <5>1. TagUpto(open, tail, 1, 30, a)
          <6>1. 14 \in 0 .. 15 /\ 1 \in 0 .. 14 /\ 16 * 1 + 14 = 30
            OBVIOUS
          <6>2. Upto(id.d, tail, TagByte(14, 1) \o a)
            BY <4>4, BracketBytes
          <6> HIDE DEF a, id
          <6> QED
            BY <3>3, <6>1, <6>2, UptoTag
        <5> HIDE DEF id
        <5>2. CASE Lost(open, tail)
          BY <3>7, <3>8, <5>2 DEF Lost
        <5>3. CASE open.tag = 1 /\ open.meta = 30 /\ Upto(open.d, tail, a)
          <6>1. IsOpening(open.meta)
            BY <5>3 DEF IsOpening
          <6>2. NextRead(objects, i + 1, 0, tail, first.d, first.tag, first.meta, first.v)
            <7> HIDE DEF open
            <7> QED
              BY <3>2, <3>3, <5>3, NextTag
          <6> DEFINE y == OpenObject(r, first.d, first.tag, first.meta, first.v,
                                     <<o.type, o.instance>>)
          <6> HIDE DEF open, first
          <6>3. RoundOk(objects, tail, Give("property", y))
            BY <2>1, <3>2, <6>2, OpenedOk
          <6>4. x = Refuse \/ x = Give("property", y)
            BY <3>7, <3>10, <4>1, <4>4, <5>3, <6>1
          <6>5. x = Refuse /\ x # Give("property", y) => tail # <<>>
            <7>1. CASE tail # <<>>
              BY <7>1
            <7>2. CASE (first.tag = 1 /\ IsClosing(first.meta)) \/ first.tag = 2
              BY <3>7, <3>10, <4>1, <4>4, <5>3, <6>1, <7>2
            <7> QED
              BY <6>2, <7>1, <7>2 DEF NextRead
          <6> HIDE DEF y
          <6> QED
            BY <3>8, <6>3, <6>4, <6>5
        <5> QED
          BY <5>1, <5>2, <5>3 DEF TagUpto
      <4> QED
        BY <4>2, <4>3, <4>4 DEF IdUpto
    <3> QED
      BY <3>5, <3>9, <3>10 DEF TagUpto
  <2> QED
    BY <2>5, <2>6
<1> QED
  BY <1>3, <1>4, <1>5 DEF LostObject

\* The round that closes an object, whether or not its closing tag was there.
LEMMA CloseOk ==
  ASSUME NEW objects \in AppReplies, NEW tail \in Bytes, Reader(r), AtProperty(r, objects, tail),
         ~InProperties
  PROVE  RoundOk(objects, tail,
           Give("object", [r EXCEPT !.objects =
             Append(@, [type |-> r.id[1], instance |-> r.id[2], props |-> r.props])]))
<1> DEFINE o == [type |-> r.id[1], instance |-> r.id[2], props |-> r.props]
           list == Append(r.objects, o)
           y == CloseObject(r, list)
<1> SUFFICES RoundOk(objects, tail, Give("object", y))
  BY DEF CloseObject
<1>1. Reader(y) /\ y.d = r.d /\ y.objects = list
  BY FieldsObject
<1>2. PICK i, j : InObject(r, objects, i, j)
                  /\ NextRead(objects, i, j, tail, r.d, r.tag, r.meta, r.length)
  BY DEF AtProperty
<1>3. /\ i \in 1 .. Len(objects) /\ j \in 0 .. Len(objects[i].props)
      /\ r.objects = Firsts(ReceivedObjects(objects), i - 1)
      /\ o = PartObject(objects[i], j)
  <2>1. r.id[1] = objects[i].type /\ r.id[2] = objects[i].instance
    BY <1>2 DEF InObject
  <2> QED
    BY <1>2, <2>1 DEF InObject, PartObject
<1> HIDE DEF y, o
<1>5. PartOfReply(objects, list)
  BY <1>3 DEF PartOfReply
<1> HIDE DEF list
<1>6. AtObject(y, objects, tail) \/ LostObject(y, objects, tail)
  <2>1. CASE tail # <<>> /\ r.d.err = TRUE
    BY <1>1, <2>1 DEF LostObject
  <2>2. CASE /\ j < Len(objects[i].props)
             /\ r.tag = 2 /\ ~IsClosing(r.meta)
             /\ Upto(r.d, tail, Unsigned(ToWord(objects[i].props[j + 1].prop)) \o
                                BehindNumber(objects[i].props[j + 1], After(objects, i, j + 1)))
    <3> DEFINE p == objects[i].props[j + 1]
               w == ToWord(p.prop)
               b == Unsigned(w)
               s == BehindNumber(p, After(objects, i, j + 1))
    <3>1. r.d.buf = <<>>
      BY <2>2 DEF InProperties
    <3>2. PICK q \in Bytes : r.d = Good(q) /\ q \o tail = b \o s
      BY <2>2 DEF Upto
    <3>3. q = <<>>
      BY <3>1, <3>2, NoError
    <3>4. tail # <<>>
      <4> SUFFICES ASSUME tail = <<>> PROVE FALSE
        OBVIOUS
      <4>1. j + 1 \in 1 .. Len(objects[i].props) /\ j + 1 \in 0 .. Len(objects[i].props)
        BY <1>3, <2>2, ObjectsRead
      <4>2. p \in AppAnswered /\ After(objects, i, j + 1) \in Bytes
        BY <1>3, <4>1, AfterProperty
      <4>3. w \in Word /\ s \in Bytes
        BY <4>2, AnsweredParts, PropertyParts
      <4>4. b \in Bytes /\ Len(b) >= 1
        <5> HIDE DEF w
        <5> QED
          BY <4>3, UnsignedBytes
      <4>5. b \o s = <<>>
        BY <3>2, <3>3, EmptySeq, ConcatEmptySeq DEF Bytes
      <4> HIDE DEF b, s
      <4>6. Len(b \o s) = Len(b) + Len(s) /\ Len(b) \in Nat /\ Len(s) \in Nat
        BY <4>3, <4>4, LenBytes DEF Bytes
      <4>7. Len(<<>>) = 0
        OBVIOUS
      <4> QED
        BY <4>4, <4>5, <4>6, <4>7
    <3>5. r.d = Good(<<>>)
      BY <3>2, <3>3
    <3> QED
      BY <1>1, <1>5, <3>4, <3>5 DEF LostObject
  <2>3. CASE j = Len(objects[i].props) /\ Upto(r.d, tail, ObjectRests(objects)[i])
    <3> DEFINE g == ReceivedObjects(objects)
    <3>1. g[i] = o
      BY <1>3, <2>3, ObjectsRead
    <3>2. i - 1 \in Nat /\ (i - 1) + 1 = i /\ i \in 0 .. Len(objects)
      BY <1>3, ObjectsRead
    <3> HIDE DEF g
    <3>3. list = Append(Firsts(g, i - 1), g[(i - 1) + 1])
      BY <1>3, <3>1, <3>2 DEF list, g
    <3>4. list = Firsts(g, i)
      BY <3>2, <3>3, FirstsNext
    <3> QED
      BY <1>1, <2>3, <3>2, <3>4 DEF AtObject, g
  <2> QED
    BY <1>2, <2>1, <2>2, <2>3 DEF NextRead
<1>7. ReadState(objects, tail, "object", y)
  BY <1>1, <1>6 DEF ReadState
<1> QED
  BY <1>7, GiveOk

\* The value of a property whose number and place were read.
ValueOpened(objects, tail, x, first, p) ==
  \/ tail # <<>> /\ first.d.err = TRUE
  \/ /\ first.d.err = FALSE
     /\ RoundOk(objects, tail, Give("value", OpenValue(x, first.d, first.tag, first.meta, p.prop, p.index)))

\* After the tag that opens a value the value itself is read.
LEMMA OpenedValueOk ==
  \A objects \in AppReplies : \A tail \in Bytes : \A i \in 1 .. Len(objects) :
  \A j \in 1 .. Len(objects[i].props) : \A x, next :
    /\ Reader(x) /\ InObject(x, objects, i, j - 1)
    /\ Upto(next, tail, AppData(objects[i].props[j].data, FALSE) \o (<<79>> \o After(objects, i, j)))
    => ValueOpened(objects, tail, x, TagNumber(next), objects[i].props[j])
<1> TAKE objects \in AppReplies
<1> TAKE tail \in Bytes
<1> TAKE i \in 1 .. Len(objects)
<1> TAKE j \in 1 .. Len(objects[i].props)
<1> TAKE x, next
<1> HAVE /\ Reader(x) /\ InObject(x, objects, i, j - 1)
         /\ Upto(next, tail, AppData(objects[i].props[j].data, FALSE) \o
                             (<<79>> \o After(objects, i, j)))
<1> DEFINE p == objects[i].props[j]
           first == TagNumber(next)
           y == OpenValue(x, first.d, first.tag, first.meta, p.prop, p.index)
           z == p.data
           num == TagOf(z)
           n == SizeOf(z)
           low == TagLow(FALSE, n)
           s == <<79>> \o After(objects, i, j)
           u == Extended(n) \o (DataOf(z) \o s)
<1> SUFFICES \/ tail # <<>> /\ first.d.err = TRUE
             \/ first.d.err = FALSE /\ RoundOk(objects, tail, Give("value", y))
  BY DEF ValueOpened
<1>1. p \in AppAnswered /\ s \in Bytes
  <2>1. j \in 0 .. Len(objects[i].props)
    BY ObjectsRead
  <2>2. After(objects, i, j) \in Bytes
    BY <2>1, AfterProperty
  <2> QED
    BY <2>2, AfterProperty, Tags1, AppendIn
<1>2. z \in AppValues
  BY <1>1, AnsweredParts
<1>3. /\ num \in 0 .. 14 /\ num \in Byte /\ n \in Nat /\ n < LongLength /\ DataOf(z) \in Bytes
      /\ AppData(z, FALSE) = Tag(num, FALSE, n) \o DataOf(z)
  <2>1. Parts(z, s)
    <3> HIDE DEF s
    <3> QED
      BY <1>1, <1>2, ValueParts
  <2>2. \A k \in 0 .. 12 : k \in 0 .. 14
    OBVIOUS
  <2> QED
    BY <2>1, <2>2 DEF Parts
<1>4. low \in 0 .. 15 /\ low % 8 = IF n <= 4 THEN n ELSE 5
  <2>1. n \in Nat
    BY <1>3
  <2> HIDE DEF n
  <2> QED
    BY <2>1 DEF TagLow
<1>5. AppData(z, FALSE) \o s = TagByte(low, num) \o u /\ u \in Bytes
  <2> DEFINE b == TagByte(low, num)
             e == Extended(n)
             v == DataOf(z)
  <2>1. b \in Bytes
    <3> HIDE DEF low, num
    <3> QED
      BY <1>3, <1>4, TagByteBytes
  <2>2. e \in Bytes
    <3> HIDE DEF low, num, n, s
    <3> QED
      BY <1>1, <1>3, <1>4, ExtendedRead
  <2>3. AppData(z, FALSE) = (b \o e) \o v
    BY <1>3 DEF Tag
  <2> HIDE DEF b, e, s, v
  <2>4. b \o e \in Bytes /\ v \in Bytes /\ s \in Bytes
    <3>1. v \in Bytes
      BY <1>3 DEF v
    <3> QED
      BY <1>1, <2>1, <2>2, <3>1, AppendIn
  <2>5. v \o s \in Bytes
    BY <2>4, AppendIn
  <2> DEFINE m == b \o e
             k == v \o s
  <2>6. (m \o v) \o s = m \o (v \o s)
    <3>1. m \in Bytes
      BY <2>4
    <3> HIDE DEF m
    <3> QED
      BY <2>4, <3>1, Append3
  <2>7. (b \o e) \o k = b \o (e \o k) /\ e \o k \in Bytes
    <3>1. k \in Bytes
      BY <2>5
    <3> HIDE DEF k
    <3> QED
      BY <2>1, <2>2, <3>1, Append3, AppendIn
  <2> QED
    BY <2>3, <2>6, <2>7 DEF v, b, e
<1>6. TagUpto(first, tail, num, 16 * num + low, u)
  <2>1. Upto(next, tail, TagByte(low, num) \o u)
    BY <1>5
  <2> HIDE DEF low, num, u
  <2> QED
    BY <1>3, <1>4, <1>5, <2>1, UptoTag
<1>7. CASE Lost(first, tail)
  BY <1>7 DEF Lost
<1>8. CASE first.tag = num /\ first.meta = 16 * num + low /\ Upto(first.d, tail, u)
  <2>1. /\ Reader(y) /\ y.d = first.d /\ y.tag = first.tag /\ y.meta = first.meta /\ y.prop = p.prop
        /\ y.index = p.index /\ y.list = <<>> /\ y.id = x.id /\ y.props = x.props
        /\ y.objects = x.objects
    <3> HIDE DEF first, p
    <3> QED
      BY FieldsValue
  <2> HIDE DEF y, first
  <2>2. InObject(y, objects, i, j - 1)
    BY <2>1 DEF InObject
  <2>3. y.tag = TagOf(p.data) /\ y.meta = 16 * TagOf(p.data) + TagLow(FALSE, SizeOf(p.data))
    BY <1>8, <2>1
  <2>4. Upto(y.d, tail, u)
    BY <1>8, <2>1
  <2>5. InValue(y, objects, tail, i, j)
    BY <2>1, <2>2, <2>3, <2>4 DEF InValue
  <2>6. ReadState(objects, tail, "value", y)
    BY <2>1, <2>5 DEF ReadState, AtValue
  <2>7. first.d.err = FALSE
    BY <1>8, NoError DEF Upto
  <2> QED
    BY <2>6, <2>7, GiveOk
<1> QED
  BY <1>6, <1>7, <1>8 DEF TagUpto

\* The round of a property, by the tag behind its number, and that behind its
\* place in an array.
LEMMA PropertyRounds ==
  ASSUME NEW next, NEW index, IsContextSpecific(r.meta),
         LET prop == DecodeUnsigned(r.d, r.length)
             t == TagNumber(prop.d)
             idx == UnsignedOf(ValueOf(t))
         IN  \/ t.tag # 2 /\ t.tag # 3 /\ next = t /\ index = ArrayAll
             \/ t.tag = 3 /\ IsContextSpecific(t.meta) /\ next = TagNumber(idx.d) /\ index = idx.v
  PROVE  LET prop == DecodeUnsigned(r.d, r.length)
             first == TagNumber(next.d)
         IN  /\ next.tag = 0 => PropertyRound = Refuse
             /\ next.tag = 4 /\ IsOpening(next.meta) =>
                  /\ first.d.err = TRUE => PropertyRound = Refuse
                  /\ first.d.err = FALSE => PropertyRound =
                       Give("value", OpenValue(r, first.d, first.tag, first.meta,
                                               Natural(prop.v), index))
<1> DEFINE prop == DecodeUnsigned(r.d, r.length)
           t == TagNumber(prop.d)
           idx == UnsignedOf(ValueOf(t))
           first == TagNumber(next.d)
           next0 == IF t.tag = 3 THEN TagNumber(idx.d) ELSE t
           index0 == IF t.tag = 3 THEN idx.v ELSE ArrayAll
           first0 == TagNumber(next0.d)
           error == DecodeBacError(next0.d)
           p == Natural(prop.v)
           again == Give("property", [r EXCEPT !.d = t.d, !.meta = t.meta])
           value == Give("value", [r EXCEPT !.d = first0.d, !.tag = first0.tag, !.meta = first0.meta,
                                            !.prop = p, !.index = index0, !.list = <<>>])
           failed == IF error.err THEN Refuse
                     ELSE WithProperty(TagNumber(error.d).d, p, index0, ErrorValue)
<1>1. PropertyRound =
        IF \/ ~IsContextSpecific(r.meta)
           \/ t.tag = 3 /\ ~IsContextSpecific(t.meta) THEN Refuse
        ELSE CASE t.tag = 2 -> again
               [] next0.tag = 4 /\ IsOpening(next0.meta) ->
                    IF first0.d.err THEN Refuse ELSE value
               [] next0.tag = 5 /\ IsOpening(next0.meta) -> failed
               [] OTHER -> Refuse
  BY DEF PropertyRound
<1>2. t.tag # 2 /\ next0 = next /\ index0 = index /\ (t.tag = 3 => IsContextSpecific(t.meta))
  <2>1. \/ t.tag # 2 /\ t.tag # 3 /\ next = t /\ index = ArrayAll
        \/ t.tag = 3 /\ IsContextSpecific(t.meta) /\ next = TagNumber(idx.d) /\ index = idx.v
    OBVIOUS
  <2> HIDE DEF t, idx
  <2> QED
    BY <2>1
<1>3. first0 = first
  BY <1>2
<1>4. value = Give("value", OpenValue(r, first.d, first.tag, first.meta, p, index))
  <2> HIDE DEF next0, index0, first0, first, p
  <2> QED
    BY <1>2, <1>3 DEF OpenValue
<1> HIDE DEF again, failed, value
<1>5. \/ next.tag = 4 /\ IsOpening(next.meta) /\ PropertyRound = IF first.d.err THEN Refuse ELSE value
      \/ next.tag # 4 /\ next.tag # 0
      \/ ~IsOpening(next.meta) /\ next.tag # 0
      \/ next.tag = 0 /\ PropertyRound = Refuse
  <2> HIDE DEF t, next0, first0, first, index0
  <2> QED
    BY <1>1, <1>2, <1>3
<1> HIDE DEF first, prop
<1> QED
  BY <1>4, <1>5 DEF first, prop

\* The round that reads the number and the place of a property.
LEMMA PropertyOk ==
  ASSUME NEW objects \in AppReplies, NEW tail \in Bytes, Reader(r), AtProperty(r, objects, tail),
         InProperties
  PROVE  RoundOk(objects, tail, PropertyRound)
<1>1. PICK i, j : InObject(r, objects, i, j)
                  /\ NextRead(objects, i, j, tail, r.d, r.tag, r.meta, r.length)
  BY DEF AtProperty
<1> DEFINE p == objects[i].props[j + 1]
           w == ToWord(p.prop)
           after == After(objects, i, j + 1)
           v == AppData(p.data, FALSE) \o (<<79>> \o after)
           s == BehindNumber(p, after)
<1>2. /\ i \in 1 .. Len(objects) /\ j \in 0 .. Len(objects[i].props) /\ j < Len(objects[i].props)
      /\ IsContextSpecific(r.meta) /\ r.length = ValueLength(w)
      /\ Upto(r.d, tail, Unsigned(w) \o s)
  <2>1. r.tag # 0 /\ r.tag # 1
    BY DEF InProperties
  <2>2. i \in 1 .. Len(objects) /\ j \in 0 .. Len(objects[i].props)
    BY <1>1 DEF InObject
  <2> QED
    BY <1>1, <2>1, <2>2 DEF NextRead
<1>3. j + 1 \in 1 .. Len(objects[i].props) /\ (j + 1) - 1 = j
  BY <1>2, ObjectsRead
<1>4. p \in AppAnswered /\ after \in Bytes
  <2>1. j + 1 \in 0 .. Len(objects[i].props)
    BY <1>3
  <2> QED
    BY <1>2, <1>3, <2>1, AfterProperty
<1>5. /\ w \in Word /\ Natural(w) = p.prop /\ p.index \in Word /\ s \in Bytes
      /\ PlaceBytes(p) \in Bytes /\ v \in Bytes /\ <<78>> \o v \in Bytes
  <2>1. w \in Word /\ Natural(w) = p.prop /\ p.index \in Word /\ PlaceBytes(p) \in Bytes
        /\ AppData(p.data, FALSE) \in Bytes
    BY <1>4, AnsweredParts
  <2>2. s \in Bytes
    BY <1>4, PropertyParts
  <2>3. <<79>> \o after \in Bytes
    BY <1>4, Tags1, AppendIn
  <2>4. v \in Bytes
    <3> DEFINE k == <<79>> \o after
    <3> HIDE DEF k
    <3> QED
      BY <2>1, <2>3, AppendIn DEF k
  <2>5. <<78>> \o v \in Bytes
    <3> HIDE DEF v
    <3> QED
      BY <2>4, Tags1, AppendIn
  <2> QED
    BY <2>1, <2>2, <2>4, <2>5
<1> DEFINE prop == DecodeUnsigned(r.d, r.length)
           t == TagNumber(prop.d)
           idx == UnsignedOf(ValueOf(t))
<1>6. NumberUpto(prop, tail, w, s)
  <2> HIDE DEF w, s
  <2> QED
    BY <1>2, <1>5, UptoUnsigned
<1>7. tail # <<>> => RoundOk(objects, tail, Refuse)
  BY RefuseOk
<1>11. t.tag # 2 /\ t.tag # 3 =>
          /\ t.tag = 0 => PropertyRound = Refuse
          /\ LET first == TagNumber(t.d)
             IN  t.tag = 4 /\ IsOpening(t.meta) =>
                  /\ first.d.err = TRUE => PropertyRound = Refuse
                  /\ first.d.err = FALSE => PropertyRound =
                       Give("value", OpenValue(r, first.d, first.tag, first.meta,
                                               Natural(prop.v), ArrayAll))
  <2> SUFFICES ASSUME t.tag # 2, t.tag # 3
               PROVE  /\ t.tag = 0 => PropertyRound = Refuse
                      /\ LET first == TagNumber(t.d)
                         IN  t.tag = 4 /\ IsOpening(t.meta) =>
                              /\ first.d.err = TRUE => PropertyRound = Refuse
                              /\ first.d.err = FALSE => PropertyRound =
                                   Give("value", OpenValue(r, first.d, first.tag, first.meta,
                                                           Natural(prop.v), ArrayAll))
    OBVIOUS
  <2> HIDE DEF t, prop
  <2> QED
    BY <1>2, PropertyRounds DEF t, prop
<1> HIDE DEF prop
<1>8. ASSUME NEW next, NEW index, NEW k, k = Natural(prop.v),
             next.tag = 0 => PropertyRound = Refuse,
             LET first == TagNumber(next.d)
             IN  next.tag = 4 /\ IsOpening(next.meta) =>
                  /\ first.d.err = TRUE => PropertyRound = Refuse
                  /\ first.d.err = FALSE => PropertyRound =
                       Give("value", OpenValue(r, first.d, first.tag, first.meta, k, index)),
             TagUpto(next, tail, 4, 78, v), k = p.prop, index = p.index
      PROVE  RoundOk(objects, tail, PropertyRound)
  <2> DEFINE first == TagNumber(next.d)
  <2>1. CASE Lost(next, tail)
    BY <1>7, <1>8, <2>1 DEF Lost
  <2>2. CASE next.tag = 4 /\ next.meta = 78 /\ Upto(next.d, tail, v)
    <3>1. IsOpening(next.meta)
      BY <2>2 DEF IsOpening
    <3>2. InObject(r, objects, i, (j + 1) - 1)
      BY <1>1, <1>3
    <3>3. ValueOpened(objects, tail, r, first, p)
      BY <1>2, <1>3, <2>2, <3>2, OpenedValueOk
    <3>4. /\ first.d.err = TRUE => PropertyRound = Refuse
          /\ first.d.err = FALSE => PropertyRound =
               Give("value", OpenValue(r, first.d, first.tag, first.meta, p.prop, p.index))
      BY <1>8, <2>2, <3>1
    <3> HIDE DEF first, p
    <3> QED
      BY <1>7, <3>3, <3>4 DEF ValueOpened
  <2> QED
    BY <1>8, <2>1, <2>2 DEF TagUpto
<1>9. CASE tail # <<>> /\ prop.d.err = TRUE
  <2>1. t = [d |-> prop.d, tag |-> 0, meta |-> 0]
    BY <1>9, StuckTag
  <2> HIDE DEF t
  <2>2. t.tag = 0
    BY <2>1
  <2>3. PropertyRound = Refuse
    BY <1>11, <2>2
  <2> QED
    BY <1>7, <1>9, <2>3
<1>10. CASE prop.v = w /\ Upto(prop.d, tail, s)
  <2>1. Natural(prop.v) = p.prop
    BY <1>5, <1>10
  <2>2. CASE p.index = ArrayAll
    <3>1. s = TagByte(14, 4) \o v
      <4>1. s = <<>> \o (<<78>> \o v)
        BY <2>2 DEF BehindNumber, PlaceBytes
      <4> HIDE DEF v, s
      <4> QED
        BY <1>5, <4>1, BracketBytes, EmptySeq, ConcatEmptySeq DEF Bytes
    <3>2. TagUpto(t, tail, 4, 78, v)
      <4>1. 14 \in 0 .. 15 /\ 4 \in 0 .. 14 /\ 16 * 4 + 14 = 78
        OBVIOUS
      <4>2. Upto(prop.d, tail, TagByte(14, 4) \o v)
        BY <1>10, <3>1
      <4> HIDE DEF v
      <4> QED
        BY <1>5, <4>1, <4>2, UptoTag
    <3> HIDE DEF t
    <3>3. t.tag # 2 /\ t.tag # 3
      <4>1. t.tag = 0 \/ t.tag = 4
        BY <3>2, Zenon DEF TagUpto, Lost
      <4> QED
        BY <4>1
    <3> HIDE DEF p, v
    <3> QED
      BY <1>8, <1>11, <2>1, <2>2, <3>2, <3>3
  <2>3. CASE p.index # ArrayAll
    <3> DEFINE n == ValueLength(p.index)
               low == 8 + n
               x == Unsigned(p.index)
               b == <<78>> \o v
    <3>1. n \in 1 .. 4 /\ x \in Bytes
      BY <1>5, UnsignedBytes
    <3>2. s = TagByte(low, 3) \o (x \o b) /\ x \o b \in Bytes
      <4>1. s = (Tag(3, TRUE, n) \o x) \o b
        BY <2>3 DEF BehindNumber, PlaceBytes, ContextUnsigned
      <4> DEFINE num == 3
      <4>2. num \in 0 .. 14
        OBVIOUS
      <4>3. b \in Bytes
        BY <1>5
      <4> HIDE DEF n, x, b, num, s
      <4>4. (Tag(num, TRUE, n) \o x) \o b = TagByte(low, num) \o (x \o b) /\ x \o b \in Bytes
        BY <3>1, <4>2, <4>3, ShortTag
      <4> QED
        BY <4>1, <4>4 DEF num
    <3> DEFINE u == x \o b
    <3>3. low \in 0 .. 15 /\ 3 \in 0 .. 14 /\ low % 8 = n /\ low % 8 # 5 /\ low % 8 < 5
          /\ 16 * 3 + low = 56 + n
      <4> HIDE DEF n
      <4> QED
        BY <3>1
    <3>4. TagUpto(t, tail, 3, 16 * 3 + low, u)
      <4>1. Upto(prop.d, tail, TagByte(low, 3) \o u) /\ u \in Bytes
        BY <1>10, <3>2
      <4> HIDE DEF u, low
      <4> QED
        BY <3>3, <4>1, UptoTag
    <3>5. CASE Lost(t, tail)
      <4>1. t.tag = 0 /\ tail # <<>>
        BY <3>5 DEF Lost
      <4> HIDE DEF t
      <4>2. PropertyRound = Refuse
        BY <1>11, <4>1
      <4> QED
        BY <1>7, <4>1, <4>2
    <3>6. CASE t.tag = 3 /\ t.meta = 16 * 3 + low /\ Upto(t.d, tail, u)
      <4>1. t.meta = 56 + n /\ t.meta \in Nat /\ t.meta % 8 = n
        <5> HIDE DEF n, t
        <5> QED
          BY <3>1, <3>3, <3>6
      <4>2. IsContextSpecific(t.meta)
        <5> HIDE DEF n, t
        <5> QED
          BY <3>1, <4>1 DEF IsContextSpecific
      <4>3. idx = DecodeUnsigned(t.d, n)
        <5>1. ValueOf(t).d = t.d /\ ValueOf(t).v = n
          <6>1. n # 5 /\ n < 5
            BY <3>1
          <6> HIDE DEF n
          <6> QED
            BY <4>1, <6>1, TagAndValue
        <5> HIDE DEF t, n
        <5> QED
          BY <5>1 DEF UnsignedOf
      <4>4. NumberUpto(idx, tail, p.index, b)
        <5>1. b \in Bytes
          BY <1>5
        <5> HIDE DEF t, b, p, v
        <5> QED
          BY <1>5, <3>6, <4>3, <5>1, UptoUnsigned DEF n, x, u
      <4> DEFINE next == TagNumber(idx.d)
      <4>5. /\ next.tag = 0 => PropertyRound = Refuse
            /\ LET first == TagNumber(next.d)
               IN  next.tag = 4 /\ IsOpening(next.meta) =>
                    /\ first.d.err = TRUE => PropertyRound = Refuse
                    /\ first.d.err = FALSE => PropertyRound =
                         Give("value", OpenValue(r, first.d, first.tag, first.meta,
                                                 Natural(prop.v), idx.v))
        <5> HIDE DEF t
        <5>1. t.tag = 3
          BY <3>6
        <5> QED
          BY <1>2, <4>2, <5>1, PropertyRounds DEF t, prop
      <4> HIDE DEF idx
      <4>6. CASE tail # <<>> /\ idx.d.err = TRUE
        <5>1. next = [d |-> idx.d, tag |-> 0, meta |-> 0]
          BY <4>6, StuckTag
        <5> HIDE DEF next
        <5>2. next.tag = 0
          BY <5>1
        <5> QED
          BY <1>7, <4>5, <4>6, <5>2
      <4>7. CASE idx.v = p.index /\ Upto(idx.d, tail, b)
        <5>1. TagUpto(next, tail, 4, 78, v)
          <6>1. 14 \in 0 .. 15 /\ 4 \in 0 .. 14 /\ 16 * 4 + 14 = 78
            OBVIOUS
          <6>2. Upto(idx.d, tail, TagByte(14, 4) \o v)
            BY <4>7, BracketBytes
          <6> HIDE DEF v
          <6> QED
            BY <1>5, <6>1, <6>2, UptoTag
        <5> HIDE DEF next, p, v
        <5> QED
          BY <1>8, <2>1, <4>5, <4>7, <5>1
      <4> QED
        BY <4>4, <4>6, <4>7 DEF NumberUpto
    <3> QED
      BY <3>4, <3>5, <3>6 DEF TagUpto
  <2> QED
    BY <2>2, <2>3
<1> QED
  BY <1>6, <1>9, <1>10 DEF NumberUpto

\* A property that was read, and the tag behind it.
LEMMA ClosedValueOk ==
  ASSUME NEW objects \in AppReplies, NEW tail \in Bytes, Reader(r),
         NEW i, NEW j, InValue(r, objects, tail, i, j), i \in 1 .. Len(objects),
         NEW d, Upto(d, tail, After(objects, i, j))
  PROVE  RoundOk(objects, tail,
           WithProperty(d, r.prop, r.index, <<Received(objects[i].props[j].data)>>))
<1> DEFINE p == objects[i].props[j]
           e == [prop |-> r.prop, index |-> r.index, data |-> <<Received(p.data)>>]
           t == TagNumberAndValue(d)
           props == Append(r.props, e)
           y == CloseValue(r, t.d, t.tag, t.meta, t.v, props)
<1>1. WithProperty(d, r.prop, r.index, <<Received(p.data)>>) = Give("property", y)
  BY DEF WithProperty, CloseValue
<1>2. /\ Reader(y) /\ y.d = t.d /\ y.tag = t.tag /\ y.meta = t.meta /\ y.length = t.v
      /\ y.id = r.id /\ y.props = props /\ y.objects = r.objects
  <2> HIDE DEF t, props
  <2> QED
    BY FieldsProperty
<1>3. /\ j \in 1 .. Len(objects[i].props) /\ InObject(r, objects, i, j - 1)
      /\ r.prop = p.prop /\ r.index = p.index
  BY DEF InValue
<1>4. j \in 0 .. Len(objects[i].props) /\ j - 1 \in Nat /\ (j - 1) + 1 = j
  BY <1>3, ObjectsRead
<1>5. NextRead(objects, i, j, tail, t.d, t.tag, t.meta, t.v)
  BY <1>4, NextTag
<1>6. props = Firsts(ReadProps(objects[i]), j)
  <2> DEFINE g == ReadProps(objects[i])
  <2>1. e = g[j]
    <3>1. g[j] = ReadProp(p)
      BY <1>3 DEF ReadProps
    <3> QED
      BY <1>3, <3>1 DEF ReadProp
  <2>2. r.props = Firsts(g, j - 1)
    BY <1>3 DEF InObject
  <2> HIDE DEF g, e
  <2>3. Append(Firsts(g, j - 1), g[(j - 1) + 1]) = Firsts(g, (j - 1) + 1)
    BY <1>4, FirstsNext
  <2> QED
    BY <1>4, <2>1, <2>2, <2>3 DEF g
<1> HIDE DEF y, t, props
<1>7. InObject(y, objects, i, j)
  BY <1>2, <1>3, <1>4, <1>6 DEF InObject
<1>8. NextRead(objects, i, j, tail, y.d, y.tag, y.meta, y.length)
  BY <1>2, <1>5
<1>9. ReadState(objects, tail, "property", y)
  BY <1>2, <1>7, <1>8 DEF ReadState, AtProperty
<1> QED
  BY <1>1, <1>9, GiveOk

\* The end of a round inside a value that missed its bytes: there is no end.
LEMMA LostRound ==
  ASSUME NEW objects \in AppReplies, NEW tail \in Bytes, Reader(r),
         NEW d, NEW list, Lost(TagNumber(d), tail)
  PROVE  RoundOk(objects, tail, NextRound(d, list))
<1> DEFINE t == TagNumber(d)
           y == NextValue(r, t.d, t.tag, t.meta, list)
<1>1. tail # <<>> /\ t.tag = 0 /\ t.meta = 0 /\ t.d.err = TRUE
  BY DEF Lost
<1>2. ~IsClosing(t.meta)
  <2>1. ~IsClosing(0)
    BY DEF IsClosing
  <2> HIDE DEF t
  <2> QED
    BY <1>1, <2>1
<1>3. NextRound(d, list) = Give("value", y)
  <2> HIDE DEF t
  <2> QED
    BY <1>2 DEF NextRound, NextValue, t
<1>4. Reader(y) /\ y.d = t.d /\ y.tag = t.tag /\ y.meta = t.meta
  <2> HIDE DEF t
  <2> QED
    BY FieldsRound
<1> HIDE DEF y, t
<1>5. Lost(y, tail)
  BY <1>1, <1>4 DEF Lost
<1>6. ReadState(objects, tail, "value", y)
  BY <1>4, <1>5 DEF ReadState
<1> QED
  BY <1>3, <1>6, GiveOk

\* A round inside a value with no context tag.
LEMMA PlainRound ==
  ~IsContextSpecific(r.meta) =>
    LET size == TagValue(r.d, r.meta)
        x == AppDataOfTag(size.d, r.tag, size.v)
    IN  /\ x.err = TRUE => ValueRound = Refuse
        /\ x.err = FALSE => ValueRound = NextRound(x.d, Grown(r.list, x.x))
<1> SUFFICES ASSUME ~IsContextSpecific(r.meta)
             PROVE  LET size == TagValue(r.d, r.meta)
                        x == AppDataOfTag(size.d, r.tag, size.v)
                    IN  /\ x.err = TRUE => ValueRound = Refuse
                        /\ x.err = FALSE => ValueRound = NextRound(x.d, Grown(r.list, x.x))
  OBVIOUS
<1> DEFINE size == TagValue(r.d, r.meta)
           x == AppDataOfTag(size.d, r.tag, size.v)
<1>1. ValueRound = IF x.err THEN Refuse ELSE NextRound(x.d, Grown(r.list, x.x))
  BY DEF ValueRound
<1> HIDE DEF x
<1> QED
  BY <1>1 DEF x

\* At a value of the library's reply no error is set, and its tag is no context
\* tag.
LEMMA PlainValue ==
  \A objects \in AppReplies, tail \in Bytes : \A x :
    AtValue(x, objects, tail) => x.d.err = FALSE /\ ~IsContextSpecific(x.meta)
<1> SUFFICES ASSUME NEW objects \in AppReplies, NEW tail \in Bytes, NEW x,
                    AtValue(x, objects, tail)
             PROVE  x.d.err = FALSE /\ ~IsContextSpecific(x.meta)
  OBVIOUS
<1>1. PICK i, j : InValue(x, objects, tail, i, j)
  BY DEF AtValue
<1> DEFINE p == objects[i].props[j]
           num == TagOf(p.data)
           n == SizeOf(p.data)
           low == TagLow(FALSE, n)
           s == Extended(n) \o (DataOf(p.data) \o (<<79>> \o After(objects, i, j)))
<1>2. /\ i \in 1 .. Len(objects) /\ j \in 1 .. Len(objects[i].props)
      /\ x.meta = 16 * num + low /\ Upto(x.d, tail, s)
  BY <1>1 DEF InValue, InObject
<1>3. p.data \in AppValues
  <2>1. j \in 0 .. Len(objects[i].props)
    BY <1>2, ObjectsRead
  <2>2. p \in AppAnswered
    BY <1>2, <2>1, AfterProperty
  <2> QED
    BY <2>2, AnsweredParts
<1>4. num \in 0 .. 12 /\ n \in Nat
  BY <1>3, ValueParts DEF Parts
<1>5. low \in 0 .. 5
  <2> HIDE DEF n
  <2> QED
    BY <1>4 DEF TagLow
<1> HIDE DEF num, n, low, s
<1>6. ((16 * num + low) \div 8) % 2 = 0
  BY <1>4, <1>5
<1>7. ~IsContextSpecific(x.meta)
  BY <1>2, <1>6 DEF IsContextSpecific
<1>8. x.d.err = FALSE
  BY <1>2, NoError DEF Upto
<1> QED
  BY <1>7, <1>8

\* The round that reads a value.
LEMMA ValueOk ==
  ASSUME NEW objects \in AppReplies, NEW tail \in Bytes, Reader(r),
         AtValue(r, objects, tail) \/ Lost(r, tail)
  PROVE  RoundOk(objects, tail, ValueRound)
<1> DEFINE size == TagValue(r.d, r.meta)
           x == AppDataOfTag(size.d, r.tag, size.v)
<1>1. CASE Lost(r, tail)
  <2>1. tail # <<>> /\ r.tag = 0 /\ r.meta = 0 /\ r.d.err = TRUE
    BY <1>1 DEF Lost
  <2>2. ~IsContextSpecific(r.meta)
    BY <2>1 DEF IsContextSpecific
  <2>3. size.d = r.d
    BY <2>1 DEF TagValue
  <2>4. x.d = size.d /\ x.err = FALSE
    <3>1. x = [d |-> size.d, x |-> Null, err |-> FALSE]
      <4>1. \A f, n : AppDataOfTag(f, 0, n) = [d |-> f, x |-> Null, err |-> FALSE]
        BY SMT DEF AppDataOfTag
      <4> HIDE DEF size
      <4> QED
        BY <2>1, <4>1
    <3> HIDE DEF x, size
    <3> QED
      BY <3>1
  <2>5. ValueRound = NextRound(x.d, Grown(r.list, x.x))
    BY <2>2, <2>4, PlainRound
  <2> DEFINE t == TagNumber(r.d)
  <2>6. t = [d |-> r.d, tag |-> 0, meta |-> 0]
    BY <2>1, StuckTag
  <2> HIDE DEF t
  <2>7. t.d = r.d /\ t.tag = 0 /\ t.meta = 0
    BY <2>6
  <2>8. Lost(t, tail)
    BY <2>1, <2>7 DEF Lost
  <2> HIDE DEF x
  <2>9. Lost(TagNumber(x.d), tail)
    BY <2>3, <2>4, <2>8 DEF t
  <2> QED
    BY <2>5, <2>9, LostRound
<1>2. CASE AtValue(r, objects, tail)
  <2>1. PICK i, j : InValue(r, objects, tail, i, j)
    BY <1>2 DEF AtValue
  <2> DEFINE p == objects[i].props[j]
             z == p.data
             num == TagOf(z)
             n == SizeOf(z)
             a == After(objects, i, j)
             s == <<79>> \o a
  <2>2. /\ i \in 1 .. Len(objects) /\ j \in 1 .. Len(objects[i].props)
        /\ r.list = <<>> /\ r.tag = num /\ r.meta = 16 * num + TagLow(FALSE, n)
        /\ Upto(r.d, tail, Extended(n) \o (DataOf(z) \o s))
    BY <2>1 DEF InValue, InObject
  <2>3. p \in AppAnswered /\ z \in AppValues /\ a \in Bytes /\ s \in Bytes
    <3>1. j \in 0 .. Len(objects[i].props)
      BY <2>2, ObjectsRead
    <3>2. a \in Bytes /\ p \in AppAnswered
      BY <2>2, <3>1, AfterProperty
    <3> QED
      BY <3>2, AnsweredParts, Tags1, AppendIn
  <2>4. ~IsContextSpecific(r.meta)
    BY <1>2, PlainValue
  <2>5. ValueUpto(x, tail, z, s)
    <3> HIDE DEF s, z
    <3>1. ValueUpto(AppDataOfTag(TagValue(r.d, 16 * num + TagLow(FALSE, n)).d, num,
                                 TagValue(r.d, 16 * num + TagLow(FALSE, n)).v), tail, z, s)
      BY <2>2, <2>3, UptoValue
    <3> QED
      BY <2>2, <3>1
  <2> HIDE DEF x
  <2>6. CASE tail # <<>> /\ x.err = TRUE
    <3>1. ValueRound = Refuse
      BY <2>4, <2>6, PlainRound DEF x
    <3> QED
      BY <2>6, <3>1, RefuseOk
  <2>7. x.err = FALSE => ValueRound = NextRound(x.d, Grown(r.list, x.x))
    BY <2>4, PlainRound DEF x
  <2> DEFINE t == TagNumber(x.d)
  <2>8. CASE tail # <<>> /\ x.err = FALSE /\ x.d.err = TRUE
    <3>1. t = [d |-> x.d, tag |-> 0, meta |-> 0]
      BY <2>8, StuckTag
    <3> HIDE DEF t
    <3>2. t.d = x.d /\ t.tag = 0 /\ t.meta = 0
      BY <3>1
    <3>3. Lost(t, tail)
      BY <2>8, <3>2 DEF Lost
    <3> QED
      BY <2>7, <2>8, <3>3, LostRound DEF t
  <2>9. CASE x.err = FALSE /\ x.x = Received(z) /\ Upto(x.d, tail, s)
    <3> DEFINE list == Grown(r.list, x.x)
    <3>1. list = <<Received(z)>>
      <4>1. MaxArray > 0 /\ Len(<<>>) = 0
        BY CodecAssumption
      <4>2. r.list = <<>> /\ x.x = Received(z)
        BY <2>2, <2>9
      <4> DEFINE e == Received(z)
      <4> HIDE DEF e
      <4>3. Append(<<>>, e) = <<e>>
        OBVIOUS
      <4> QED
        BY <4>1, <4>2, <4>3 DEF Grown, e
    <3>2. TagUpto(t, tail, 4, 79, a)
      <4>1. 15 \in 0 .. 15 /\ 4 \in 0 .. 14 /\ 16 * 4 + 15 = 79
        OBVIOUS
      <4>2. Upto(x.d, tail, TagByte(15, 4) \o a)
        BY <2>9, BracketBytes
      <4> HIDE DEF a
      <4> QED
        BY <2>3, <4>1, <4>2, UptoTag
    <3>3. ValueRound = NextRound(x.d, list)
      BY <2>7, <2>9
    <3> HIDE DEF t, list
    <3>4. CASE Lost(t, tail)
      BY <3>3, <3>4, LostRound DEF t
    <3>5. CASE t.tag = 4 /\ t.meta = 79 /\ Upto(t.d, tail, a)
      <4>1. IsClosing(t.meta)
        BY <3>5 DEF IsClosing
      <4>2. NextRound(x.d, list) = WithProperty(t.d, r.prop, r.index, list)
        BY <3>5, <4>1 DEF NextRound, t
      <4>3. RoundOk(objects, tail, WithProperty(t.d, r.prop, r.index, <<Received(z)>>))
        BY <2>1, <2>2, <3>5, ClosedValueOk
      <4> QED
        BY <3>1, <3>3, <4>2, <4>3
    <3> QED
      BY <3>2, <3>4, <3>5 DEF TagUpto
  <2> QED
    BY <2>5, <2>6, <2>8, <2>9 DEF ValueUpto
<1> QED
  BY <1>1, <1>2

\* The first of a sequence are as many as are said.
LEMMA FirstsAre ==
  \A g : \A n \in Nat :
    /\ DOMAIN Firsts(g, n) = 1 .. n /\ Len(Firsts(g, n)) = n
    /\ \A k \in 1 .. n : Firsts(g, n)[k] = g[k]
<1> SUFFICES ASSUME NEW g, NEW n \in Nat
             PROVE  /\ DOMAIN Firsts(g, n) = 1 .. n /\ Len(Firsts(g, n)) = n
                    /\ \A k \in 1 .. n : Firsts(g, n)[k] = g[k]
  OBVIOUS
<1> DEFINE f == Firsts(g, n)
           S == {g[k] : k \in 1 .. n}
<1>1. f \in [1 .. n -> S] /\ DOMAIN f = 1 .. n /\ \A k \in 1 .. n : f[k] = g[k]
  BY DEF Firsts
<1> HIDE DEF f, S
<1>2. Len(f) = n
  BY <1>1
<1> QED
  BY <1>1, <1>2 DEF f

\* Fewer of a sequence are a prefix of more of it.
LEMMA FirstsPrefix ==
  \A g : \A n \in Nat : \A k \in 0 .. n : IsPrefix(Firsts(g, k), Firsts(g, n))
<1> SUFFICES ASSUME NEW g, NEW n \in Nat, NEW k \in 0 .. n
             PROVE  IsPrefix(Firsts(g, k), Firsts(g, n))
  OBVIOUS
<1> DEFINE a == Firsts(g, k)
           b == Firsts(g, n)
           S == {g[m] : m \in 1 .. n}
<1>1. Len(a) = k /\ Len(b) = n /\ \A m \in 1 .. k : a[m] = g[m] /\ b[m] = g[m]
  BY FirstsAre
<1>2. a \in [1 .. k -> S] /\ b \in [1 .. n -> S]
  BY DEF Firsts
<1> HIDE DEF a, b, S
<1>3. a \in Seq(S) /\ b \in Seq(S)
  BY <1>2
<1>4. SubSeq(a, 1, k) = SubSeq(b, 1, k)
  BY <1>1, <1>3
<1>5. IsPrefix(a, b)
  BY <1>1, <1>4 DEF IsPrefix
<1> QED
  BY <1>5 DEF a, b

\* What is known of a reply of which all but the tail arrived.
ReplyHas(tail) ==
  /\ cut = 0 => tail = <<>>
  /\ phase = "wire" => wire \in Bytes /\ wire \o tail = ReadMultiplePropertyAck(1, item)
  /\ phase = "reading" => ReadState(item, tail, place, r)
  /\ phase \in {"decoded", "failed", "matched"} => Result(item, tail, out)
  /\ phase \in {"decoded", "matched"} => out.err = FALSE
  /\ phase = "matched" => match.ok = MatchReply(match.asked, out.objects)
ReplyInv == kind = "reply" => item \in AppReplies /\ \E tail \in Bytes : ReplyHas(tail)

\* A round of the decoder keeps the invariant when it ends in one of its states.
LEMMA RoundKnown ==
  ASSUME ReplyInv, NEW p, NEW next, Round(p, next),
         ASSUME NEW tail \in Bytes, item \in AppReplies, ReadState(item, tail, p, r)
         PROVE  RoundOk(item, tail, next)
  PROVE  ReplyInv'
<1>1. /\ phase = "reading" /\ place = p /\ place' = next.place /\ r' = next.r /\ out' = next.out
      /\ kind' = kind /\ item' = item /\ cut' = cut
      /\ next.place # None => phase' = "reading"
      /\ next.place = None => phase' = IF next.out.err THEN "failed" ELSE "decoded"
  BY DEF Round
<1> SUFFICES ASSUME kind = "reply"
             PROVE  item' \in AppReplies /\ \E tail \in Bytes : ReplyHas(tail)'
  BY <1>1 DEF ReplyInv
<1>2. PICK tail \in Bytes : item \in AppReplies /\ ReplyHas(tail)
  BY DEF ReplyInv
<1>3. RoundOk(item, tail, next)
  BY <1>1, <1>2 DEF ReplyHas
<1>4. CASE next.place # None
  <2>1. ReadState(item', tail, place', r') /\ phase' = "reading"
    BY <1>1, <1>3, <1>4 DEF RoundOk
  <2> QED
    BY <1>1, <1>2, <2>1 DEF ReplyHas
<1>5. CASE next.place = None
  <2>1. Result(item', tail, out')
    BY <1>1, <1>3, <1>5 DEF RoundOk
  <2>2. phase' \in {"failed", "decoded"} /\ (phase' = "decoded" => ~out'.err)
    BY <1>1, <1>5
  <2>3. out'.err = TRUE \/ out'.err = FALSE
    BY <2>1 DEF Result
  <2> QED
    BY <1>1, <1>2, <2>1, <2>2, <2>3 DEF ReplyHas
<1> QED
  BY <1>4, <1>5

\* What is read of a reply once its head was read.
LEMMA OpenKnown ==
  ASSUME ReplyInv, OpenReply
  PROVE  ReplyInv'
<1> DEFINE b == Body(ServiceReadPropMultiple)
           ack == Ack(ServiceReadPropMultiple, 1)
           s == ObjectRests(item)[0]
<1>1. /\ phase = "wire" /\ kind' = kind /\ item' = item /\ cut' = cut
      /\ IF b.err THEN Return([err |-> TRUE])
         ELSE phase' = "reading" /\ place' = "object" /\ r' = [NoReader EXCEPT !.d = b]
  BY DEF OpenReply
<1> SUFFICES ASSUME kind = "reply"
             PROVE  item' \in AppReplies /\ \E tail \in Bytes : ReplyHas(tail)'
  BY <1>1 DEF ReplyInv
<1>2. PICK tail \in Bytes : item \in AppReplies /\ ReplyHas(tail)
  BY DEF ReplyInv
<1>3. wire \in Bytes /\ wire \o tail = ReadMultiplePropertyAck(1, item)
  BY <1>1, <1>2 DEF ReplyHas
<1>4. Len(item) \in Nat /\ s \in Bytes /\ wire \o tail = ack \o s
  <2>1. /\ Len(item) \in Nat /\ \A i \in 0 .. Len(item) : ObjectRests(item)[i] \in Bytes
        /\ ReadMultiplePropertyAck(1, item) = ack \o s
    BY <1>2, ReplyRests
  <2>2. 0 \in 0 .. Len(item)
    BY <2>1
  <2>3. s \in Bytes
    BY <2>1, <2>2
  <2> QED
    BY <1>3, <2>1, <2>3
<1>5. ServiceReadPropMultiple \in Byte /\ 1 \in Byte
  BY DEF ServiceReadPropMultiple, Byte
<1>6. Remains(b, tail, s)
  BY <1>3, <1>4, <1>5, CutAck DEF Body
<1>7. tail = <<>> => b = Good(s)
  <2> SUFFICES ASSUME tail = <<>> PROVE b = Good(s)
    OBVIOUS
  <2>1. wire = ack \o s
    BY <1>3, <1>4, AppendIn, EmptySeq DEF Bytes
  <2> HIDE DEF s
  <2> QED
    BY <1>4, <1>5, <2>1, AckBody DEF Body
<1>8. tail = <<>> => b.err = FALSE
  BY <1>7, NoError
<1> HIDE DEF b
<1>9. CASE b.err
  <2> DEFINE y == [err |-> TRUE]
  <2>1. phase' = "failed" /\ out' = y
    BY <1>1, <1>9 DEF Return
  <2>2. tail # <<>> /\ y.err = TRUE
    BY <1>8, <1>9
  <2> HIDE DEF y
  <2>3. Result(item', tail, out')
    BY <2>1, <2>2 DEF Result
  <2> QED
    BY <1>1, <1>2, <2>1, <2>3 DEF ReplyHas
<1>10. CASE ~b.err
  <2> DEFINE x == [NoReader EXCEPT !.d = b]
  <2>1. phase' = "reading" /\ place' = "object" /\ r' = x
    BY <1>1, <1>10
  <2>2. x.d = b /\ x.objects = <<>> /\ Reader(x)
    BY DEF NoReader, Reader, Fields
  <2> HIDE DEF x
  <2>3. PICK q \in Bytes : b = Good(q) /\ q \o tail = s
    <3>1. b # [buf |-> <<>>, err |-> TRUE]
      BY <1>10
    <3> QED
      BY <1>6, <3>1 DEF Remains
  <2>4. <<>> = Firsts(ReceivedObjects(item), 0)
    BY DEF Firsts
  <2>5. Upto(x.d, tail, ObjectRests(item)[0]) /\ x.objects = Firsts(ReceivedObjects(item), 0)
    BY <2>2, <2>3, <2>4 DEF Upto
  <2>6. 0 \in 0 .. Len(item)
    BY <1>4
  <2>7. AtObject(x, item, tail)
    BY <2>5, <2>6 DEF AtObject
  <2>8. ReadState(item', tail, place', r')
    BY <1>1, <2>1, <2>2, <2>7 DEF ReadState
  <2> QED
    BY <1>1, <1>2, <2>1, <2>8 DEF ReplyHas
<1> QED
  BY <1>9, <1>10

\* A reply that is sent, and one that is cut short.
LEMMA ReplySent ==
  ASSUME CutKnown, EncodeReply
  PROVE  ReplyInv'
<1>1. PICK x \in Replies : Send("reply", x, ReadMultiplePropertyAck(1, x))
  BY DEF EncodeReply
<1> DEFINE bytes == ReadMultiplePropertyAck(1, x)
           ack == Ack(ServiceReadPropMultiple, 1)
           s == ObjectRests(x)[0]
<1>2. x \in AppReplies
  BY CodecAssumption
<1>3. phase' = "wire" /\ item' = x /\ wire' = bytes
  BY <1>1 DEF Send
<1>4. bytes \in Bytes
  <2>1. Len(x) \in Nat /\ bytes = ack \o s
    BY <1>2, ReplyRests
  <2>2. 0 \in 0 .. Len(x)
    BY <2>1
  <2>3. s \in Bytes
    BY <1>2, <2>2, ReplyRests
  <2>4. ServiceReadPropMultiple \in Byte /\ 1 \in Byte
    BY DEF ServiceReadPropMultiple, Byte
  <2>5. ack \in Bytes
    BY <2>3, <2>4, AckHead
  <2> HIDE DEF bytes, ack, s
  <2> QED
    BY <2>1, <2>3, <2>5, AppendIn
<1> HIDE DEF bytes
<1>5. bytes \o <<>> = bytes /\ <<>> \in Bytes
  BY <1>4, EmptySeq, ConcatEmptySeq DEF Bytes
<1>6. wire' \o <<>> = ReadMultiplePropertyAck(1, item')
  BY <1>3, <1>5 DEF bytes
<1> DEFINE e == <<>>
<1>7. e \in Bytes /\ ReplyHas(e)'
  BY <1>3, <1>4, <1>5, <1>6 DEF ReplyHas
<1> QED
  BY <1>2, <1>3, <1>7 DEF ReplyInv

\* Cutting a reply short keeps the invariant.
LEMMA ReplyCut ==
  ASSUME ReplyInv, CutShort
  PROVE  ReplyInv'
<1>1. PICK n \in 1 .. MaxCut : /\ n <= Len(wire) /\ cut' = n
                               /\ wire' = SubSeq(wire, 1, Len(wire) - n)
  BY DEF CutShort
<1>2. /\ phase = "wire" /\ phase' = "wire" /\ cut = 0 /\ kind' = kind /\ item' = item
      /\ MaxCut \in Nat
  BY CodecAssumption DEF CutShort
<1>3. n \in Nat /\ n >= 1 /\ cut' # 0
  BY <1>1, <1>2
<1> SUFFICES ASSUME kind = "reply"
             PROVE  item' \in AppReplies /\ \E tail \in Bytes : ReplyHas(tail)'
  BY <1>2 DEF ReplyInv
<1>4. PICK none \in Bytes : item \in AppReplies /\ ReplyHas(none)
  BY DEF ReplyInv
<1>5. wire \in Bytes /\ wire \o none = ReadMultiplePropertyAck(1, item) /\ none = <<>>
  BY <1>2, <1>4 DEF ReplyHas
<1>6. wire \o <<>> = wire
  BY <1>5, ConcatEmptySeq DEF Bytes
<1>7. PICK tail \in Bytes : wire' \in Bytes /\ wire' \o tail = wire
  BY <1>1, <1>3, <1>5, Shortened
<1>8. wire' \o tail = ReadMultiplePropertyAck(1, item')
  BY <1>2, <1>5, <1>6, <1>7
<1>9. ReplyHas(tail)'
  BY <1>2, <1>3, <1>7, <1>8 DEF ReplyHas
<1> QED
  BY <1>2, <1>4, <1>9

\* Every round of the decoder keeps the invariant.
LEMMA ReadingReply ==
  ASSUME ReplyInv, ReadReply
  PROVE  ReplyInv'
<1>1. CASE ReadObject
  <2>1. PICK t \in {TagNumberAndValue(r.d)} : \E id \in {DecodeObjectId(t.d)} :
        \E open \in {TagNumber(id.d)} : \E first \in {TagNumberAndValue(open.d)} :
          Round("object", ObjectRound(t, id, open, first))
    BY <1>1 DEF ReadObject
  <2>2. PICK id \in {DecodeObjectId(t.d)} :
        \E open \in {TagNumber(id.d)} : \E first \in {TagNumberAndValue(open.d)} :
          Round("object", ObjectRound(t, id, open, first))
    BY <2>1
  <2>3. PICK open \in {TagNumber(id.d)} : \E first \in {TagNumberAndValue(open.d)} :
          Round("object", ObjectRound(t, id, open, first))
    BY <2>2
  <2>f. PICK first \in {TagNumberAndValue(open.d)} :
          Round("object", ObjectRound(t, id, open, first))
    BY <2>3
  <2>4. ASSUME NEW tail \in Bytes, item \in AppReplies, ReadState(item, tail, "object", r)
        PROVE  RoundOk(item, tail, ObjectRound(t, id, open, first))
    <3>1. Reader(r) /\ (AtObject(r, item, tail) \/ LostObject(r, item, tail))
      BY <2>4 DEF ReadState
    <3>2. t = TagNumberAndValue(r.d) /\ id = DecodeObjectId(t.d) /\ open = TagNumber(id.d)
          /\ first = TagNumberAndValue(open.d)
      OBVIOUS
    <3> QED
      BY <2>4, <3>1, <3>2, ObjectOk
  <2> QED
    BY <2>f, <2>4, RoundKnown
<1>2. CASE EndObject
  <2> DEFINE next == Give("object", [r EXCEPT !.objects =
          Append(@, [type |-> r.id[1], instance |-> r.id[2], props |-> r.props])])
  <2>1. ~InProperties /\ Round("property", next)
    BY <1>2 DEF EndObject
  <2>2. ASSUME NEW tail \in Bytes, item \in AppReplies, ReadState(item, tail, "property", r)
        PROVE  RoundOk(item, tail, next)
    <3>1. Reader(r) /\ AtProperty(r, item, tail)
      BY <2>2 DEF ReadState
    <3> QED
      BY <2>1, <2>2, <3>1, CloseOk
  <2> HIDE DEF next
  <2> QED
    BY <2>1, <2>2, RoundKnown
<1>3. CASE ReadPropertyTag
  <2>1. InProperties /\ Round("property", PropertyRound)
    BY <1>3 DEF ReadPropertyTag
  <2>2. ASSUME NEW tail \in Bytes, item \in AppReplies, ReadState(item, tail, "property", r)
        PROVE  RoundOk(item, tail, PropertyRound)
    <3>1. Reader(r) /\ AtProperty(r, item, tail)
      BY <2>2 DEF ReadState
    <3> QED
      BY <2>1, <2>2, <3>1, PropertyOk
  <2> QED
    BY <2>1, <2>2, RoundKnown
<1>4. CASE ReadValue
  <2>1. Round("value", ValueRound)
    BY <1>4 DEF ReadValue
  <2>2. ASSUME NEW tail \in Bytes, item \in AppReplies, ReadState(item, tail, "value", r)
        PROVE  RoundOk(item, tail, ValueRound)
    <3>1. Reader(r) /\ (AtValue(r, item, tail) \/ Lost(r, tail))
      BY <2>2 DEF ReadState
    <3> QED
      BY <2>2, <3>1, ValueOk
  <2> QED
    BY <2>1, <2>2, RoundKnown
<1>5. CASE ReadTimeStamp
  <2>1. Round("stamp", StampRound)
    BY <1>5 DEF ReadTimeStamp
  <2>2. ASSUME NEW tail \in Bytes, item \in AppReplies, ReadState(item, tail, "stamp", r)
        PROVE  RoundOk(item, tail, StampRound)
    BY <2>2 DEF ReadState
  <2> QED
    BY <2>1, <2>2, RoundKnown
<1> QED
  BY <1>1, <1>2, <1>3, <1>4, <1>5 DEF ReadReply

\* A reply of the library, whole or cut short, is read as the objects up to
\* somewhere in it, or refused where it was cut.
THEOREM RepliesRead == Spec => []ReplyInv
<1>1. Init => ReplyInv
  BY DEF Init, ReplyInv, None
<1>2. CutKnown /\ ReplyInv /\ [Next]_vars => ReplyInv'
  <2> SUFFICES ASSUME CutKnown, ReplyInv, [Next]_vars
               PROVE  ReplyInv'
    OBVIOUS
  <2>1. CASE EncodeReply
    BY <2>1, ReplySent
  <2>2. CASE CutShort
    BY <2>2, ReplyCut
  <2>3. CASE OpenReply
    BY <2>3, OpenKnown
  <2>4. CASE ReadReply
    BY <2>4, ReadingReply
  <2>5. CASE MatchReadMultiple
    <3>1. /\ phase = "decoded" /\ phase' = "matched" /\ kind' = kind /\ item' = item
          /\ wire' = wire /\ cut' = cut /\ out' = out
          /\ \E asked \in Asked : match' = [asked |-> asked, ok |-> MatchReply(asked, out.objects)]
      BY <2>5 DEF MatchReadMultiple
    <3> SUFFICES ASSUME kind = "reply"
                 PROVE  item' \in AppReplies /\ \E tail \in Bytes : ReplyHas(tail)'
      BY <3>1 DEF ReplyInv
    <3>2. PICK tail \in Bytes : item \in AppReplies /\ ReplyHas(tail)
      BY DEF ReplyInv
    <3>3. Result(item', tail, out') /\ out'.err = FALSE
      BY <3>1, <3>2 DEF ReplyHas
    <3>4. match'.ok = MatchReply(match'.asked, out'.objects)
      BY <3>1
    <3> QED
      BY <3>1, <3>2, <3>3, <3>4 DEF ReplyHas
  <2>6. CASE Done
    BY <2>6 DEF Done, ReplyInv, None
  <2>7. CASE \/ EncodeValue \/ EncodeDate \/ EncodeNPDU \/ EncodeAPDU \/ EncodeRead
             \/ EncodeReadAck \/ EncodeIAm \/ EncodeWhoIs \/ EncodeBVLC \/ EncodeRequest
             \/ DeviceReply
    <3>1. kind' # "reply"
      BY <2>7 DEF EncodeValue, EncodeDate, EncodeNPDU, EncodeAPDU, EncodeRead, EncodeReadAck,
                  EncodeIAm, EncodeWhoIs, EncodeBVLC, EncodeRequest, DeviceReply, Send
    <3> QED
      BY <3>1 DEF ReplyInv
  <2>8. CASE \/ DecodeValue \/ DecodeDateOnly \/ DecodeHeader \/ DecodeHead \/ DecodeRead
             \/ DecodeReadAck \/ DecodeAnnouncement \/ DecodeSearch \/ DecodeFrame
             \/ DeviceRequest
    <3>1. kind' # "reply"
      BY <2>8 DEF DecodeValue, DecodeDateOnly, DecodeHeader, DecodeHead, DecodeRead,
                  DecodeReadAck, DecodeAnnouncement, DecodeSearch, DecodeFrame, DeviceRequest,
                  Decoding
    <3> QED
      BY <3>1 DEF ReplyInv
  <2>9. CASE UNCHANGED vars
    <3>1. /\ phase' = phase /\ kind' = kind /\ item' = item /\ wire' = wire /\ cut' = cut
          /\ out' = out /\ place' = place /\ r' = r /\ match' = match
      BY <2>9 DEF vars
    <3> SUFFICES ASSUME kind = "reply"
                 PROVE  item' \in AppReplies /\ \E tail \in Bytes : ReplyHas(tail)'
      BY <3>1 DEF ReplyInv
    <3>2. PICK tail \in Bytes : item \in AppReplies /\ ReplyHas(tail)
      BY DEF ReplyInv
    <3>3. ReplyHas(tail)'
      BY <3>1, <3>2 DEF ReplyHas
    <3> QED
      BY <3>1, <3>2, <3>3
  <2> QED
    BY <2>1, <2>2, <2>3, <2>4, <2>5, <2>6, <2>7, <2>8, <2>9 DEF Next
<1>3. PeerInv => CutKnown
  BY DEF PeerInv
<1> QED
  BY <1>1, <1>2, <1>3, PeersUnderstood, PTL DEF Spec

\* What is decoded of a reply that arrived whole are its objects.
LEMMA WholeReply ==
  ASSUME ReplyInv
  PROVE  ReplyReadBack("reply")
<1> SUFFICES ASSUME cut = 0, Decoded("reply")
             PROVE  ~out.err /\ out.objects = ReceivedObjects(item)
  BY DEF ReplyReadBack
<1>1. PICK tail \in Bytes : item \in AppReplies /\ ReplyHas(tail)
  BY DEF ReplyInv, Decoded
<1>2. tail = <<>> /\ Result(item, tail, out)
  BY <1>1 DEF ReplyHas, Decoded
<1>3. out.err = FALSE /\ out.objects = Firsts(ReceivedObjects(item), Len(item))
  BY <1>2 DEF Result
<1>4. ReceivedObjects(item) =
        [i \in 1 .. Len(item) |-> PartObject(item[i], Len(item[i].props))]
  BY <1>1, ObjectsRead
<1>5. Firsts(ReceivedObjects(item), Len(item)) = ReceivedObjects(item)
  BY <1>4 DEF Firsts
<1> QED
  BY <1>3, <1>5

\* What is read of an object up to a property is a part of the object.
LEMMA PartIsPrefix ==
  \A o \in AppObjects : \A j \in 0 .. Len(o.props) :
    IsPrefix(PartObject(o, j).props, PartObject(o, Len(o.props)).props)
<1> SUFFICES ASSUME NEW o \in AppObjects, NEW j \in 0 .. Len(o.props)
             PROVE  IsPrefix(PartObject(o, j).props, PartObject(o, Len(o.props)).props)
  OBVIOUS
<1>1. Len(o.props) \in Nat
  BY PropertyRests
<1> DEFINE n == Len(o.props)
           ps == ReadProps(o)
<1>2. PartObject(o, j).props = Firsts(ps, j) /\ PartObject(o, n).props = Firsts(ps, n)
  BY DEF PartObject
<1> HIDE DEF n, ps
<1>3. IsPrefix(Firsts(ps, j), Firsts(ps, n))
  BY <1>1, FirstsPrefix DEF n
<1> QED
  BY <1>2, <1>3 DEF n

\* A reply that was cut short is matched with its request only when nothing but
\* the end of its last object is missing.
LEMMA CutReply ==
  ASSUME ReplyInv, CutKnown
  PROVE  CutRepliesTruthful
<1> DEFINE all == ReceivedObjects(item)
           n == Len(item)
<1> SUFFICES ASSUME phase = "matched", kind = "reply", match.ok, MatchReply(match.asked, all)
             PROVE  Len(out.objects) = n /\ \A i \in 1 .. n :
                      /\ out.objects[i].type = all[i].type
                      /\ out.objects[i].instance = all[i].instance
                      /\ IsPrefix(out.objects[i].props, all[i].props)
                      /\ out.objects[i].props = all[i].props \/ (cut > 0 /\ i = n)
  BY DEF CutRepliesTruthful, CutReplyTruthful
<1>1. PICK tail \in Bytes : item \in AppReplies /\ ReplyHas(tail)
  BY DEF ReplyInv
<1>2. /\ Result(item, tail, out) /\ out.err = FALSE /\ (cut = 0 => tail = <<>>)
      /\ MatchReply(match.asked, out.objects) /\ cut \in Nat
  BY <1>1 DEF ReplyHas, CutKnown
<1>3. /\ all = [i \in 1 .. n |-> PartObject(item[i], Len(item[i].props))] /\ n \in Nat
      /\ \A i \in 1 .. n : item[i] \in AppObjects /\ Len(item[i].props) \in Nat
  BY <1>1, ObjectsRead
<1>4. all = Firsts(all, n)
  <2> HIDE DEF n
  <2>1. DOMAIN all = 1 .. n /\ all = [i \in DOMAIN all |-> all[i]]
    BY <1>3
  <2> HIDE DEF all
  <2> QED
    BY <2>1 DEF Firsts
<1>5. Len(all) = n
  <2> HIDE DEF all, n
  <2>1. Len(Firsts(all, n)) = n
    BY <1>3, FirstsAre
  <2> QED
    BY <1>4, <2>1
<1>6. Len(out.objects) = n
  BY <1>2, <1>5 DEF MatchReply
<1>7. \A i \in 1 .. n : IsPrefix(all[i].props, all[i].props)
  <2> SUFFICES ASSUME NEW i \in 1 .. n PROVE IsPrefix(all[i].props, all[i].props)
    OBVIOUS
  <2> DEFINE o == item[i]
  <2>1. o \in AppObjects /\ Len(o.props) \in 0 .. Len(o.props) /\ all[i] = PartObject(o, Len(o.props))
    BY <1>3
  <2> HIDE DEF o, all
  <2> QED
    BY <2>1, PartIsPrefix
<1> HIDE DEF all, n
<1>8. CASE out.objects = all
  <2>1. \A i \in 1 .. n :
          /\ out.objects[i].type = all[i].type /\ out.objects[i].instance = all[i].instance
          /\ out.objects[i].props = all[i].props
    BY <1>8
  <2> QED
    BY <1>6, <1>7, <1>8, <2>1
<1>9. CASE out.objects # all
  <2>1. tail # <<>> /\ PartOfReply(item, out.objects)
    <3> SUFFICES ASSUME NEW i \in 0 .. n, out.objects = Firsts(all, i)
                 PROVE  FALSE
      BY <1>2 DEF Result, all, n
    <3>1. i \in Nat /\ Len(Firsts(all, i)) = i
      BY <1>3, FirstsAre
    <3>2. i = n
      BY <1>6, <3>1
    <3> QED
      BY <1>4, <1>9, <3>2
  <2>2. cut > 0
    BY <1>2, <2>1
  <2>p. PICK i \in 1 .. n : \E j \in 0 .. Len(item[i].props) :
          out.objects = Append(Firsts(all, i - 1), PartObject(item[i], j))
    BY <2>1 DEF PartOfReply, all, n
  <2>3. PICK j \in 0 .. Len(item[i].props) :
          out.objects = Append(Firsts(all, i - 1), PartObject(item[i], j))
    BY <2>p
  <2> DEFINE a == Firsts(all, i - 1)
             e == PartObject(item[i], j)
             S == {all[k] : k \in 1 .. n} \cup {e}
  <2>4. i - 1 \in Nat /\ i - 1 <= n
    BY <1>3
  <2>5. Len(a) = i - 1 /\ \A k \in 1 .. i - 1 : a[k] = all[k]
    BY <2>4, FirstsAre
  <2>6. a \in [1 .. i - 1 -> S] /\ e \in S
    BY <1>3, <2>4 DEF Firsts
  <2> HIDE DEF a, S
  <2>7. a \in Seq(S)
    BY <2>4, <2>6
  <2> HIDE DEF e
  <2>8. Append(a, e) \in Seq(S) /\ Len(Append(a, e)) = i
        /\ \A k \in 1 .. i : Append(a, e)[k] = IF k = i THEN e ELSE a[k]
    <3>1. Len(Append(a, e)) = Len(a) + 1
          /\ \A k \in 1 .. Len(a) + 1 : Append(a, e)[k] = IF k = Len(a) + 1 THEN e ELSE a[k]
      BY <2>6, <2>7, AppendProperties
    <3>2. Len(a) + 1 = i
      BY <1>3, <2>5
    <3> QED
      BY <2>6, <2>7, <3>1, <3>2, AppendProperties
  <2>9. out.objects = Append(a, e)
    BY <2>3 DEF a, e
  <2>10. i = n
    BY <1>6, <2>8, <2>9
  <2>11. ASSUME NEW k \in 1 .. n, k # n
         PROVE  out.objects[k] = all[k]
    <3>1. k \in 1 .. i - 1 /\ k \in 1 .. i /\ k # i
      BY <1>3, <2>10, <2>11
    <3> QED
      BY <2>5, <2>8, <2>9, <3>1
  <2>12. out.objects[n] = e /\ n \in 1 .. n
    BY <2>8, <2>9, <2>10
  <2> DEFINE o == item[i]
  <2>13. o \in AppObjects /\ Len(o.props) \in Nat /\ j \in 0 .. Len(o.props)
         /\ all[n] = PartObject(o, Len(o.props))
    BY <1>3, <2>10 DEF all, n
  <2>14. /\ e.type = all[n].type /\ e.instance = all[n].instance
         /\ IsPrefix(e.props, all[n].props)
    <3>1. e = PartObject(o, j)
      BY DEF e
    <3> HIDE DEF e, o
    <3>2. e.type = o.type /\ e.instance = o.instance /\ all[n].type = o.type
          /\ all[n].instance = o.instance
      BY <2>13, <3>1 DEF PartObject
    <3> QED
      BY <2>13, <3>1, <3>2, PartIsPrefix
  <2> HIDE DEF o
  <2> SUFFICES ASSUME NEW k \in 1 .. n
               PROVE  /\ out.objects[k].type = all[k].type
                      /\ out.objects[k].instance = all[k].instance
                      /\ IsPrefix(out.objects[k].props, all[k].props)
                      /\ out.objects[k].props = all[k].props \/ (cut > 0 /\ k = n)
    BY <1>6
  <2>15. CASE k = n
    BY <2>2, <2>12, <2>14, <2>15
  <2>16. CASE k # n
    BY <1>7, <2>11, <2>16
  <2> QED
    BY <2>15, <2>16
<1> QED
  BY <1>8, <1>9

\* What was cut short is never taken for another message (CutNeverMisread), for
\* every item of every kind, every reply, every cut and every request a reply is
\* matched with.
THEOREM CutsUnderstood == Spec => []CutNeverMisread
<1>1. ReplyInv /\ PeerInv => CutRepliesTruthful
  BY CutReply DEF PeerInv
<1>2. CutPacketsTruthful /\ CutRepliesTruthful => CutNeverMisread
  BY DEF CutNeverMisread
<1> QED
  BY <1>1, <1>2, RepliesRead, PeersUnderstood, CutsNoticed, PTL

\* A round of a device that reads a request tag by tag, what it reads with, and
\* where it is when nothing was wrong.
TaggedStep(s) ==
  LET t == TagNumberAndValue(s.d)
      bool == ~IsContextSpecific(t.meta) /\ t.tag = 1
  IN  CASE s.d.buf = <<>> \/ s.err -> s
        [] s.d.buf # <<>> /\ ~s.err /\ IsClosing(t.meta) ->
              IF s.opened = <<>> THEN [s EXCEPT !.err = TRUE]
              ELSE [d |-> t.d, opened |-> Front(s.opened),
                    err |-> Last(s.opened) # t.tag]
        [] s.d.buf # <<>> /\ ~s.err /\ IsOpening(t.meta) /\ ~IsClosing(t.meta) ->
              [s EXCEPT !.d = t.d, !.opened = Append(@, t.tag)]
        [] OTHER -> [s EXCEPT !.d = Decode(t.d, IF bool THEN 0 ELSE t.v).d]
Readers == [d : Decoders, opened : Seq(Byte), err : BOOLEAN]
ReaderAt(bytes, opened) == [d |-> Good(bytes), opened |-> opened, err |-> FALSE]

\* The rounds of such a device.
Walks(n, g) == \A i \in 1 .. n : g[i] = TaggedStep(g[i - 1])

\* What such a round leads to.
Unopened(s) == [s EXCEPT !.err = TRUE]
Open(s, d, tag) == [s EXCEPT !.d = d, !.opened = Append(@, tag)]
Pass(s, d) == [s EXCEPT !.d = d]

\* A reader of requests is its three fields.
LEMMA ThreeFields ==
  ASSUME NEW y, DOMAIN y = {"d", "opened", "err"}, y = [f \in DOMAIN y |-> y[f]]
  PROVE  y = [d |-> y.d, opened |-> y.opened, err |-> y.err]
  OBVIOUS

\* The fields of a reader after each kind of step.
LEMMA StepFields ==
  ASSUME NEW s \in Readers, NEW a, NEW b
  PROVE  /\ Unopened(s) = [d |-> s.d, opened |-> s.opened, err |-> TRUE]
         /\ Open(s, a, b) = [d |-> a, opened |-> Append(s.opened, b), err |-> s.err]
         /\ Pass(s, a) = [d |-> a, opened |-> s.opened, err |-> s.err]
<1>1. DOMAIN s = {"d", "opened", "err"}
  BY DEF Readers
<1> DEFINE o == Append(s.opened, b)
           x == [s EXCEPT !.err = TRUE]
           y == [s EXCEPT !.d = a, !.opened = Append(@, b)]
           z == [s EXCEPT !.d = a]
<1>2. /\ x = [f \in DOMAIN x |-> x[f]] /\ DOMAIN x = DOMAIN s
      /\ y = [f \in DOMAIN y |-> y[f]] /\ DOMAIN y = DOMAIN s
      /\ z = [f \in DOMAIN z |-> z[f]] /\ DOMAIN z = DOMAIN s
  OBVIOUS
<1>3. x.d = s.d /\ x.opened = s.opened /\ x.err = TRUE
  BY <1>1
<1>4. y.d = a /\ y.opened = o /\ y.err = s.err
  BY <1>1
<1>5. z.d = a /\ z.opened = s.opened /\ z.err = s.err
  BY <1>1
<1> HIDE DEF x, y, z, o
<1>6. x = [d |-> x.d, opened |-> x.opened, err |-> x.err]
  BY <1>1, <1>2, ThreeFields
<1>7. y = [d |-> y.d, opened |-> y.opened, err |-> y.err]
  BY <1>1, <1>2, ThreeFields
<1>8. z = [d |-> z.d, opened |-> z.opened, err |-> z.err]
  BY <1>1, <1>2, ThreeFields
<1>9. x = [d |-> s.d, opened |-> s.opened, err |-> TRUE]
  BY <1>3, <1>6
<1>10. y = [d |-> a, opened |-> o, err |-> s.err]
  BY <1>4, <1>7
<1>11. z = [d |-> a, opened |-> s.opened, err |-> s.err]
  BY <1>5, <1>8
<1> QED
  BY <1>9, <1>10, <1>11 DEF x, y, z, o, Unopened, Open, Pass
StepTag(s) == TagNumberAndValue(s.d)
StepSize(s) ==
  IF ~IsContextSpecific(StepTag(s).meta) /\ StepTag(s).tag = 1 THEN 0 ELSE StepTag(s).v
StepForm(s, next) ==
  /\ s.d.buf = <<>> \/ s.err = TRUE => next = s
  /\ s.d.buf # <<>> /\ s.err = FALSE =>
       /\ IsClosing(StepTag(s).meta) /\ s.opened = <<>> => next = Unopened(s)
       /\ IsClosing(StepTag(s).meta) /\ s.opened # <<>> =>
            next = [d |-> StepTag(s).d, opened |-> Front(s.opened),
                    err |-> Last(s.opened) # StepTag(s).tag]
       /\ IsOpening(StepTag(s).meta) /\ ~IsClosing(StepTag(s).meta) =>
            next = Open(s, StepTag(s).d, StepTag(s).tag)
       /\ ~IsOpening(StepTag(s).meta) /\ ~IsClosing(StepTag(s).meta) =>
            next = Pass(s, Decode(StepTag(s).d, StepSize(s)).d)

\* One step of the reader, written out.
LEMMA StepIs == \A s : StepForm(s, TaggedStep(s))
<1> SUFFICES ASSUME NEW s PROVE StepForm(s, TaggedStep(s))
  OBVIOUS
<1>1. s.d.buf = <<>> \/ s.err = TRUE => TaggedStep(s) = s
  BY Zenon DEF TaggedStep
<1>2. ASSUME s.d.buf # <<>>, s.err = FALSE
      PROVE  /\ IsClosing(StepTag(s).meta) => TaggedStep(s) =
                  IF s.opened = <<>> THEN Unopened(s)
                  ELSE [d |-> StepTag(s).d, opened |-> Front(s.opened),
                        err |-> Last(s.opened) # StepTag(s).tag]
             /\ IsOpening(StepTag(s).meta) /\ ~IsClosing(StepTag(s).meta) =>
                  TaggedStep(s) = Open(s, StepTag(s).d, StepTag(s).tag)
             /\ ~IsOpening(StepTag(s).meta) /\ ~IsClosing(StepTag(s).meta) =>
                  TaggedStep(s) = Pass(s, Decode(StepTag(s).d, StepSize(s)).d)
  <2>1. s.d.buf # <<>> /\ ~s.err /\ ~(s.d.buf = <<>> \/ s.err)
    BY <1>2
  <2>2. IsClosing(StepTag(s).meta) => TaggedStep(s) =
                  IF s.opened = <<>> THEN Unopened(s)
                  ELSE [d |-> StepTag(s).d, opened |-> Front(s.opened),
                        err |-> Last(s.opened) # StepTag(s).tag]
    BY <2>1, Zenon DEF TaggedStep, Unopened, StepTag
  <2>3. IsOpening(StepTag(s).meta) /\ ~IsClosing(StepTag(s).meta) =>
          TaggedStep(s) = Open(s, StepTag(s).d, StepTag(s).tag)
    BY <2>1, Zenon DEF TaggedStep, Open, StepTag
  <2>4. ~IsOpening(StepTag(s).meta) /\ ~IsClosing(StepTag(s).meta) =>
          TaggedStep(s) = Pass(s, Decode(StepTag(s).d, StepSize(s)).d)
    BY <2>1, Zenon DEF TaggedStep, Pass, StepTag, StepSize
  <2> QED
    BY <2>2, <2>3, <2>4
<1> QED
  BY <1>1, <1>2 DEF StepForm

\* A round leads to something such a device reads with.
LEMMA StepIn == \A s \in Readers : TaggedStep(s) \in Readers
<1> SUFFICES ASSUME NEW s \in Readers PROVE TaggedStep(s) \in Readers
  OBVIOUS
<1>1. s.d \in Decoders /\ s.opened \in Seq(Byte) /\ s.err \in BOOLEAN
  BY DEF Readers
<1> DEFINE t == TagNumberAndValue(s.d)
           n == IF ~IsContextSpecific(t.meta) /\ t.tag = 1 THEN 0 ELSE t.v
           x == Decode(t.d, n).d
<1>2. t.d \in Decoders /\ t.tag \in Byte /\ t.meta \in Byte /\ t.v \in Nat
  BY <1>1, KeptTagAndValue DEF Kept
<1>3. n \in Nat
  BY <1>2
<1>4. x \in Decoders
  <2> HIDE DEF n, t
  <2> QED
    BY <1>2, <1>3, KeptDecode DEF Kept
<1>5. s.opened # <<>> => Front(s.opened) \in Seq(Byte)
  <2> SUFFICES ASSUME s.opened # <<>> PROVE Front(s.opened) \in Seq(Byte)
    OBVIOUS
  <2> DEFINE o == s.opened
  <2>1. o \in Seq(Byte) /\ Front(o) = SubSeq(o, 1, Len(o) - 1)
    BY <1>1 DEF Front
  <2> HIDE DEF o
  <2>2. SubSeq(o, 1, Len(o) - 1) \in Seq(Byte)
    BY <2>1
  <2> QED
    BY <2>1, <2>2 DEF o
<1>6. Append(s.opened, t.tag) \in Seq(Byte)
  BY <1>1, <1>2
<1>7. /\ Unopened(s) = [d |-> s.d, opened |-> s.opened, err |-> TRUE]
      /\ Open(s, t.d, t.tag) = [d |-> t.d, opened |-> Append(s.opened, t.tag), err |-> s.err]
      /\ Pass(s, x) = [d |-> x, opened |-> s.opened, err |-> s.err]
  <2> HIDE DEF x, t
  <2>1. \A a, b : /\ Unopened(s) = [d |-> s.d, opened |-> s.opened, err |-> TRUE]
                  /\ Open(s, a, b) = [d |-> a, opened |-> Append(s.opened, b), err |-> s.err]
                  /\ Pass(s, a) = [d |-> a, opened |-> s.opened, err |-> s.err]
    BY StepFields
  <2> DEFINE e == t.d
             g == t.tag
  <2>2. Open(s, e, g) = [d |-> e, opened |-> Append(s.opened, g), err |-> s.err]
    <3> HIDE DEF e, g
    <3> QED
      BY <2>1
  <2>3. Pass(s, x) = [d |-> x, opened |-> s.opened, err |-> s.err]
    BY <2>1
  <2> QED
    BY <2>1, <2>2, <2>3
<1>8. StepForm(s, TaggedStep(s)) /\ StepTag(s) = t /\ StepSize(s) = n
  BY StepIs DEF StepTag, StepSize
<1>9. Decode(StepTag(s).d, StepSize(s)).d = x
  BY <1>8
<1>10. /\ [d |-> s.d, opened |-> s.opened, err |-> TRUE] \in Readers
       /\ [d |-> t.d, opened |-> Append(s.opened, t.tag), err |-> s.err] \in Readers
       /\ [d |-> x, opened |-> s.opened, err |-> s.err] \in Readers
       /\ s.opened # <<>> =>
            [d |-> t.d, opened |-> Front(s.opened), err |-> Last(s.opened) # t.tag] \in Readers
  <2> HIDE DEF x, n, t
  <2> QED
    BY <1>1, <1>2, <1>4, <1>5, <1>6 DEF Readers
<1> HIDE DEF x, n, t
<1>11. s.err = TRUE \/ s.err = FALSE
  BY <1>1
<1> QED
  BY <1>7, <1>8, <1>9, <1>10, <1>11, Zenon DEF StepForm

\* The rounds of a device, of which there is one walk.
LEMMA WalkExists ==
  ASSUME NEW s0 \in Readers, NEW N \in Nat
  PROVE  \E g \in [0 .. N -> Readers] : g[0] = s0 /\ Walks(N, g)
<1> DEFINE bad == {k \in 0 .. N : ~\E g \in [0 .. k -> Readers] : g[0] = s0 /\ Walks(k, g)}
<1> SUFFICES ASSUME bad # {} PROVE FALSE
  OBVIOUS
<1>1. bad \subseteq Nat
  OBVIOUS
<1>2. PICK k \in bad : \A i \in bad : k <= i
  <2> HIDE DEF bad
  <2> QED
    BY <1>1, Least
<1>3. k \in 0 .. N /\ ~\E g \in [0 .. k -> Readers] : g[0] = s0 /\ Walks(k, g)
  OBVIOUS
<1>4. CASE k = 0
  <2> DEFINE g == [i \in 0 .. k |-> s0]
  <2>1. g \in [0 .. k -> Readers] /\ g[0] = s0 /\ Walks(k, g)
    BY <1>4 DEF Walks
  <2> QED
    BY <1>3, <2>1
<1>5. CASE k # 0
  <2>1. k - 1 \in 0 .. N /\ ~(k <= k - 1)
    BY <1>3, <1>5
  <2>2. k - 1 \notin bad
    <3> HIDE DEF bad
    <3> QED
      BY <1>2, <2>1
  <2>3. PICK h \in [0 .. k - 1 -> Readers] : h[0] = s0 /\ Walks(k - 1, h)
    BY <2>1, <2>2
  <2> HIDE DEF bad
  <2> DEFINE g == [i \in 0 .. k |-> IF i = k THEN TaggedStep(h[k - 1]) ELSE h[i]]
  <2>4. h[k - 1] \in Readers
    BY <1>3, <1>5, <2>3
  <2>5. TaggedStep(h[k - 1]) \in Readers
    BY <2>4, StepIn
  <2>6. g \in [0 .. k -> Readers]
    <3> SUFFICES ASSUME NEW i \in 0 .. k
                 PROVE  (IF i = k THEN TaggedStep(h[k - 1]) ELSE h[i]) \in Readers
      OBVIOUS
    <3>1. i # k => i \in 0 .. k - 1
      BY <1>3
    <3> QED
      BY <2>3, <2>5, <3>1
  <2>7. \A i \in 0 .. k : g[i] = IF i = k THEN TaggedStep(h[k - 1]) ELSE h[i]
    OBVIOUS
  <2> HIDE DEF g
  <2>8. ASSUME NEW i \in 1 .. k
        PROVE  g[i] = TaggedStep(g[i - 1])
    <3>1. i \in 0 .. k /\ i - 1 \in 0 .. k /\ i - 1 # k
      BY <1>3
    <3>2. g[i - 1] = h[i - 1]
      BY <2>7, <3>1
    <3>3. CASE i = k
      BY <2>7, <3>1, <3>2, <3>3
    <3>4. CASE i # k
      <4>1. i \in 1 .. k - 1
        BY <1>3, <3>4
      <4> QED
        BY <2>3, <2>7, <3>1, <3>2, <3>4, <4>1 DEF Walks
    <3> QED
      BY <3>3, <3>4
  <2>9. g[0] = s0 /\ Walks(k, g)
    BY <1>3, <1>5, <2>3, <2>7, <2>8 DEF Walks
  <2> QED
    BY <1>3, <2>6, <2>9
<1> QED
  BY <1>4, <1>5

\* The reader's fold is a walk of as many steps as there are bytes.
LEMMA TaggedIs ==
  ASSUME NEW b \in Bytes
  PROVE  \E f : /\ f[0] = ReaderAt(b, <<>>) /\ Walks(Len(b), f)
                /\ Tagged(Good(b)) = [err |-> f[Len(b)].err \/ f[Len(b)].d.err \/ f[Len(b)].opened # <<>>]
<1> DEFINE d == Good(b)
           s0 == [d |-> d, opened |-> <<>>, err |-> FALSE]
           N == Len(b)
           f == CHOOSE h : h = [n \in 0 .. N |-> IF n = 0 THEN s0 ELSE TaggedStep(h[n - 1])]
<1>0. d.buf = b /\ N \in Nat /\ s0 = ReaderAt(b, <<>>)
  BY NoError, LenBytes DEF ReaderAt
<1>1. Tagged(d) = [err |-> f[N].err \/ f[N].d.err \/ f[N].opened # <<>>]
  <2> DEFINE ff == CHOOSE h : h = [n \in 0 .. Len(d.buf) |-> IF n = 0 THEN s0 ELSE TaggedStep(h[n - 1])]
  <2>1. Tagged(d) = [err |-> ff[Len(d.buf)].err \/ ff[Len(d.buf)].d.err \/ ff[Len(d.buf)].opened # <<>>]
    BY Zenon DEF Tagged, TaggedStep
  <2>2. Len(d.buf) = N
    BY <1>0
  <2> HIDE DEF s0, d
  <2> QED
    BY <2>1, <2>2
<1>2. s0 \in Readers
  <2>1. d \in Decoders /\ <<>> \in Seq(Byte)
    BY DEF Decoders, Good
  <2> HIDE DEF d
  <2> QED
    BY <2>1 DEF Readers
<1> HIDE DEF s0, d, N
<1>3. PICK g \in [0 .. N -> Readers] : g[0] = s0 /\ Walks(N, g)
  BY <1>0, <1>2, WalkExists
<1>4. g = [n \in 0 .. N |-> IF n = 0 THEN s0 ELSE TaggedStep(g[n - 1])]
  <2>1. ASSUME NEW n \in 0 .. N
        PROVE  g[n] = IF n = 0 THEN s0 ELSE TaggedStep(g[n - 1])
    <3>1. n # 0 => n \in 1 .. N
      BY <1>0
    <3> QED
      BY <1>3, <3>1 DEF Walks
  <2> QED
    BY <1>3, <2>1
<1>5. f = [n \in 0 .. N |-> IF n = 0 THEN s0 ELSE TaggedStep(f[n - 1])]
  BY <1>4
<1> HIDE DEF f
<1>6. f[0] = s0 /\ Walks(N, f)
  <2>1. \A n \in 0 .. N : f[n] = IF n = 0 THEN s0 ELSE TaggedStep(f[n - 1])
    BY <1>5
  <2>2. \A n \in 1 .. N : n \in 0 .. N /\ n # 0
    BY <1>0
  <2>3. 0 \in 0 .. N
    BY <1>0
  <2> QED
    BY <2>1, <2>2, <2>3 DEF Walks
<1> QED
  BY <1>0, <1>1, <1>6 DEF d, N

\* A device passes these bytes: wherever they begin, it comes to where they end,
\* with the same tags opened.
Passed(b) ==
  \A u \in Bytes : \A o \in Seq(Byte) : \A n, N \in Nat : \A g :
    Walks(N, g) /\ g[n] = ReaderAt(b \o u, o) /\ n + Len(b) <= N =>
      \E k \in n .. n + Len(b) : g[k] = ReaderAt(u, o)

\* A request that is passed is passed in the middle of a walk.
LEMMA PassedFrom ==
  ASSUME NEW b \in Bytes, Passed(b), NEW u \in Bytes, NEW o \in Seq(Byte), NEW n \in Nat, NEW N \in Nat,
         NEW g, Walks(N, g), g[n] = ReaderAt(b \o u, o), n + Len(b) <= N
  PROVE  \E k \in n .. n + Len(b) : g[k] = ReaderAt(u, o)
  BY DEF Passed

\* A request that is passed is read without an error.
LEMMA PassedIsRead ==
  ASSUME NEW b \in Bytes, Passed(b)
  PROVE  Tagged(Good(b)).err = FALSE
<1> DEFINE N == Len(b)
           none == <<>>
           end == ReaderAt(none, none)
<1>1. PICK g : /\ g[0] = ReaderAt(b, none) /\ Walks(N, g)
               /\ Tagged(Good(b)) = [err |-> g[N].err \/ g[N].d.err \/ g[N].opened # <<>>]
  BY TaggedIs
<1>2. none \in Bytes /\ none \in Seq(Byte) /\ b \o none = b /\ N \in Nat /\ 0 \in Nat
  BY EmptySeq, ConcatEmptySeq, LenBytes DEF Bytes
<1> HIDE DEF N
<1>3. PICK k \in 0 .. N : g[k] = end
  <2>1. ASSUME NEW z \in Nat, z = 0, NEW u \in Bytes, NEW o \in Seq(Byte), g[0] = ReaderAt(b \o u, o)
        PROVE  \E k \in z .. z + Len(b) : g[k] = ReaderAt(u, o)
    <3>1. Walks(N, g) /\ g[z] = ReaderAt(b \o u, o) /\ z + Len(b) <= N
      BY <1>1, <1>2, <2>1 DEF N
    <3> QED
      BY <1>2, <3>1, PassedFrom
  <2>2. g[0] = ReaderAt(b \o none, none)
    BY <1>1, <1>2
  <2> HIDE DEF none
  <2>3. \E k \in 0 .. 0 + Len(b) : g[k] = ReaderAt(none, none)
    BY <1>2, <2>1, <2>2
  <2> QED
    BY <1>2, <2>3 DEF N
<1>4. end.d.buf = <<>> /\ end.err = FALSE /\ end.d.err = FALSE /\ end.opened = <<>>
  BY NoError DEF ReaderAt
<1> HIDE DEF end
<1>5. TaggedStep(end) = end
  BY <1>4, StepIs DEF StepForm
<1>6. g[N] = end
  <2> DEFINE bad == {i \in k .. N : g[i] # end}
  <2> SUFFICES ASSUME bad # {} PROVE FALSE
    BY <1>2, <1>3
  <2>1. bad \subseteq Nat
    BY <1>2, <1>3
  <2>2. PICK i \in bad : \A j \in bad : i <= j
    <3> HIDE DEF bad
    <3> QED
      BY <2>1, Least
  <2>3. i \in k .. N /\ g[i] # end
    OBVIOUS
  <2>4. i # k
    BY <1>3, <2>3
  <2>5. i - 1 \in k .. N /\ ~(i <= i - 1) /\ i \in 1 .. N
    BY <1>2, <1>3, <2>3, <2>4
  <2>6. i - 1 \notin bad
    <3> HIDE DEF bad
    <3> QED
      BY <2>2, <2>5
  <2>7. g[i - 1] = end
    BY <2>5, <2>6
  <2>8. g[i] = TaggedStep(g[i - 1])
    BY <1>1, <2>5 DEF Walks
  <2> QED
    BY <1>5, <2>3, <2>7, <2>8
<1>7. g[N].err = FALSE /\ g[N].d.err = FALSE /\ g[N].opened = <<>>
  BY <1>4, <1>6
<1> DEFINE e == g[N].err \/ g[N].d.err \/ g[N].opened # <<>>
<1>8. Tagged(Good(b)) = [err |-> e] /\ e = FALSE
  BY <1>1, <1>7
<1> HIDE DEF e
<1> QED
  BY <1>8

\* Nothing is passed, one piece after another, and what a single round passes.
LEMMA PassedNone == <<>> \in Bytes /\ Passed(<<>>)
<1>1. <<>> \in Bytes /\ Len(<<>>) = 0
  BY EmptySeq DEF Bytes
<1> SUFFICES ASSUME NEW u \in Bytes, NEW o \in Seq(Byte), NEW n \in Nat, NEW N \in Nat, NEW g,
                    g[n] = ReaderAt(<<>> \o u, o)
             PROVE  \E k \in n .. n + Len(<<>>) : g[k] = ReaderAt(u, o)
  BY <1>1 DEF Passed
<1>2. <<>> \o u = u
  BY ConcatEmptySeq DEF Bytes
<1>3. n \in n .. n + Len(<<>>)
  BY <1>1
<1> QED
  BY <1>2, <1>3

\* Two parts that are passed are passed one behind the other.
LEMMA PassedBoth ==
  \A a, b : a \in Bytes /\ b \in Bytes /\ Passed(a) /\ Passed(b) => a \o b \in Bytes /\ Passed(a \o b)
<1> SUFFICES ASSUME NEW a \in Bytes, NEW b \in Bytes, Passed(a), Passed(b)
             PROVE  a \o b \in Bytes /\ Passed(a \o b)
  OBVIOUS
<1>1. a \o b \in Bytes /\ Len(a \o b) = Len(a) + Len(b) /\ Len(a) \in Nat /\ Len(b) \in Nat
  BY JoinAt, LenBytes
<1> SUFFICES ASSUME NEW u \in Bytes, NEW o \in Seq(Byte), NEW n \in Nat, NEW N \in Nat, NEW g,
                    Walks(N, g), g[n] = ReaderAt((a \o b) \o u, o), n + Len(a \o b) <= N
             PROVE  \E k \in n .. n + Len(a \o b) : g[k] = ReaderAt(u, o)
  BY <1>1 DEF Passed
<1>2. (a \o b) \o u = a \o (b \o u) /\ b \o u \in Bytes
  BY Append3, AppendIn
<1> DEFINE v == b \o u
<1>3. g[n] = ReaderAt(a \o v, o) /\ n + Len(a) <= N
  BY <1>1, <1>2
<1>4. v \in Bytes
  BY <1>2
<1> HIDE DEF v
<1>5. PICK k \in n .. n + Len(a) : g[k] = ReaderAt(v, o)
  BY <1>3, <1>4 DEF Passed
<1>6. k \in Nat /\ k + Len(b) <= N
  BY <1>1, <1>5
<1>7. g[k] = ReaderAt(b \o u, o)
  BY <1>5 DEF v
<1>8. PICK m \in k .. k + Len(b) : g[m] = ReaderAt(u, o)
  BY <1>6, <1>7 DEF Passed
<1>9. m \in n .. n + Len(a \o b)
  BY <1>1, <1>5, <1>6, <1>8
<1> QED
  BY <1>8, <1>9

\* What one step passes is passed.
LEMMA PassedOnce ==
  ASSUME NEW b \in Bytes, b # <<>>,
         \A u \in Bytes : \A o \in Seq(Byte) : TaggedStep(ReaderAt(b \o u, o)) = ReaderAt(u, o)
  PROVE  Passed(b)
<1>1. Len(b) \in Nat /\ Len(b) # 0
  BY EmptySeq, LenBytes DEF Bytes
<1> SUFFICES ASSUME NEW u \in Bytes, NEW o \in Seq(Byte), NEW n \in Nat, NEW N \in Nat, NEW g,
                    Walks(N, g), g[n] = ReaderAt(b \o u, o), n + Len(b) <= N
             PROVE  \E k \in n .. n + Len(b) : g[k] = ReaderAt(u, o)
  BY DEF Passed
<1>2. n + 1 \in n .. n + Len(b) /\ n + 1 \in 1 .. N /\ (n + 1) - 1 = n
  BY <1>1
<1>3. g[n + 1] = TaggedStep(g[n])
  BY <1>2 DEF Walks
<1> QED
  BY <1>2, <1>3

\* A tag and the value it announces are passed in one round, as such and as
\* application data but for the boolean, whose value is in the tag.
LEMMA TagBehind ==
  \A num \in 0 .. 14, context \in BOOLEAN, n \in Nat : \A v, u \in Bytes : n < LongLength =>
    /\ Tag(num, context, n) \o v \in Bytes /\ Tag(num, context, n) \o v # <<>>
    /\ LET t == TagNumberAndValue(Good((Tag(num, context, n) \o v) \o u))
       IN  /\ t = [d |-> Good(v \o u), tag |-> num, meta |-> Meta(TagLow(context, n), num), v |-> n]
           /\ v \o u \in Bytes
<1> SUFFICES ASSUME NEW num \in 0 .. 14, NEW context \in BOOLEAN, NEW n \in Nat, NEW v \in Bytes,
                    NEW u \in Bytes, n < LongLength
             PROVE
    /\ Tag(num, context, n) \o v \in Bytes /\ Tag(num, context, n) \o v # <<>>
    /\ LET t == TagNumberAndValue(Good((Tag(num, context, n) \o v) \o u))
       IN  /\ t = [d |-> Good(v \o u), tag |-> num, meta |-> Meta(TagLow(context, n), num), v |-> n]
           /\ v \o u \in Bytes
  OBVIOUS
<1> DEFINE h == Tag(num, context, n)
           meta == Meta(TagLow(context, n), num)
           z == v \o u
           t == TagNumberAndValue(Good((h \o v) \o u))
<1>1. num \in Byte
  BY DEF Byte
<1>2. z \in Bytes
  BY AppendIn
<1> HIDE DEF z
<1>3. h \in Bytes /\ TagNumberAndValue(Good(h \o z)) = [d |-> Good(z), tag |-> num, meta |-> meta, v |-> n]
  BY <1>1, <1>2, TagRead
<1>4. TagLow(context, n) \in 0 .. 15
  BY <1>1, <1>2, TagRead
<1>5. h # <<>>
  <2> DEFINE low == TagLow(context, n)
  <2>1. TagByte(low, num) \in Bytes /\ Len(TagByte(low, num)) \in 1 .. 2
    BY <1>1, <1>4, TagByteBytes
  <2>3. low \in 0 .. 15 /\ low % 8 = IF n <= 4 THEN n ELSE 5
    BY <1>4 DEF TagLow
  <2>4. Extended(n) \in Bytes
    <3> HIDE DEF low
    <3> QED
      BY <1>1, <1>2, <2>3, ExtendedRead
  <2> DEFINE a == TagByte(low, num)
             e == Extended(n)
  <2>5. a \in Bytes /\ e \in Bytes /\ Len(a) \in 1 .. 2
    BY <2>1, <2>4
  <2>2. h = a \o e
    BY DEF Tag
  <2> HIDE DEF a, e, h
  <2>6. Len(a \o e) = Len(a) + Len(e) /\ Len(e) \in Nat
    BY <2>5, JoinAt, LenBytes
  <2>7. Len(h) # 0
    BY <2>2, <2>5, <2>6
  <2> QED
    BY <2>7, EmptySeq
<1> HIDE DEF h, meta
<1>6. h \o v \in Bytes /\ (h \o v) \o u = h \o z
  <2>1. (h \o v) \o u = h \o (v \o u)
    BY <1>3, Append3
  <2> QED
    BY <1>3, <2>1, AppendIn DEF z
<1>7. h \o v # <<>>
  <2>1. Len(h \o v) = Len(h) + Len(v) /\ Len(v) \in Nat /\ Len(h) \in Nat
    BY <1>3, JoinAt, LenBytes
  <2>2. Len(h) # 0
    BY <1>3, <1>5, EmptySeq DEF Bytes
  <2>3. Len(h \o v) # 0
    BY <2>1, <2>2
  <2> QED
    BY <2>3, EmptySeq
<1>8. t = [d |-> Good(z), tag |-> num, meta |-> meta, v |-> n]
  BY <1>3, <1>6
<1> QED
  BY <1>2, <1>6, <1>7, <1>8 DEF h, meta, z

\* A tag with the bytes it announces is passed.
LEMMA PassedTag ==
  ASSUME NEW num \in 0 .. 14, NEW context \in BOOLEAN, NEW n \in Nat, n < LongLength, NEW v \in Bytes,
         Len(v) = IF ~context /\ num = 1 THEN 0 ELSE n
  PROVE  Tag(num, context, n) \o v \in Bytes /\ Passed(Tag(num, context, n) \o v)
<1> DEFINE b == Tag(num, context, n) \o v
           low == TagLow(context, n)
           meta == Meta(low, num)
<1>0. <<>> \in Bytes /\ num \in Byte
  BY EmptySeq DEF Bytes, Byte
<1>1. b \in Bytes /\ b # <<>>
  BY <1>0, TagBehind
<1>2. low \in 0 .. 15
  BY <1>0, TagRead
<1>3. low % 8 \notin {6, 7} /\ low % 8 # 7 /\ (low >= 8) = context
  BY <1>2 DEF TagLow
<1> HIDE DEF low
<1>4. IsContextSpecific(meta) = context /\ ~IsOpening(meta) /\ ~IsClosing(meta)
  <2>1. /\ IsContextSpecific(meta) = (low >= 8) /\ IsOpening(meta) = (low % 8 \in {6, 7})
        /\ IsClosing(meta) = (low % 8 = 7)
    BY <1>0, <1>2, MetaBits
  <2> HIDE DEF meta
  <2> QED
    BY <1>2, <1>3, <2>1
<1> HIDE DEF meta
<1>5. ASSUME NEW u \in Bytes, NEW o \in Seq(Byte)
      PROVE  TaggedStep(ReaderAt(b \o u, o)) = ReaderAt(u, o)
  <2> DEFINE s == ReaderAt(b \o u, o)
             d == Good(b \o u)
             z == v \o u
  <2>1. StepTag(s) = TagNumberAndValue(d) /\ s.d = d /\ s.err = FALSE /\ s.opened = o
    BY DEF ReaderAt, StepTag
  <2>2. TagNumberAndValue(d) = [d |-> Good(z), tag |-> num, meta |-> meta, v |-> n] /\ z \in Bytes
    BY TagBehind DEF meta, low
  <2>3. d.buf # <<>>
    <3> HIDE DEF b
    <3>1. Len(b \o u) = Len(b) + Len(u) /\ Len(b) \in Nat /\ Len(u) \in Nat
      BY <1>1, JoinAt, LenBytes
    <3>2. Len(b) # 0
      BY <1>1, EmptySeq DEF Bytes
    <3>3. Len(b \o u) # 0
      BY <3>1, <3>2
    <3>4. d.buf = b \o u
      BY NoError
    <3> QED
      BY <3>3, <3>4, EmptySeq
  <2>4. s \in Readers
    <3>1. b \o u \in Bytes
      <4> HIDE DEF b
      <4> QED
        BY <1>1, AppendIn
    <3>2. d \in Decoders
      BY <3>1 DEF Decoders, Good
    <3> HIDE DEF d
    <3> QED
      BY <3>2 DEF Readers, ReaderAt, d
  <2>5. StepForm(s, TaggedStep(s))
    BY StepIs
  <2>6. ReaderAt(u, o) = [d |-> Good(u), opened |-> o, err |-> FALSE]
    BY DEF ReaderAt
  <2> HIDE DEF s, d, b
  <2>7. /\ StepTag(s).d = Good(z) /\ StepTag(s).tag = num /\ StepTag(s).meta = meta
        /\ StepTag(s).v = n
    BY <2>1, <2>2
  <2>8. StepSize(s) = Len(v)
    BY <1>4, <2>7 DEF StepSize
  <2>9. TaggedStep(s) = Pass(s, Decode(Good(z), Len(v)).d)
    BY <1>4, <2>1, <2>3, <2>5, <2>7, <2>8 DEF StepForm
  <2>10. Decode(Good(z), Len(v)).d = Good(u)
    <3>1. Decode(Good(v \o u), Len(v)) = [d |-> Good(u), v |-> v]
      BY ReadFront
    <3> QED
      BY <3>1
  <2>11. TaggedStep(s) = Pass(s, Good(u))
    BY <2>9, <2>10
  <2>12. \A a, c : Pass(s, a) = [d |-> a, opened |-> s.opened, err |-> s.err]
    BY <2>4, StepFields
  <2> QED
    BY <2>1, <2>6, <2>11, <2>12 DEF s
<1> HIDE DEF b
<1>6. Passed(b)
  BY <1>1, <1>5, PassedOnce
<1> QED
  BY <1>1, <1>6 DEF b

\* A tag that opens and one that closes are read in a round each.
LEMMA LastOpened ==
  \A o \in Seq(Byte) : \A e \in Byte :
    /\ Append(o, e) \in Seq(Byte) /\ Append(o, e) # <<>>
    /\ Front(Append(o, e)) = o /\ Last(Append(o, e)) = e
<1> SUFFICES ASSUME NEW o \in Seq(Byte), NEW e \in Byte
             PROVE  /\ Append(o, e) \in Seq(Byte) /\ Append(o, e) # <<>>
                    /\ Front(Append(o, e)) = o /\ Last(Append(o, e)) = e
  OBVIOUS
<1> DEFINE a == Append(o, e)
           n == Len(o)
<1>1. a \in Seq(Byte) /\ Len(a) = n + 1 /\ n \in Nat /\ a[n + 1] = e /\ \A i \in 1 .. n : a[i] = o[i]
  BY AppendProperties, LenProperties
<1> HIDE DEF a
<1>2. SubSeq(a, 1, n) = o
  BY <1>1
<1>3. Last(a) = e
  BY <1>1 DEF Last
<1>4. Front(a) = o
  <2>1. Len(a) - 1 = n
    BY <1>1
  <2> HIDE DEF n
  <2> QED
    BY <1>2, <2>1 DEF Front
<1>5. a # <<>>
  BY <1>1, EmptySeq
<1> QED
  BY <1>1, <1>3, <1>4, <1>5 DEF a

\* What is read of a tag without a value.
PlainAt(s, u, o, num, meta) ==
  /\ s \in Readers /\ s.d.buf # <<>> /\ s.err = FALSE /\ s.opened = o
  /\ StepTag(s).d = Good(u) /\ StepTag(s).tag = num
  /\ StepTag(s).meta = meta

\* An opening or closing tag has a number and no length.
LEMMA PlainTag ==
  \A low \in {14, 15} : \A num \in 0 .. 14 : \A u \in Bytes : \A o \in Seq(Byte) :
    PlainAt(ReaderAt(TagByte(low, num) \o u, o), u, o, num, Meta(low, num))
<1> SUFFICES ASSUME NEW low \in {14, 15}, NEW num \in 0 .. 14, NEW u \in Bytes, NEW o \in Seq(Byte)
             PROVE  PlainAt(ReaderAt(TagByte(low, num) \o u, o), u, o, num, Meta(low, num))
  OBVIOUS
<1> DEFINE h == TagByte(low, num)
           d == Good(h \o u)
           s == ReaderAt(h \o u, o)
           meta == Meta(low, num)
<1>0. num \in Byte /\ low \in 0 .. 15 /\ low % 8 \in {6, 7}
  BY DEF Byte
<1>1. h \in Bytes /\ Len(h) \in 1 .. 2
  BY <1>0, TagByteBytes
<1>2. TagNumber(d) = [d |-> Good(u), tag |-> num, meta |-> meta]
  BY <1>0, ReadTagNumber
<1>3. meta \in Byte /\ meta % 8 = low % 8
  BY <1>0, MetaBits
<1> HIDE DEF h, meta
<1>4. h \o u \in Bytes /\ Len(h \o u) = Len(h) + Len(u) /\ Len(u) \in Nat
  BY <1>1, JoinAt, LenBytes
<1>5. h \o u # <<>>
  <2> DEFINE w == h \o u
             a == Len(h)
             c == Len(u)
  <2>1. Len(w) = a + c /\ a \in 1 .. 2 /\ c \in Nat
    BY <1>1, <1>4
  <2> HIDE DEF w, a, c
  <2>2. Len(w) # 0
    BY <2>1
  <2>3. w # <<>>
    BY <2>2, EmptySeq
  <2> QED
    BY <2>3 DEF w
<1>6. d.buf = h \o u /\ d \in Decoders
  BY <1>4, NoError DEF Decoders, Good
<1>7. s.d = d /\ s.err = FALSE /\ s.opened = o /\ s \in Readers
  <2> HIDE DEF d
  <2>1. s = [d |-> d, opened |-> o, err |-> FALSE]
    BY DEF ReaderAt, d
  <2> HIDE DEF s
  <2> QED
    BY <1>6, <2>1 DEF Readers
<1> HIDE DEF d
<1>8. TagNumber(d).d = Good(u) /\ TagNumber(d).tag = num /\ TagNumber(d).meta = meta
  BY <1>2
<1>9. TagNumber(d).meta \in Nat /\ TagNumber(d).meta % 8 # 5
  <2>1. meta \in Nat /\ meta % 8 # 5
    BY <1>0, <1>3 DEF Byte
  <2> QED
    BY <1>8, <2>1
<1> DEFINE x == TagNumberAndValue(d)
<1>10. x.d = TagNumber(d).d /\ x.tag = TagNumber(d).tag /\ x.meta = TagNumber(d).meta
  BY <1>9, TagAndValue
<1> HIDE DEF x, s
<1>11. StepTag(s) = x
  BY <1>7 DEF StepTag, x
<1>12. PlainAt(s, u, o, num, meta)
  BY <1>5, <1>6, <1>7, <1>8, <1>10, <1>11 DEF PlainAt
<1> QED
  BY <1>12 DEF s, h, meta

\* An opening tag is put on those that are open.
LEMMA StepOpen ==
  ASSUME NEW num \in 0 .. 14, NEW u \in Bytes, NEW o \in Seq(Byte)
  PROVE  TaggedStep(ReaderAt(OpeningTag(num) \o u, o)) = ReaderAt(u, Append(o, num))
<1> DEFINE low == 14
           s == ReaderAt(TagByte(low, num) \o u, o)
           meta == Meta(low, num)
<1>0. num \in Byte /\ low \in 0 .. 15 /\ low \in {14, 15} /\ low % 8 = 6
  BY DEF Byte
<1>1. OpeningTag(num) = TagByte(low, num)
  BY DEF OpeningTag
<1> HIDE DEF low
<1>2. /\ s \in Readers /\ s.d.buf # <<>> /\ s.err = FALSE /\ s.opened = o
      /\ StepTag(s).d = Good(u) /\ StepTag(s).tag = num /\ StepTag(s).meta = meta
  <2>1. PlainAt(s, u, o, num, meta)
    BY <1>0, PlainTag
  <2> HIDE DEF s, meta
  <2> QED
    BY <2>1 DEF PlainAt
<1>3. IsOpening(meta) /\ ~IsClosing(meta)
  <2>1. IsOpening(meta) = (low % 8 \in {6, 7}) /\ IsClosing(meta) = (low % 8 = 7)
    BY <1>0, MetaBits
  <2> HIDE DEF meta
  <2>2. low % 8 \in {6, 7} /\ low % 8 # 7
    BY <1>0
  <2> QED
    BY <2>1, <2>2, Zenon
<1> HIDE DEF meta, s
<1>4. TaggedStep(s) = Open(s, Good(u), num)
  BY <1>2, <1>3, StepIs DEF StepForm
<1>5. Open(s, Good(u), num) = [d |-> Good(u), opened |-> Append(o, num), err |-> FALSE]
  BY <1>2, StepFields
<1> QED
  BY <1>1, <1>4, <1>5 DEF s, ReaderAt

\* A closing tag takes the last one that is open.
LEMMA StepClose ==
  ASSUME NEW num \in 0 .. 14, NEW u \in Bytes, NEW o \in Seq(Byte)
  PROVE  TaggedStep(ReaderAt(ClosingTag(num) \o u, Append(o, num))) = ReaderAt(u, o)
<1> DEFINE low == 15
           p == Append(o, num)
           s == ReaderAt(TagByte(low, num) \o u, p)
           meta == Meta(low, num)
<1>0. num \in Byte /\ low \in 0 .. 15 /\ low \in {14, 15} /\ low % 8 = 7
  BY DEF Byte
<1>1. ClosingTag(num) = TagByte(low, num)
  BY DEF ClosingTag
<1>p. p \in Seq(Byte) /\ p # <<>> /\ Front(p) = o /\ Last(p) = num
  BY <1>0, LastOpened
<1> HIDE DEF low, p
<1>2. /\ s \in Readers /\ s.d.buf # <<>> /\ s.err = FALSE /\ s.opened = p
      /\ StepTag(s).d = Good(u) /\ StepTag(s).tag = num /\ StepTag(s).meta = meta
  <2>1. PlainAt(s, u, p, num, meta)
    BY <1>0, <1>p, PlainTag
  <2> HIDE DEF s, meta
  <2> QED
    BY <2>1 DEF PlainAt
<1>3. IsClosing(meta)
  <2>1. IsClosing(meta) = (low % 8 = 7)
    BY <1>0, MetaBits
  <2> HIDE DEF meta
  <2> QED
    BY <1>0, <2>1, Zenon
<1> HIDE DEF meta, s
<1>4. TaggedStep(s) = [d |-> Good(u), opened |-> o, err |-> FALSE]
  <2>1. TaggedStep(s) = [d |-> StepTag(s).d, opened |-> Front(s.opened),
                         err |-> Last(s.opened) # StepTag(s).tag]
    BY <1>2, <1>3, <1>p, StepIs DEF StepForm
  <2>2. (Last(s.opened) # StepTag(s).tag) = FALSE
    BY <1>2, <1>p
  <2>3. Front(s.opened) = o
    BY <1>2, <1>p
  <2> QED
    BY <1>2, <2>1, <2>2, <2>3
<1> QED
  BY <1>1, <1>4 DEF s, p, ReaderAt

\* What is between two tags is passed with them,
LEMMA PassedBrackets ==
  ASSUME NEW num \in 0 .. 14, NEW b \in Bytes, Passed(b)
  PROVE  /\ OpeningTag(num) \o b \o ClosingTag(num) \in Bytes
         /\ Passed(OpeningTag(num) \o b \o ClosingTag(num))
<1> DEFINE open == OpeningTag(num)
           close == ClosingTag(num)
           w == (open \o b) \o close
<1>1. open \in Bytes /\ close \in Bytes /\ Len(open) \in 1 .. 2 /\ Len(close) \in 1 .. 2
  <2> DEFINE l == 14
             m == 15
  <2>1. num \in Byte /\ l \in 0 .. 15 /\ m \in 0 .. 15
    BY DEF Byte
  <2>2. open = TagByte(l, num) /\ close = TagByte(m, num)
    BY DEF OpeningTag, ClosingTag
  <2> HIDE DEF l, m, open, close
  <2> QED
    BY <2>1, <2>2, TagByteBytes
<1>2. /\ \A u \in Bytes : \A o \in Seq(Byte) :
           TaggedStep(ReaderAt(open \o u, o)) = ReaderAt(u, Append(o, num))
      /\ \A u \in Bytes : \A o \in Seq(Byte) :
           TaggedStep(ReaderAt(close \o u, Append(o, num))) = ReaderAt(u, o)
  BY StepOpen, StepClose
<1> HIDE DEF open, close
<1>3. open \o b \in Bytes /\ Len(open \o b) = Len(open) + Len(b) /\ Len(b) \in Nat
  BY <1>1, JoinAt, LenBytes
<1>4. w \in Bytes /\ Len(w) = Len(open) + Len(b) + Len(close)
  BY <1>1, <1>3, JoinAt
<1> DEFINE a == Len(open)
           c == Len(b)
           e == Len(close)
<1>5. Len(w) = a + c + e /\ a \in 1 .. 2 /\ c \in Nat /\ e \in 1 .. 2 /\ c = Len(b)
  BY <1>1, <1>3, <1>4
<1>6. ASSUME NEW z \in Bytes
      PROVE  (open \o b) \o z = open \o (b \o z) /\ b \o z \in Bytes
  BY <1>1, Append3, AppendIn
<1>7. ASSUME NEW u \in Bytes
      PROVE  w \o u = (open \o b) \o (close \o u) /\ close \o u \in Bytes
  <2> DEFINE f == open \o b
  <2>1. f \in Bytes /\ w = f \o close
    BY <1>3
  <2> HIDE DEF f, w
  <2>2. (f \o close) \o u = f \o (close \o u) /\ close \o u \in Bytes
    BY <1>1, <2>1, Append3, AppendIn
  <2> QED
    BY <2>1, <2>2 DEF f
<1> HIDE DEF a, c, e, w
<1>8. Passed(w)
  <2> SUFFICES ASSUME NEW u \in Bytes, NEW o \in Seq(Byte), NEW n \in Nat, NEW N \in Nat, NEW g,
                      Walks(N, g), g[n] = ReaderAt(w \o u, o), n + Len(w) <= N
               PROVE  \E k \in n .. n + Len(w) : g[k] = ReaderAt(u, o)
    BY DEF Passed
  <2> DEFINE z == close \o u
             y == b \o z
             p == Append(o, num)
             m == n + 1
  <2>1. z \in Bytes /\ w \o u = (open \o b) \o z
    BY <1>7
  <2> HIDE DEF z
  <2>2. w \o u = open \o y /\ y \in Bytes
    BY <1>6, <2>1
  <2>4. num \in Byte /\ p \in Seq(Byte)
    <3>1. num \in Byte
      BY DEF Byte
    <3> QED
      BY <3>1
  <2> DEFINE l == Len(w)
  <2>5. l \in Nat /\ l = a + c + e /\ n + l <= N
    BY <1>5
  <2> HIDE DEF l
  <2>6. m \in 1 .. N /\ m - 1 = n /\ m \in Nat /\ m + c <= N
    BY <1>5, <2>5
  <2> HIDE DEF p
  <2>7. g[m] = ReaderAt(y, p)
    <3>1. g[m] = TaggedStep(g[n])
      <4> HIDE DEF m
      <4>1. g[m] = TaggedStep(g[m - 1])
        BY <2>6 DEF Walks
      <4> QED
        BY <2>6, <4>1
    <3>2. g[n] = ReaderAt(open \o y, o)
      BY <2>2
    <3> HIDE DEF y, m
    <3> QED
      BY <1>2, <2>2, <3>1, <3>2 DEF p
  <2> HIDE DEF m
  <2>8. PICK k \in m .. m + c : g[k] = ReaderAt(z, p)
    <3>1. m + Len(b) <= N /\ g[m] = ReaderAt(b \o z, p)
      BY <1>5, <2>6, <2>7
    <3>2. ASSUME NEW i \in Nat, NEW x \in Bytes, NEW t \in Seq(Byte), g[i] = ReaderAt(b \o x, t),
                 i + Len(b) <= N
          PROVE  \E k \in i .. i + Len(b) : g[k] = ReaderAt(x, t)
      BY <3>2, PassedFrom
    <3> HIDE DEF y
    <3>3. \E k \in m .. m + Len(b) : g[k] = ReaderAt(z, p)
      BY <2>1, <2>4, <2>6, <3>1, <3>2
    <3> QED
      BY <1>5, <3>3
  <2> DEFINE q == k + 1
  <2>9. q \in 1 .. N /\ q - 1 = k /\ q \in n .. n + l
    BY <1>5, <2>5, <2>6, <2>8 DEF m
  <2> HIDE DEF q
  <2>10. g[q] = TaggedStep(ReaderAt(z, p))
    BY <2>8, <2>9 DEF Walks
  <2>11. TaggedStep(ReaderAt(z, p)) = ReaderAt(u, o)
    BY <1>2 DEF z, p
  <2> QED
    BY <2>9, <2>10, <2>11 DEF l
<1>9. open \o b \o close = w
  BY DEF w
<1> QED
  BY <1>4, <1>8, <1>9 DEF open, close

\* and sequences of pieces one after another.
LEMMA PassedFlat ==
  ASSUME NEW seqs \in Seq(Bytes), \A i \in 1 .. Len(seqs) : Passed(seqs[i])
  PROVE  FlattenSeq(seqs) \in Bytes /\ Passed(FlattenSeq(seqs))
<1> DEFINE n == Len(seqs)
<1>1. n \in Nat /\ \A i \in 1 .. n : seqs[i] \in Bytes
  BY ElementOfSeq, LenProperties
<1>2. PICK rest : RestsOf(Byte, seqs, rest)
  BY Flattened DEF Bytes
<1>3. /\ \A k \in 0 .. n : rest[k] \in Bytes
      /\ rest[0] = FlattenSeq(seqs) /\ rest[n] = <<>>
      /\ \A k \in 1 .. n : rest[k - 1] = seqs[k] \o rest[k]
  BY <1>2 DEF RestsOf, Bytes
<1> DEFINE bad == {k \in 0 .. n : ~Passed(rest[n - k])}
<1>4. bad = {}
  <2> SUFFICES ASSUME bad # {} PROVE FALSE
    OBVIOUS
  <2>1. bad \subseteq Nat
    OBVIOUS
  <2>2. PICK k \in bad : \A i \in bad : k <= i
    <3> HIDE DEF bad
    <3> QED
      BY <2>1, Least
  <2>3. k \in 0 .. n /\ ~Passed(rest[n - k])
    OBVIOUS
  <2> HIDE DEF n
  <2>4. k # 0
    BY <1>1, <1>3, <2>3, PassedNone
  <2>5. k - 1 \in 0 .. n /\ ~(k <= k - 1)
    BY <1>1, <2>3, <2>4
  <2>6. k - 1 \notin bad
    <3> HIDE DEF bad
    <3> QED
      BY <2>2, <2>5
  <2>7. Passed(rest[n - (k - 1)])
    BY <2>5, <2>6
  <2> HIDE DEF bad
  <2> DEFINE m == n - (k - 1)
  <2>8. m \in 1 .. n /\ m - 1 = n - k /\ m \in 0 .. n
    BY <1>1, <2>3, <2>4
  <2>9. rest[m - 1] = seqs[m] \o rest[m] /\ seqs[m] \in Bytes /\ rest[m] \in Bytes
        /\ Passed(seqs[m]) /\ Passed(rest[m])
    <3>1. Passed(rest[m])
      BY <2>7
    <3> HIDE DEF m
    <3> QED
      BY <1>1, <1>3, <2>8, <3>1 DEF n
  <2>10. Passed(rest[m - 1])
    <3> HIDE DEF m
    <3> QED
      BY <2>9, PassedBoth
  <2> QED
    BY <2>3, <2>8, <2>10
<1>5. n \notin bad /\ n \in 0 .. n /\ n - n = 0
  <2> HIDE DEF bad
  <2> QED
    BY <1>1, <1>4
<1>6. Passed(rest[0])
  BY <1>5
<1>7. rest[0] \in Bytes
  BY <1>1, <1>3
<1> QED
  BY <1>3, <1>6, <1>7

\* Bytes that a device passes.
Piece(b) == b \in Bytes /\ Passed(b)

\* Nothing is a piece, and so are two pieces one after the other.
LEMMA PieceNone == Piece(<<>>)
  BY PassedNone DEF Piece

\* Two pieces one after the other are one.
LEMMA PieceBoth == \A a, b : Piece(a) /\ Piece(b) => Piece(a \o b)
  BY PassedBoth DEF Piece

\* A piece between the tags that open and close is one.
LEMMA PieceBetween ==
  \A num \in 0 .. 14 : \A b : Piece(b) => Piece(OpeningTag(num) \o b \o ClosingTag(num))
<1> SUFFICES ASSUME NEW num \in 0 .. 14, NEW b, Piece(b)
             PROVE  Piece(OpeningTag(num) \o b \o ClosingTag(num))
  OBVIOUS
<1>1. b \in Bytes /\ Passed(b)
  BY DEF Piece
<1> QED
  BY <1>1, PassedBrackets DEF Piece

\* A tag with the bytes of its length is one.
LEMMA PieceTag ==
  \A num \in 0 .. 14, context \in BOOLEAN, n \in Nat : \A v \in Bytes :
    n < LongLength /\ Len(v) = (IF ~context /\ num = 1 THEN 0 ELSE n)
      => Piece(Tag(num, context, n) \o v)
  BY PassedTag DEF Piece

\* Of the values written, all but a double have the bytes their tag says.
LEMMA DataLength ==
  \A x \in AppValues : x.t # "double" => Len(DataOf(x)) = IF TagOf(x) = 1 THEN 0 ELSE SizeOf(x)
<1> SUFFICES ASSUME NEW x \in AppValues, x.t # "double"
             PROVE  Len(DataOf(x)) = IF TagOf(x) = 1 THEN 0 ELSE SizeOf(x)
  OBVIOUS
<1>0. Len(<<>>) = 0
  OBVIOUS
<1>1. CASE x.t \in {"uint", "int", "enum"}
  <2>1. x.v \in Word
    BY <1>1 DEF AppValues, Null
  <2>2. Len(Unsigned(x.v)) = ValueLength(x.v)
    BY <2>1, UnsignedBytes
  <2>3. TagOf(x) # 1 /\ SizeOf(x) = ValueLength(x.v) /\ DataOf(x) = Unsigned(x.v)
    BY <1>1 DEF TagOf, SizeOf, DataOf
  <2> QED
    BY <2>2, <2>3
<1>2. CASE x.t = "real"
  <2>1. Len(x.v) = 4
    BY <1>2, WordBytes DEF AppValues, Null
  <2>2. TagOf(x) = 4 /\ SizeOf(x) = 4 /\ DataOf(x) = x.v
    BY <1>2 DEF TagOf, SizeOf, DataOf
  <2> QED
    BY <2>1, <2>2
<1>3. CASE x.t = "bool"
  <2>1. TagOf(x) = 1 /\ DataOf(x) = <<>>
    BY <1>3 DEF TagOf, DataOf
  <2> QED
    BY <1>0, <2>1
<1>4. CASE x.t = "null"
  <2>1. TagOf(x) = 0 /\ DataOf(x) = <<>> /\ SizeOf(x) = 0
    BY <1>4 DEF TagOf, DataOf, SizeOf
  <2> QED
    BY <1>0, <2>1
<1>5. CASE x.t = "string"
  <2>1. x.v \in Bytes
    BY <1>5 DEF AppValues, Null, Bytes
  <2> DEFINE v == x.v
             h == <<0>>
  <2>2. TagOf(x) = 7 /\ DataOf(x) = h \o v /\ SizeOf(x) = Len(v) + 1
    BY <1>5 DEF TagOf, DataOf, SizeOf
  <2>3. h \in Bytes /\ Len(h) = 1
    <3>1. 0 \in Byte
      BY DEF Byte
    <3> QED
      BY <3>1 DEF Bytes
  <2>4. v \in Bytes
    BY <2>1
  <2> HIDE DEF v, h
  <2>5. Len(h \o v) = 1 + Len(v) /\ Len(v) \in Nat
    BY <2>3, <2>4, JoinAt, LenBytes
  <2> QED
    BY <2>2, <2>5
<1>6. CASE x.t = "objectid"
  <2>1. x.v \in (0 .. MaxObject) \X (0 .. MaxInstance)
    BY <1>6 DEF AppValues, Null
  <2>2. x.v[1] \in 0 .. MaxObject /\ x.v[2] \in 0 .. MaxInstance
    BY <2>1
  <2>3. x.v[1] \in Nat /\ x.v[1] <= MaxObject /\ x.v[2] \in Nat /\ x.v[2] <= MaxInstance
    BY <2>2, Largest
  <2>4. <<>> \in Bytes
    BY EmptySeq DEF Bytes
  <2>5. Len(ObjectId(x.v[1], x.v[2])) = 4
    BY <2>3, <2>4, ObjectIdRead
  <2>6. TagOf(x) = 12 /\ SizeOf(x) = 4 /\ DataOf(x) = ObjectId(x.v[1], x.v[2])
    BY <1>6 DEF TagOf, SizeOf, DataOf
  <2> QED
    BY <2>5, <2>6
<1>7. x.t \in {"uint", "int", "enum", "real", "bool", "null", "string", "objectid"}
  BY DEF AppValues, Null
<1> QED
  BY <1>1, <1>2, <1>3, <1>4, <1>5, <1>6, <1>7

\* A value that is not a double is a piece,
LEMMA PieceValue == \A x \in AppValues : x.t # "double" => Piece(AppData(x, FALSE))
<1> SUFFICES ASSUME NEW x \in AppValues, x.t # "double" PROVE Piece(AppData(x, FALSE))
  OBVIOUS
<1> DEFINE num == TagOf(x)
           n == SizeOf(x)
           v == DataOf(x)
<1>1. <<>> \in Bytes
  BY EmptySeq DEF Bytes
<1>2. num \in 0 .. 12 /\ n \in Nat /\ n < LongLength /\ v \in Bytes
      /\ AppData(x, FALSE) = Tag(num, FALSE, n) \o v
  BY <1>1, ValueParts DEF Parts
<1>3. Len(v) = IF num = 1 THEN 0 ELSE n
  BY DataLength
<1> HIDE DEF num, n, v
<1>4. num \in 0 .. 14
  BY <1>2
<1>5. Piece(Tag(num, FALSE, n) \o v)
  BY <1>2, <1>3, <1>4, PieceTag
<1> QED
  BY <1>2, <1>5

\* also one for a binary output or value, which is tagged as an enumerated one.
LEMMA PieceBinary == \A x \in AppValues : x.t \in {"null", "uint"} => Piece(AppData(x, TRUE))
<1> SUFFICES ASSUME NEW x \in AppValues, x.t \in {"null", "uint"} PROVE Piece(AppData(x, TRUE))
  OBVIOUS
<1>1. CASE x.t = "null"
  <2>1. AppData(x, TRUE) = AppData(x, FALSE)
    BY <1>1 DEF AppData
  <2>2. x.t # "double"
    BY <1>1
  <2> QED
    BY <2>1, <2>2, PieceValue
<1>2. CASE x.t = "uint"
  <2> DEFINE n == ValueLength(x.v)
             v == Unsigned(x.v)
             num == 9
  <2>1. x.v \in Word
    BY <1>2 DEF AppValues, Null
  <2>2. v \in Bytes /\ Len(v) = n /\ n \in 1 .. 4
    BY <2>1, UnsignedBytes
  <2>3. AppData(x, TRUE) = Tag(num, FALSE, n) \o v
    BY <1>2 DEF AppData
  <2>4. num \in 0 .. 14 /\ num # 1
    OBVIOUS
  <2> HIDE DEF n, v, num
  <2>5. n \in Nat /\ n < LongLength
    BY <2>2 DEF LongLength
  <2>6. Piece(Tag(num, FALSE, n) \o v)
    BY <2>2, <2>4, <2>5, PieceTag
  <2> QED
    BY <2>3, <2>6
<1> QED
  BY <1>1, <1>2

\* A number and an object identifier in context are pieces.
LEMMA PieceUnsigned == \A num \in 0 .. 14 : \A w \in Word : Piece(ContextUnsigned(num, w))
<1> SUFFICES ASSUME NEW num \in 0 .. 14, NEW w \in Word PROVE Piece(ContextUnsigned(num, w))
  OBVIOUS
<1> DEFINE n == ValueLength(w)
           v == Unsigned(w)
<1>1. v \in Bytes /\ Len(v) = n /\ n \in 1 .. 4
  BY UnsignedBytes
<1>2. ContextUnsigned(num, w) = Tag(num, TRUE, n) \o v
  BY DEF ContextUnsigned
<1> HIDE DEF n, v
<1>3. n \in Nat /\ n < LongLength
  BY <1>1 DEF LongLength
<1>4. Piece(Tag(num, TRUE, n) \o v)
  BY <1>1, <1>3, PieceTag
<1> QED
  BY <1>2, <1>4

\* An object identifier in context is a piece.
LEMMA PieceId ==
  \A num \in 0 .. 14, type \in 0 .. MaxObject, instance \in 0 .. MaxInstance :
    Piece(ContextObjectId(num, type, instance))
<1> SUFFICES ASSUME NEW num \in 0 .. 14, NEW type \in 0 .. MaxObject,
                    NEW instance \in 0 .. MaxInstance
             PROVE  Piece(ContextObjectId(num, type, instance))
  OBVIOUS
<1> DEFINE n == 4
           v == ObjectId(type, instance)
<1>1. type \in Nat /\ type <= MaxObject /\ instance \in Nat /\ instance <= MaxInstance
  BY Largest
<1>2. <<>> \in Bytes
  BY EmptySeq DEF Bytes
<1>3. v \in Bytes /\ Len(v) = n
  BY <1>1, <1>2, ObjectIdRead
<1>4. ContextObjectId(num, type, instance) = Tag(num, TRUE, n) \o v
  BY DEF ContextObjectId
<1>5. n \in Nat /\ n < LongLength
  BY DEF LongLength
<1> HIDE DEF n, v
<1>6. Piece(Tag(num, TRUE, n) \o v)
  BY <1>3, <1>5, PieceTag
<1> QED
  BY <1>4, <1>6

\* Pieces one after another are a piece.
LEMMA PieceFlat ==
  \A seqs \in Seq(Bytes) :
    (\A i \in 1 .. Len(seqs) : Piece(seqs[i])) => Piece(FlattenSeq(seqs))
<1> SUFFICES ASSUME NEW seqs \in Seq(Bytes), \A i \in 1 .. Len(seqs) : Piece(seqs[i])
             PROVE  Piece(FlattenSeq(seqs))
  OBVIOUS
<1>1. \A i \in 1 .. Len(seqs) : Passed(seqs[i])
  BY DEF Piece
<1> QED
  BY <1>1, PassedFlat DEF Piece

\* A number is written in four bytes, of as many as it has.
LEMMA WordOf == \A n \in Nat : ToWord(n) \in Word
<1> SUFFICES ASSUME NEW n \in Nat PROVE ToWord(n) \in Word
  OBVIOUS
<1>1. ASSUME NEW m \in Nat PROVE m % 256 \in Byte
  BY DEF Byte
<1> DEFINE a == n \div 16777216
           b == n \div 65536
           c == n \div 256
<1>2. a \in Nat /\ b \in Nat /\ c \in Nat
  OBVIOUS
<1> HIDE DEF a, b, c
<1>3. a % 256 \in Byte /\ b % 256 \in Byte /\ c % 256 \in Byte /\ n % 256 \in Byte
  BY <1>1, <1>2
<1>4. ToWord(n) = <<a % 256, b % 256, c % 256, n % 256>>
  BY DEF ToWord, a, b, c
<1> QED
  BY <1>3, <1>4 DEF Word

\* The object and property of a request that is valid are a piece,
LEMMA PieceHeader ==
  \A x : x.type \in Nat /\ x.instance \in 0 .. MaxInstance /\ x.prop \in Nat /\ x.index \in Word
           /\ ValidProperty(x)
         => Piece(ReadPropertyHeader(x))
<1> SUFFICES ASSUME NEW x, x.type \in Nat, x.instance \in 0 .. MaxInstance, x.prop \in Nat,
                    x.index \in Word, ValidProperty(x)
             PROVE  Piece(ReadPropertyHeader(x))
  OBVIOUS
<1> DEFINE a == ContextObjectId(0, x.type, x.instance)
           b == ContextUnsigned(1, ToWord(x.prop))
           c == IF x.index = ArrayAll THEN <<>> ELSE ContextUnsigned(2, x.index)
<1>1. ReadPropertyHeader(x) = a \o b \o c
  BY DEF ReadPropertyHeader
<1>2. x.type \in 0 .. MaxObject
  BY Largest DEF ValidProperty
<1>3. Piece(a)
  <2>1. 0 \in 0 .. 14
    OBVIOUS
  <2> QED
    BY <1>2, <2>1, PieceId
<1>4. Piece(b)
  <2>1. 1 \in 0 .. 14 /\ ToWord(x.prop) \in Word
    BY WordOf
  <2> QED
    BY <2>1, PieceUnsigned
<1>5. Piece(c)
  <2>1. Piece(ContextUnsigned(2, x.index))
    <3>1. 2 \in 0 .. 14
      OBVIOUS
    <3> QED
      BY <3>1, PieceUnsigned
  <2> QED
    BY <2>1, PieceNone
<1> HIDE DEF a, b, c
<1>6. Piece(a \o b)
  BY <1>3, <1>4, PieceBoth
<1>7. Piece((a \o b) \o c)
  <2> DEFINE d == a \o b
  <2>1. Piece(d)
    BY <1>6
  <2> HIDE DEF d
  <2>2. Piece(d \o c)
    BY <1>5, <2>1, PieceBoth
  <2> QED
    BY <2>2 DEF d
<1> QED
  BY <1>1, <1>7

\* a property that is asked for,
LEMMA PieceAsked ==
  \A p \in AppWritten : \A base \in {0} : Piece(PropertyBytes(p, base))
<1> SUFFICES ASSUME NEW p \in AppWritten, NEW base \in {0} PROVE Piece(PropertyBytes(p, base))
  OBVIOUS
<1>1. p.prop \in Nat /\ p.index \in Word
  BY DEF AppWritten
<1> DEFINE n == base + 1
           b == ContextUnsigned(base, ToWord(p.prop))
           c == IF p.index = ArrayAll THEN <<>> ELSE ContextUnsigned(n, p.index)
<1>2. n \in 0 .. 14 /\ base \in 0 .. 14 /\ ToWord(p.prop) \in Word
  BY <1>1, WordOf
<1>3. PropertyBytes(p, base) = b \o c
  BY DEF PropertyBytes
<1> HIDE DEF n
<1>4. Piece(b)
  BY <1>2, PieceUnsigned
<1>5. Piece(c)
  <2>1. Piece(ContextUnsigned(n, p.index))
    BY <1>1, <1>2, PieceUnsigned
  <2> QED
    BY <2>1, PieceNone
<1> HIDE DEF b, c
<1> QED
  BY <1>3, <1>4, <1>5, PieceBoth

\* a priority, or none,
PriorityBytes(num, p) ==
  IF p.priority = PriorityNone THEN <<>> ELSE ContextUnsigned(num, ToWord(p.priority))

\* The priority of a property, if it has one, is passed.
LEMMA PiecePriority ==
  \A num \in 0 .. 14 : \A p : p.priority \in Byte => Piece(PriorityBytes(num, p))
<1> SUFFICES ASSUME NEW num \in 0 .. 14, NEW p, p.priority \in Byte
             PROVE  Piece(PriorityBytes(num, p))
  OBVIOUS
<1>1. ToWord(p.priority) \in Word
  <2>1. p.priority \in Nat
    BY DEF Byte
  <2> QED
    BY <2>1, WordOf
<1>2. Piece(ContextUnsigned(num, ToWord(p.priority)))
  BY <1>1, PieceUnsigned
<1> QED
  BY <1>2, PieceNone DEF PriorityBytes

\* and a value between its tags with its priority.
LEMMA PieceWritten ==
  \A p \in AppWritten : p.data.t # "double" => Piece(WrittenBytes(p))
<1> SUFFICES ASSUME NEW p \in AppWritten, p.data.t # "double" PROVE Piece(WrittenBytes(p))
  OBVIOUS
<1> DEFINE num == 2
           v == AppData(p.data, FALSE)
           b == OpeningTag(num) \o v \o ClosingTag(num)
           c == PriorityBytes(num, p)
<1>1. p.data \in AppValues /\ p.priority \in Byte /\ num \in 0 .. 14
  BY DEF AppWritten
<1>2. WrittenBytes(p) = b \o c
  BY DEF WrittenBytes, PriorityBytes
<1> HIDE DEF num
<1>3. Piece(v)
  BY <1>1, PieceValue
<1> HIDE DEF v
<1>4. Piece(b)
  BY <1>1, <1>3, PieceBetween
<1>5. Piece(c)
  BY <1>1, PiecePriority
<1> HIDE DEF b, c
<1> QED
  BY <1>2, <1>4, <1>5, PieceBoth

\* The property of a request is a piece, in both forms.
Plain(p, form) == form = "asked" \/ p.data.t # "double"

\* A property that is asked for or written is passed.
LEMMA PieceProperty ==
  \A form \in {"asked", "written"} : \A p \in AppWritten :
    Plain(p, form) => Piece(Property(p, form))
<1> SUFFICES ASSUME NEW form \in {"asked", "written"}, NEW p \in AppWritten, Plain(p, form)
             PROVE  Piece(Property(p, form))
  OBVIOUS
<1> DEFINE base == 0
           a == PropertyBytes(p, base)
<1>1. base \in {0}
  OBVIOUS
<1>2. form = "asked" => Property(p, form) = a
  BY DEF Property
<1>3. form = "written" => Property(p, form) = a \o WrittenBytes(p)
  BY DEF Property
<1> HIDE DEF base
<1>4. Piece(a)
  BY <1>1, PieceAsked
<1> HIDE DEF a
<1>5. CASE form = "asked"
  BY <1>2, <1>4, <1>5
<1>6. CASE form = "written"
  <2>1. Piece(WrittenBytes(p))
    BY <1>6, PieceWritten DEF Plain
  <2> QED
    BY <1>3, <1>4, <1>6, <2>1, PieceBoth
<1> QED
  BY <1>5, <1>6

\* So is an object of a request,
ListedObjects ==
  [type : 0 .. MaxObject, instance : 0 .. MaxInstance, props : Seq(AppWritten)]
ListedBytes(o, form) ==
  ContextObjectId(0, o.type, o.instance) \o OpeningTag(1) \o
  FlattenSeq([j \in 1 .. Len(o.props) |-> Property(o.props[j], form)]) \o ClosingTag(1)

\* An object with its properties is passed.
LEMMA PieceListed ==
  \A form \in {"asked", "written"} : \A o \in ListedObjects :
    (\A j \in 1 .. Len(o.props) : Plain(o.props[j], form)) => Piece(ListedBytes(o, form))
<1> SUFFICES ASSUME NEW form \in {"asked", "written"}, NEW o \in ListedObjects,
                    \A j \in 1 .. Len(o.props) : Plain(o.props[j], form)
             PROVE  Piece(ListedBytes(o, form))
  OBVIOUS
<1> DEFINE ps == o.props
           k == Len(ps)
           seqs == [j \in 1 .. k |-> Property(ps[j], form)]
           f == FlattenSeq(seqs)
           zero == 0
           num == 1
           id == ContextObjectId(zero, o.type, o.instance)
           open == OpeningTag(num)
           close == ClosingTag(num)
<1>1. ps \in Seq(AppWritten) /\ o.type \in 0 .. MaxObject /\ o.instance \in 0 .. MaxInstance
  BY DEF ListedObjects
<1>2. zero \in 0 .. 14 /\ num \in 0 .. 14
  OBVIOUS
<1>3. ListedBytes(o, form) = ((id \o open) \o f) \o close
  BY DEF ListedBytes
<1>4. \A j \in 1 .. k : Plain(ps[j], form)
  OBVIOUS
<1> HIDE DEF ps, zero, num
<1>5. k \in Nat /\ \A j \in 1 .. k : ps[j] \in AppWritten
  BY <1>1, ElementOfSeq, LenProperties
<1>6. \A j \in 1 .. k : Piece(Property(ps[j], form))
  BY <1>4, <1>5, PieceProperty
<1>7. \A j \in 1 .. k : Property(ps[j], form) \in Bytes
  BY <1>6 DEF Piece
<1>8. seqs \in Seq(Bytes) /\ Len(seqs) = k
  <2>1. seqs \in [1 .. k -> Bytes]
    BY <1>7
  <2> HIDE DEF seqs, k
  <2> QED
    BY <1>5, <2>1
<1>9. \A j \in 1 .. k : Piece(seqs[j])
  BY <1>6
<1> HIDE DEF seqs
<1>10. Piece(f)
  BY <1>8, <1>9, PieceFlat
<1>11. Piece(id)
  BY <1>1, <1>2, PieceId
<1> HIDE DEF f, id
<1>12. Piece(open \o f \o close)
  BY <1>2, <1>10, PieceBetween
<1>13. Piece(id \o (open \o f \o close))
  <2> DEFINE b == open \o f \o close
  <2>1. Piece(b)
    BY <1>12
  <2> HIDE DEF b
  <2>2. Piece(id \o b)
    BY <1>11, <2>1, PieceBoth
  <2> QED
    BY <2>2 DEF b
<1>14. ((id \o open) \o f) \o close = id \o (open \o f \o close)
  <2>1. open \in Bytes /\ close \in Bytes
    <3>1. num \in Byte
      BY <1>2 DEF Byte
    <3> DEFINE l == 14
               m == 15
    <3>2. l \in 0 .. 15 /\ m \in 0 .. 15
      OBVIOUS
    <3>3. open = TagByte(l, num) /\ close = TagByte(m, num)
      BY DEF OpeningTag, ClosingTag
    <3> HIDE DEF l, m, open, close
    <3> QED
      BY <3>1, <3>2, <3>3, TagByteBytes
  <2>2. id \in Bytes /\ f \in Bytes
    BY <1>10, <1>11 DEF Piece
  <2> HIDE DEF open, close
  <2>3. (id \o open) \o f = id \o (open \o f)
    BY <2>1, <2>2, Append3
  <2>4. open \o f \in Bytes
    BY <2>1, <2>2, AppendIn
  <2> DEFINE g == open \o f
  <2>5. (id \o g) \o close = id \o (g \o close)
    <3>1. g \in Bytes
      BY <2>4
    <3> HIDE DEF g
    <3> QED
      BY <2>1, <2>2, <3>1, Append3
  <2> QED
    BY <2>3, <2>5
<1> QED
  BY <1>3, <1>13, <1>14
\* and all the objects of one.
LEMMA PieceObjects ==
  \A form \in {"asked", "written"} : \A objects \in AppLists :
    (\A i \in 1 .. Len(objects) : \A j \in 1 .. Len(objects[i].props) :
        Plain(objects[i].props[j], form))
      => Piece(Objects(objects, form))
<1> SUFFICES ASSUME NEW form \in {"asked", "written"}, NEW objects \in AppLists,
                    \A i \in 1 .. Len(objects) : \A j \in 1 .. Len(objects[i].props) :
                       Plain(objects[i].props[j], form)
             PROVE  Piece(Objects(objects, form))
  OBVIOUS
<1> DEFINE k == Len(objects)
           seqs == [i \in 1 .. k |-> ListedBytes(objects[i], form)]
<1>1. objects \in Seq(ListedObjects)
  BY DEF AppLists, ListedObjects
<1>2. k \in Nat /\ \A i \in 1 .. k : objects[i] \in ListedObjects
  BY <1>1, ElementOfSeq, LenProperties
<1>3. \A i \in 1 .. k : Piece(ListedBytes(objects[i], form))
  BY <1>2, PieceListed
<1>4. \A i \in 1 .. k : ListedBytes(objects[i], form) \in Bytes
  BY <1>3 DEF Piece
<1>5. seqs \in Seq(Bytes) /\ Len(seqs) = k
  <2>1. seqs \in [1 .. k -> Bytes]
    BY <1>4
  <2> HIDE DEF seqs, k
  <2> QED
    BY <1>2, <2>1
<1>6. \A i \in 1 .. k : Piece(seqs[i])
  BY <1>3
<1>7. Objects(objects, form) = FlattenSeq(seqs)
  BY DEF Objects, ListedBytes
<1> HIDE DEF seqs
<1>8. Piece(FlattenSeq(seqs))
  BY <1>5, <1>6, PieceFlat
<1> QED
  BY <1>7, <1>8

\* What is in a sequence is in it with another one behind it or in front of it,
Holds(s, x) == \E k \in 1 .. Len(s) : s[k] = x

\* What either of two sequences holds is held by both together.
LEMMA HoldsBoth ==
  ASSUME NEW S, NEW x
  PROVE  \A a, b \in Seq(S) : Holds(a, x) \/ Holds(b, x) => Holds(a \o b, x)
<1> SUFFICES ASSUME NEW a \in Seq(S), NEW b \in Seq(S), Holds(a, x) \/ Holds(b, x)
             PROVE  Holds(a \o b, x)
  OBVIOUS
<1> DEFINE m == Len(a)
           n == Len(b)
           c == a \o b
<1>1. m \in Nat /\ n \in Nat /\ Len(c) = m + n
      /\ \A i \in 1 .. m + n : c[i] = IF i <= m THEN a[i] ELSE b[i - m]
  BY ConcatProperties, LenProperties
<1> HIDE DEF m, n, c
<1>2. CASE Holds(a, x)
  <2>1. PICK k \in 1 .. m : a[k] = x
    BY <1>2 DEF Holds, m
  <2>2. k \in 1 .. m + n /\ k <= m
    BY <1>1, <2>1
  <2>3. c[k] = x
    BY <1>1, <2>1, <2>2
  <2> QED
    BY <1>1, <2>2, <2>3 DEF Holds, c
<1>3. CASE Holds(b, x)
  <2>1. PICK k \in 1 .. n : b[k] = x
    BY <1>3 DEF Holds, n
  <2> DEFINE i == m + k
  <2>2. i \in 1 .. m + n /\ ~(i <= m) /\ i - m = k
    BY <1>1, <2>1
  <2> HIDE DEF i
  <2>3. c[i] = x
    BY <1>1, <2>1, <2>2
  <2> QED
    BY <1>1, <2>2, <2>3 DEF Holds, c
<1> QED
  BY <1>2, <1>3

\* and what is in one of several is in all of them one after another.
LEMMA HoldsFlat ==
  ASSUME NEW S, NEW seqs \in Seq(Seq(S)), NEW i \in 1 .. Len(seqs), NEW x, Holds(seqs[i], x)
  PROVE  Holds(FlattenSeq(seqs), x)
<1> DEFINE n == Len(seqs)
<1>1. n \in Nat /\ \A k \in 1 .. n : seqs[k] \in Seq(S)
  BY ElementOfSeq, LenProperties
<1>2. PICK rest : RestsOf(S, seqs, rest)
  BY Flattened
<1>3. /\ \A k \in 0 .. n : rest[k] \in Seq(S)
      /\ rest[0] = FlattenSeq(seqs)
      /\ \A k \in 1 .. n : rest[k - 1] = seqs[k] \o rest[k]
  BY <1>2 DEF RestsOf
<1> DEFINE m == i - 1
           bad == {k \in 0 .. m : ~Holds(rest[m - k], x)}
<1> HIDE DEF n
<1>4. m \in Nat /\ m < n /\ i \in 1 .. n
  BY <1>1 DEF n
<1>5. Holds(rest[m], x)
  <2>1. rest[m] = seqs[i] \o rest[i] /\ rest[i] \in Seq(S) /\ seqs[i] \in Seq(S)
    <3>1. i \in 0 .. n
      BY <1>1, <1>4
    <3> QED
      BY <1>1, <1>3, <1>4, <3>1
  <2> HIDE DEF m
  <2> QED
    BY <2>1, HoldsBoth
<1>6. bad = {}
  <2> SUFFICES ASSUME bad # {} PROVE FALSE
    OBVIOUS
  <2> HIDE DEF m
  <2>1. bad \subseteq Nat
    OBVIOUS
  <2>2. PICK k \in bad : \A j \in bad : k <= j
    <3> HIDE DEF bad
    <3> QED
      BY <2>1, Least
  <2>3. k \in 0 .. m /\ ~Holds(rest[m - k], x)
    OBVIOUS
  <2>4. k # 0
    BY <1>4, <1>5, <2>3
  <2>5. k - 1 \in 0 .. m /\ ~(k <= k - 1)
    BY <1>4, <2>3, <2>4
  <2>6. k - 1 \notin bad
    <3> HIDE DEF bad
    <3> QED
      BY <2>2, <2>5
  <2>7. Holds(rest[m - (k - 1)], x)
    BY <2>5, <2>6
  <2> HIDE DEF bad
  <2> DEFINE j == m - (k - 1)
  <2>8. j \in 1 .. n /\ j - 1 = m - k /\ j \in 0 .. n
    BY <1>1, <1>4, <2>3, <2>4
  <2>9. Holds(rest[j], x)
    BY <2>7
  <2> HIDE DEF j
  <2>10. rest[j - 1] = seqs[j] \o rest[j] /\ seqs[j] \in Seq(S) /\ rest[j] \in Seq(S)
    BY <1>1, <1>3, <2>8
  <2>11. Holds(rest[j - 1], x)
    BY <2>9, <2>10, HoldsBoth
  <2> QED
    BY <2>3, <2>8, <2>11
<1>7. m \notin bad /\ m \in 0 .. m /\ m - m = 0
  <2> HIDE DEF bad, m
  <2> QED
    BY <1>4, <1>6
<1>8. Holds(rest[0], x)
  BY <1>7
<1> QED
  BY <1>3, <1>8

\* Without a double in a request, none of its properties is written as one.
NoDouble(values) == \A i \in 1 .. Len(values) : values[i].t # "double"

\* Values with no double among them are passed.
LEMMA ValuesPlain ==
  \A objects \in AppLists : NoDouble(ValuesOf(objects)) =>
    \A i \in 1 .. Len(objects) : \A j \in 1 .. Len(objects[i].props) :
      Plain(objects[i].props[j], "written")
<1> SUFFICES ASSUME NEW objects \in AppLists, NoDouble(ValuesOf(objects)),
                    NEW i \in 1 .. Len(objects), NEW j \in 1 .. Len(objects[i].props)
             PROVE  objects[i].props[j].data.t # "double"
  BY DEF Plain
<1> DEFINE k == Len(objects)
           values(a) == [b \in 1 .. Len(objects[a].props) |-> objects[a].props[b].data]
           seqs == [a \in 1 .. k |-> values(a)]
           x == objects[i].props[j].data
<1>1. objects \in Seq(ListedObjects)
  BY DEF AppLists, ListedObjects
<1>2. k \in Nat /\ \A a \in 1 .. k : objects[a] \in ListedObjects
  BY <1>1, ElementOfSeq, LenProperties
<1>3. ASSUME NEW a \in 1 .. k
      PROVE  values(a) \in Seq(AppValues) /\ Len(values(a)) = Len(objects[a].props)
  <2> DEFINE ps == objects[a].props
             n == Len(ps)
             v == [b \in 1 .. n |-> ps[b].data]
  <2>1. ps \in Seq(AppWritten)
    BY <1>2 DEF ListedObjects
  <2> HIDE DEF ps
  <2>2. n \in Nat /\ \A b \in 1 .. n : ps[b] \in AppWritten
    BY <2>1, ElementOfSeq, LenProperties
  <2>3. v \in [1 .. n -> AppValues]
    BY <2>2 DEF AppWritten
  <2>4. values(a) = v
    BY DEF ps
  <2> HIDE DEF v, n
  <2>5. v \in Seq(AppValues) /\ Len(v) = n
    BY <2>2, <2>3
  <2> QED
    BY <2>4, <2>5 DEF n, ps
<1>4. seqs \in Seq(Seq(AppValues)) /\ Len(seqs) = k
  <2>1. seqs \in [1 .. k -> Seq(AppValues)]
    BY <1>3
  <2> HIDE DEF seqs, k
  <2> QED
    BY <1>2, <2>1
<1>5. ValuesOf(objects) = FlattenSeq(seqs)
  BY DEF ValuesOf
<1>6. Holds(seqs[i], x)
  <2>1. seqs[i] = values(i) /\ values(i)[j] = x
    OBVIOUS
  <2>2. j \in 1 .. Len(values(i))
    BY <1>3
  <2> QED
    BY <2>1, <2>2 DEF Holds
<1> HIDE DEF seqs
<1>7. i \in 1 .. Len(seqs)
  BY <1>4
<1> HIDE DEF x
<1>8. Holds(FlattenSeq(seqs), x)
  BY <1>4, <1>6, <1>7, HoldsFlat
<1>9. PICK m \in 1 .. Len(ValuesOf(objects)) : ValuesOf(objects)[m] = x
  BY <1>5, <1>8 DEF Holds
<1> QED
  BY <1>9 DEF NoDouble, x

\* What of a request comes behind its head is what a device reads tag by tag.
LEMMA RequestRaw ==
  ASSUME NEW service \in Byte, NEW s \in Bytes
  PROVE  DecodeAPDU(NewDecoder(Request(service, 1) \o s)).raw = s
<1> DEFINE id == 1
           a == [type |-> ConfirmedServiceRequest, segmented |-> FALSE, moreFollows |-> FALSE,
                 segmentedAccepted |-> FALSE, maxSegs |-> 0, maxApdu |-> MaxAPDU,
                 id |-> id, service |-> service]
           x == DecodeAPDU(Good(APDU(a) \o s))
<1>0. id \in Byte
  BY DEF Byte
<1>1. Request(service, id) = APDU(a)
  BY DEF Request
<1>2. /\ a.type = ConfirmedServiceRequest /\ a.segmented = FALSE /\ a.moreFollows = FALSE
      /\ a.segmentedAccepted = FALSE /\ a.maxSegs = 0 /\ a.maxApdu = MaxAPDU
      /\ a.id = id /\ a.service = service
  OBVIOUS
<1>3. 0 \in Nat /\ MaxAPDU \in 0 .. MaxAPDU
  BY DEF MaxAPDU
<1> HIDE DEF a, id
<1>4. MaxSegsMaxApdu(a.maxSegs, a.maxApdu) \in Byte
  <2>1. MaxSegsMaxApdu(0, MaxAPDU) \in Byte
    BY <1>3, SizesRead
  <2> QED
    BY <1>2, <2>1
<1>5. a.segmented \in BOOLEAN /\ a.moreFollows \in BOOLEAN /\ a.segmentedAccepted \in BOOLEAN
  BY <1>2
<1>6. x.raw = s
  BY <1>0, <1>2, <1>4, <1>5, RequestRead
<1>7. NewDecoder(APDU(a) \o s) = Good(APDU(a) \o s)
  BY NoError
<1> HIDE DEF x
<1>8. NewDecoder(Request(service, id) \o s) = Good(APDU(a) \o s)
  BY <1>1, <1>7
<1> QED
  BY <1>6, <1>8 DEF x, id

\* A request that is on its way: behind its head is a piece.
RequestSent(bytes) ==
  \E service \in Byte : \E s \in Bytes : bytes = Request(service, 1) \o s /\ Piece(s)

\* The bytes of a request that was sent whole are read without an error.
LEMMA RequestIsRead ==
  ASSUME NEW bytes, RequestSent(bytes)
  PROVE  Tagged(NewDecoder(DecodeAPDU(NewDecoder(bytes)).raw)).err = FALSE
<1>1. PICK service \in Byte : \E s \in Bytes : bytes = Request(service, 1) \o s /\ Piece(s)
  BY DEF RequestSent
<1>2. PICK s \in Bytes : bytes = Request(service, 1) \o s /\ Piece(s)
  BY <1>1
<1>3. DecodeAPDU(NewDecoder(bytes)).raw = s
  BY <1>2, RequestRaw
<1>4. NewDecoder(s) = Good(s)
  BY NoError
<1>5. Tagged(Good(s)).err = FALSE
  BY <1>2, PassedIsRead DEF Piece
<1> QED
  BY <1>3, <1>4, <1>5

\* A property that is written is such a request,
LEMMA WriteSent ==
  \A x \in AppWrites : WritePropertyFault(x) = "none" /\ x.data.t # "double"
    => RequestSent(WriteProperty(1, x))
<1> SUFFICES ASSUME NEW x \in AppWrites, WritePropertyFault(x) = "none", x.data.t # "double"
             PROVE  RequestSent(WriteProperty(1, x))
  OBVIOUS
<1> DEFINE h == ReadPropertyHeader(x)
           three == 3
           four == 4
           open == OpeningTag(three)
           v == AppData(x.data, PointTypeBOBV(x))
           close == ClosingTag(three)
           c == PriorityBytes(four, x)
           q == Request(ServiceWriteProperty, 1)
           s == (h \o (open \o v \o close)) \o c
<1>1. /\ x.type \in Nat /\ x.instance \in 0 .. MaxInstance /\ x.prop \in Nat /\ x.index \in Word
      /\ x.data \in AppValues /\ x.priority \in Byte
  BY DEF AppWrites
<1>2. ValidProperty(x) /\ AppDataFault(x.data, PointTypeBOBV(x)) = "none"
  BY DEF WritePropertyFault
<1>3. three \in 0 .. 14 /\ four \in 0 .. 14 /\ three \in Byte
  BY DEF Byte
<1>4. WriteProperty(1, x) = ((((q \o h) \o open) \o v) \o close) \o c
  BY DEF WriteProperty, PriorityBytes
<1>5. Piece(h)
  BY <1>1, <1>2, PieceHeader
<1>6. Piece(v)
  <2>1. CASE PointTypeBOBV(x) = TRUE
    <3>1. x.data.t \in {"null", "uint"}
      BY <1>2, <2>1 DEF AppDataFault
    <3> QED
      BY <1>1, <2>1, <3>1, PieceBinary
  <2>2. CASE PointTypeBOBV(x) = FALSE
    BY <1>1, <2>2, PieceValue
  <2>3. PointTypeBOBV(x) \in BOOLEAN
    BY DEF PointTypeBOBV
  <2> QED
    BY <2>1, <2>2, <2>3
<1>7. Piece(c)
  <2> HIDE DEF four
  <2> QED
    BY <1>1, <1>3, PiecePriority
<1>8. open \in Bytes /\ close \in Bytes
  <2> DEFINE l == 14
             m == 15
  <2>1. l \in 0 .. 15 /\ m \in 0 .. 15
    OBVIOUS
  <2>2. open = TagByte(l, three) /\ close = TagByte(m, three)
    BY DEF OpeningTag, ClosingTag
  <2> HIDE DEF l, m, open, close, three
  <2> QED
    BY <1>3, <2>1, <2>2, TagByteBytes
<1>9. ServiceWriteProperty \in Byte /\ 1 \in Byte /\ <<>> \in Bytes
  BY EmptySeq DEF ServiceWriteProperty, Byte, Bytes
<1>10. q \in Bytes
  BY <1>9, RequestBody
<1> HIDE DEF h, v, c, q
<1>11. Piece(open \o v \o close)
  <2> HIDE DEF three
  <2> QED
    BY <1>3, <1>6, PieceBetween
<1> HIDE DEF open, close
<1> DEFINE b == open \o v \o close
<1>12. Piece(s)
  <2>1. Piece(b)
    BY <1>11
  <2> HIDE DEF b
  <2>2. Piece(h \o b)
    BY <1>5, <2>1, PieceBoth
  <2> DEFINE e == h \o b
  <2>3. Piece(e)
    BY <2>2
  <2> HIDE DEF e
  <2>4. Piece(e \o c)
    BY <1>7, <2>3, PieceBoth
  <2> QED
    BY <2>4 DEF e, b
<1>13. ((((q \o h) \o open) \o v) \o close) \o c = q \o s
  <2>1. h \in Bytes /\ v \in Bytes /\ c \in Bytes
    BY <1>5, <1>6, <1>7 DEF Piece
  <2> DEFINE p == q \o h
  <2>2. p \in Bytes
    BY <1>10, <2>1, AppendIn
  <2> HIDE DEF p
  <2>3. Grouped(p, open, v, close, c)
    BY <1>8, <2>1, <2>2, Regroup
  <2>4. (((p \o open) \o v) \o close) \o c = p \o (open \o (v \o (close \o c)))
    BY <2>3 DEF Grouped, FromLeft, FromRight
  <2> DEFINE u == open \o (v \o (close \o c))
  <2>5. u \in Bytes
    BY <2>3 DEF Grouped, FromRight
  <2>6. b \o c = u
    <3>1. b = (open \o v) \o close
      OBVIOUS
    <3> DEFINE f == open \o v
    <3>2. f \in Bytes
      BY <1>8, <2>1, AppendIn
    <3>3. (open \o v) \o (close \o c) = open \o (v \o (close \o c))
      <4> DEFINE g == close \o c
      <4>1. g \in Bytes
        BY <1>8, <2>1, AppendIn
      <4> HIDE DEF g
      <4> QED
        BY <1>8, <2>1, <4>1, Append3 DEF g
    <3> HIDE DEF f
    <3>4. (f \o close) \o c = f \o (close \o c)
      BY <1>8, <2>1, <3>2, Append3
    <3> QED
      BY <3>1, <3>3, <3>4 DEF f
  <2> HIDE DEF u
  <2>7. (q \o h) \o u = q \o (h \o u)
    BY <1>10, <2>1, <2>5, Append3
  <2>8. b \in Bytes
    BY <1>11 DEF Piece
  <2> HIDE DEF b
  <2>9. (h \o b) \o c = h \o (b \o c)
    BY <2>1, <2>8, Append3
  <2> QED
    BY <2>4, <2>6, <2>7, <2>9 DEF u, p, b
<1> HIDE DEF s
<1>14. s \in Bytes /\ WriteProperty(1, x) = Request(ServiceWriteProperty, 1) \o s
  BY <1>4, <1>12, <1>13 DEF Piece, q
<1> QED
  BY <1>9, <1>12, <1>14 DEF RequestSent

\* and so is one for several properties.
LEMMA ListSent ==
  \A objects \in AppLists :
    /\ RequestSent(ReadMultipleProperty(1, objects))
    /\ NoDouble(ValuesOf(objects)) => RequestSent(WriteMultiProperty(1, objects))
<1> SUFFICES ASSUME NEW objects \in AppLists
             PROVE  /\ RequestSent(ReadMultipleProperty(1, objects))
                    /\ NoDouble(ValuesOf(objects)) => RequestSent(WriteMultiProperty(1, objects))
  OBVIOUS
<1>1. ServiceReadPropMultiple \in Byte /\ ServiceWritePropMultiple \in Byte
  BY DEF ServiceReadPropMultiple, ServiceWritePropMultiple, Byte
<1>2. RequestSent(ReadMultipleProperty(1, objects))
  <2>1. Piece(Objects(objects, "asked"))
    BY PieceObjects DEF Plain
  <2> QED
    BY <1>1, <2>1 DEF ReadMultipleProperty, RequestSent, Piece
<1>3. NoDouble(ValuesOf(objects)) => RequestSent(WriteMultiProperty(1, objects))
  <2> SUFFICES ASSUME NoDouble(ValuesOf(objects))
               PROVE  RequestSent(WriteMultiProperty(1, objects))
    OBVIOUS
  <2>1. Piece(Objects(objects, "written"))
    BY ValuesPlain, PieceObjects
  <2> QED
    BY <1>1, <2>1 DEF WriteMultiProperty, RequestSent, Piece
<1> QED
  BY <1>2, <1>3

\* A request of values that are no doubles is such a one, and is read without an
\* error.
RequestInv ==
  kind = "request" /\ cut = 0 /\ NoDouble(item) =>
    /\ phase = "wire" => RequestSent(wire)
    /\ phase \in {"decoded", "failed", "matched"} => out.err = FALSE

\* Every request the library writes, as long as it is whole, is read
\* without an error (RequestInv).
THEOREM RequestsRead == Spec => []RequestInv
<1>1. Init => RequestInv
  BY DEF Init, RequestInv, None
<1>2. PeerInv /\ RequestInv /\ [Next]_vars => RequestInv'
  <2> SUFFICES ASSUME PeerInv, RequestInv, [Next]_vars
               PROVE  RequestInv'
    OBVIOUS
  <2>1. CASE EncodeRequest
    <3>1. CASE \E x \in Writes : WritePropertyFault(x) = "none"
                                 /\ Send("request", <<x.data>>, WriteProperty(1, x))
      <4>1. PICK x \in Writes : WritePropertyFault(x) = "none"
                                /\ Send("request", <<x.data>>, WriteProperty(1, x))
        BY <3>1
      <4> DEFINE sent == <<x.data>>
      <4>2. NoDouble(sent) => x.data.t # "double"
        <5>1. 1 \in 1 .. Len(sent) /\ sent[1] = x.data
          OBVIOUS
        <5> HIDE DEF sent
        <5> QED
          BY <5>1 DEF NoDouble
      <4>3. x \in AppWrites
        BY CodecAssumption
      <4>4. NoDouble(sent) => RequestSent(WriteProperty(1, x))
        BY <4>1, <4>2, <4>3, WriteSent
      <4>5. phase' = "wire" /\ wire' = WriteProperty(1, x) /\ item' = sent
        BY <4>1 DEF Send
      <4> HIDE DEF sent
      <4> QED
        BY <4>4, <4>5 DEF RequestInv
    <3>2. CASE \E x \in Lists : \/ Send("request", <<>>, ReadMultipleProperty(1, x))
                                \/ Send("request", ValuesOf(x), WriteMultiProperty(1, x))
      <4>1. PICK x \in Lists : \/ Send("request", <<>>, ReadMultipleProperty(1, x))
                               \/ Send("request", ValuesOf(x), WriteMultiProperty(1, x))
        BY <3>2
      <4>2. x \in AppLists
        BY CodecAssumption
      <4>3. /\ RequestSent(ReadMultipleProperty(1, x))
            /\ NoDouble(ValuesOf(x)) => RequestSent(WriteMultiProperty(1, x))
        BY <4>2, ListSent
      <4>4. phase' = "wire" /\ \/ wire' = ReadMultipleProperty(1, x)
                               \/ item' = ValuesOf(x) /\ wire' = WriteMultiProperty(1, x)
        BY <4>1 DEF Send
      <4> QED
        BY <4>3, <4>4 DEF RequestInv
    <3> QED
      BY <2>1, <3>1, <3>2 DEF EncodeRequest
  <2>2. CASE DeviceRequest
    <3> DEFINE x == Tagged(NewDecoder(DecodeAPDU(NewDecoder(wire)).raw))
    <3>1. /\ phase = "wire" /\ kind = "request" /\ kind' = kind /\ item' = item /\ cut' = cut
          /\ out' = x /\ phase' # "wire"
      BY <2>2 DEF DeviceRequest, Decoding, Return
    <3> HIDE DEF x
    <3> SUFFICES ASSUME cut = 0, NoDouble(item)
                 PROVE  x.err = FALSE
      BY <3>1 DEF RequestInv
    <3>2. RequestSent(wire)
      BY <3>1 DEF RequestInv
    <3> QED
      BY <3>2, RequestIsRead DEF x
  <2>3. CASE CutShort
    <3>1. cut' # 0
      BY <2>3 DEF CutShort
    <3> QED
      BY <3>1 DEF RequestInv
  <2>4. CASE \/ EncodeValue \/ EncodeDate \/ EncodeNPDU \/ EncodeAPDU \/ EncodeRead
             \/ EncodeReadAck \/ EncodeIAm \/ EncodeWhoIs \/ EncodeBVLC \/ EncodeReply
             \/ DeviceReply
    <3>1. kind' # "request"
      BY <2>4 DEF EncodeValue, EncodeDate, EncodeNPDU, EncodeAPDU, EncodeRead, EncodeReadAck,
                  EncodeIAm, EncodeWhoIs, EncodeBVLC, EncodeReply, DeviceReply, Send
    <3> QED
      BY <3>1 DEF RequestInv
  <2>5. CASE \/ DecodeValue \/ DecodeDateOnly \/ DecodeHeader \/ DecodeHead \/ DecodeRead
             \/ DecodeReadAck \/ DecodeAnnouncement \/ DecodeSearch \/ DecodeFrame
    <3>1. kind' # "request"
      BY <2>5 DEF DecodeValue, DecodeDateOnly, DecodeHeader, DecodeHead, DecodeRead,
                  DecodeReadAck, DecodeAnnouncement, DecodeSearch, DecodeFrame, Decoding
    <3> QED
      BY <3>1 DEF RequestInv
  <2>6. CASE OpenReply \/ ReadReply \/ MatchReadMultiple
    <3>1. kind \in ReplyKinds /\ kind' = kind
      BY <2>6 DEF OpenReply, ReadReply, ReadObject, EndObject, ReadPropertyTag, ReadValue,
                  ReadTimeStamp, Round, MatchReadMultiple, PeerInv, ReplyOnly
    <3> QED
      BY <3>1 DEF RequestInv, ReplyKinds
  <2>7. CASE Done
    BY <2>7 DEF Done, RequestInv, None
  <2>8. CASE UNCHANGED vars
    <3>1. /\ phase' = phase /\ kind' = kind /\ item' = item /\ wire' = wire /\ cut' = cut
          /\ out' = out
      BY <2>8 DEF vars
    <3> QED
      BY <3>1 DEF RequestInv
  <2> QED
    BY <2>1, <2>2, <2>3, <2>4, <2>5, <2>6, <2>7, <2>8 DEF Next
<1> QED
  BY <1>1, <1>2, PeersUnderstood, PTL DEF Spec

\* What is read and written is read back (RepliesReadBack), for every property
\* that a device answers with, every request and every reply of several objects
\* that the library writes.
THEOREM RepliesUnderstood == Spec => []RepliesReadBack
<1>1. PeerInv /\ RequestInv /\ ReplyInv => RepliesReadBack
  <2> SUFFICES ASSUME PeerInv, RequestInv, ReplyInv PROVE RepliesReadBack
    OBVIOUS
  <2>1. ReplyReadBack("reply")
    BY WholeReply
  <2>2. cut = 0 /\ Decoded("readAck") =>
          ReadAsSent(item, out) /\ out.list = <<Received(item.data)>>
    BY DEF PeerInv, ReadKnown, AsSent, Decoded
  <2>3. cut = 0 /\ Decoded("request") /\ NoDouble(item) => out.err = FALSE
    BY DEF RequestInv, Decoded
  <2> QED
    BY <2>1, <2>2, <2>3 DEF RepliesReadBack, NoDouble
<1> QED
  BY <1>1, PeersUnderstood, RequestsRead, RepliesRead, PTL

-----------------------------------------------------------------------------
(* The decoder of replies gets on: no round of its loops leaves it where it *)
(* was, unless in one of the ways of Lingers.                              *)

\* How deep a loop of the decoder is, and the rank of a place and a reader.
Depth(p) == CASE p = "object" -> 0
              [] p = "property" -> 1
              [] p = "stamp" -> 2
              [] p = "value" -> 3
RankOf(p, x) == Left(x.d) + Depth(p)

\* Where the decoder does not get on: in a list of values or a time stamp behind
\* an error, and at a closing tag in a list that is not its own, or that is not
\* put back as it was read.
Lingers(p, x) ==
  \/ p \in {"value", "stamp"} /\ x.d.err
  \/ /\ p = "value" /\ IsContextSpecific(x.meta) /\ IsClosing(x.meta)
     /\ x.tag # 4 \/ x.meta >= 240

\* What the decoder's variables are in a loop: an error leaves no bytes, but for
\* the byte put back by a decoder that had met one, which then reads nulls.
Places == {"object", "property", "value", "stamp"}
ReaderIn(p, x) ==
  /\ p \in Places /\ Reader(x) /\ x.d \in Decoders
  /\ p \in {"property", "value"} => x.tag \in Byte /\ x.meta \in Byte
  /\ p = "property" => Spent(x.d) /\ x.length \in Nat
  /\ p = "value" => /\ x.meta < 240 => x.tag = x.meta \div 16
                    /\ x.d.err = TRUE => x.d.buf = <<>> \/ (x.tag = 0 /\ x.meta = 0)
  /\ p = "stamp" => Spent(x.d)

\* A round from the place p ends in such a state, and with a lower rank.
GetsOn(p, x, next) ==
  next.place # None =>
    /\ ReaderIn(next.place, next.r)
    /\ RankOf(next.place, next.r) < RankOf(p, x) \/ Lingers(p, x) \/ Lingers(next.place, next.r)

\* The rank of the decoder is that of its place and variables.
LEMMA RankIs == Rank = RankOf(place, r)
  BY DEF Rank, RankOf, Left, Depth

\* The depths of the loops.
LEMMA Depths ==
  /\ Depth("object") = 0 /\ Depth("property") = 1 /\ Depth("stamp") = 2 /\ Depth("value") = 3
  BY DEF Depth

\* What is left falls by four at least.
LEMMA FallsByFour ==
  \A d, x \in Decoders : Left(x) < Left(d) => Left(x) + 4 <= Left(d)
<1> SUFFICES ASSUME NEW d \in Decoders, NEW x \in Decoders, Left(x) < Left(d)
             PROVE  Left(x) + 4 <= Left(d)
  OBVIOUS
<1> DEFINE n == Len(d.buf)
           m == Len(x.buf)
<1>1. n \in Nat /\ m \in Nat
  BY LeftKnown
<1>2. Left(d) = 8 * n \/ Left(d) = 8 * n + 4
  <2>1. CASE d.err
    <3>1. Left(d) = 8 * n + 0
      BY <2>1 DEF Left
    <3> QED
      BY <1>1, <3>1
  <2>2. CASE ~d.err
    BY <2>2 DEF Left
  <2> QED
    BY <2>1, <2>2
<1>3. Left(x) = 8 * m \/ Left(x) = 8 * m + 4
  <2>1. CASE x.err
    <3>1. Left(x) = 8 * m + 0
      BY <2>1 DEF Left
    <3> QED
      BY <1>1, <3>1
  <2>2. CASE ~x.err
    BY <2>2 DEF Left
  <2> QED
    BY <2>1, <2>2
<1> HIDE DEF n, m
<1> QED
  BY <1>1, <1>2, <1>3

\* The number of a tag, as the loops over values go by it.
LEMMA TagOn ==
  \A d \in Decoders :
    LET t == TagNumber(d)
    IN  /\ Kept(d, t.d) /\ t.d \in Decoders /\ t.tag \in Byte /\ t.meta \in Byte
        /\ d.err = FALSE => Left(t.d) < Left(d)
        /\ d.err = TRUE => t.d = d /\ t.tag = 0 /\ t.meta = 0
        /\ t.meta < 240 => t.tag = t.meta \div 16
<1> SUFFICES ASSUME NEW d \in Decoders
             PROVE  LET t == TagNumber(d)
                    IN  /\ Kept(d, t.d) /\ t.d \in Decoders /\ t.tag \in Byte /\ t.meta \in Byte
                        /\ d.err = FALSE => Left(t.d) < Left(d)
                        /\ d.err = TRUE => t.d = d /\ t.tag = 0 /\ t.meta = 0
                        /\ t.meta < 240 => t.tag = t.meta \div 16
  OBVIOUS
<1> DEFINE x == Decode(d, 1)
           y == Decode(x.d, 1)
           t == TagNumber(d)
<1>1. t = IF x.v[1] >= 240 THEN [d |-> y.d, tag |-> y.v[1], meta |-> x.v[1]]
          ELSE [d |-> x.d, tag |-> x.v[1] \div 16, meta |-> x.v[1]]
  BY DEF TagNumber
<1>2. Kept(d, t.d) /\ t.tag \in Byte /\ t.meta \in Byte /\ (d.err = FALSE => Left(t.d) < Left(d))
  BY KeptTag
<1>3. t.d \in Decoders
  <2> HIDE DEF t
  <2> QED
    BY <1>2 DEF Kept
<1>4. d.err = TRUE => t = [d |-> d, tag |-> 0, meta |-> 0]
  BY StuckTag
<1>5. t.meta < 240 => t.tag = t.meta \div 16
  <2> HIDE DEF x, y, t
  <2>1. CASE x.v[1] >= 240
    <3>1. t = [d |-> y.d, tag |-> y.v[1], meta |-> x.v[1]]
      BY <1>1, <2>1
    <3>2. t.meta = x.v[1]
      BY <3>1
    <3>3. t.meta \in Nat
      BY <1>2 DEF Byte
    <3> QED
      BY <2>1, <3>2, <3>3
  <2>2. CASE ~(x.v[1] >= 240)
    <3>1. t = [d |-> x.d, tag |-> x.v[1] \div 16, meta |-> x.v[1]]
      BY <1>1, <2>2
    <3> QED
      BY <3>1
  <2> QED
    BY <2>1, <2>2
<1> HIDE DEF t
<1>6. d.err = TRUE => t.d = d /\ t.tag = 0 /\ t.meta = 0
  BY <1>4
<1> QED
  BY <1>2, <1>3, <1>5, <1>6 DEF t

\* A property that was read, from what is left of the bytes it was read from.
LEMMA WithPropertyOn ==
  \A p \in Places, d \in Decoders : \A prop, index, data, next :
    ReaderIn(p, r) /\ Spent(d) /\ next = WithProperty(d, prop, index, data) =>
      /\ next.place = "property" /\ ReaderIn("property", next.r)
      /\ Left(d) < Left(r.d) => RankOf("property", next.r) < RankOf(p, r)
      /\ p = "value" /\ d = r.d /\ d.err = FALSE =>
           RankOf("property", next.r) < RankOf(p, r)
<1> SUFFICES ASSUME NEW p \in Places, NEW d \in Decoders, NEW prop, NEW index, NEW data,
                    ReaderIn(p, r), Spent(d)
             PROVE  LET next == WithProperty(d, prop, index, data)
                    IN  /\ next.place = "property" /\ ReaderIn("property", next.r)
                        /\ Left(d) < Left(r.d) => RankOf("property", next.r) < RankOf(p, r)
                        /\ p = "value" /\ d = r.d /\ d.err = FALSE =>
                             RankOf("property", next.r) < RankOf(p, r)
  OBVIOUS
<1> DEFINE t == TagNumberAndValue(d)
           props == Append(r.props, [prop |-> prop, index |-> index, data |-> data])
           y == CloseValue(r, t.d, t.tag, t.meta, t.v, props)
           next == WithProperty(d, prop, index, data)
<1>1. next = Give("property", y)
  BY DEF WithProperty, CloseValue
<1>2. next.place = "property" /\ next.r = y
  <2> HIDE DEF y, next
  <2> QED
    BY <1>1 DEF Give
<1>3. /\ Kept(d, t.d) /\ t.tag \in Byte /\ t.meta \in Byte /\ t.v \in Nat
      /\ d.err = FALSE => Left(t.d) < Left(d)
  BY KeptTagAndValue
<1> HIDE DEF t, props
<1>4. Reader(y) /\ y.d = t.d /\ y.tag = t.tag /\ y.meta = t.meta /\ y.length = t.v
  BY FieldsProperty DEF ReaderIn
<1> HIDE DEF y, next
<1>5. y.d \in Decoders /\ Spent(y.d) /\ Left(y.d) <= Left(d)
  BY <1>3, <1>4 DEF Kept
<1>6. ReaderIn("property", y)
  BY <1>3, <1>4, <1>5 DEF ReaderIn, Places
<1>7. /\ Left(y.d) \in Nat /\ Left(d) \in Nat /\ Left(r.d) \in Nat
      /\ r.d \in Decoders
  BY <1>5, LeftKnown DEF ReaderIn
<1>8. Depth(p) \in 0 .. 3 /\ Depth("property") = 1 /\ Depth("value") = 3
  BY Depths DEF Places
<1>9. Left(d) < Left(r.d) => RankOf("property", y) < RankOf(p, r)
  <2>1. Left(d) < Left(r.d) => Left(d) + 4 <= Left(r.d)
    BY <1>7, FallsByFour
  <2> QED
    BY <1>5, <1>7, <1>8, <2>1 DEF RankOf
<1>10. p = "value" /\ d = r.d /\ d.err = FALSE => RankOf("property", y) < RankOf(p, r)
  BY <1>5, <1>7, <1>8 DEF RankOf
<1> QED
  BY <1>2, <1>6, <1>9, <1>10 DEF next

\* The end of a round in a list of values or a time stamp.
LEMMA NextRoundOn ==
  \A p \in {"value", "stamp"}, d \in Decoders : \A list, next :
    ReaderIn(p, r) /\ next = NextRound(d, list) =>
      /\ ReaderIn(next.place, next.r)
      /\ Left(d) <= Left(r.d) =>
           RankOf(next.place, next.r) < RankOf(p, r) \/ Lingers(next.place, next.r)
<1> SUFFICES ASSUME NEW p \in {"value", "stamp"}, NEW d \in Decoders, NEW list, ReaderIn(p, r)
             PROVE  LET next == NextRound(d, list)
                    IN  /\ ReaderIn(next.place, next.r)
                        /\ Left(d) <= Left(r.d) =>
                             \/ RankOf(next.place, next.r) < RankOf(p, r)
                             \/ Lingers(next.place, next.r)
  OBVIOUS
<1> DEFINE t == TagNumber(d)
           y == NextValue(r, t.d, t.tag, t.meta, list)
           next == NextRound(d, list)
<1>1. next = IF IsClosing(t.meta) /\ t.tag = 4 THEN WithProperty(t.d, r.prop, r.index, list)
             ELSE Give("value", y)
  BY DEF NextRound, NextValue
<1>2. /\ Kept(d, t.d) /\ t.d \in Decoders /\ t.tag \in Byte /\ t.meta \in Byte
      /\ d.err = FALSE => Left(t.d) < Left(d)
      /\ d.err = TRUE => t.d = d /\ t.tag = 0 /\ t.meta = 0
      /\ t.meta < 240 => t.tag = t.meta \div 16
  BY TagOn
<1>3. Reader(y) /\ y.d = t.d /\ y.tag = t.tag /\ y.meta = t.meta
  BY FieldsRound DEF ReaderIn
<1> HIDE DEF t, y, next
<1>4. p \in Places /\ r.d \in Decoders /\ d.err \in BOOLEAN /\ Depth(p) \in {2, 3}
  BY Depths DEF ReaderIn, Places, Decoders
<1>5. Left(t.d) \in Nat /\ Left(d) \in Nat /\ Left(r.d) \in Nat
  BY <1>2, <1>4, LeftKnown
<1>6. CASE IsClosing(t.meta) /\ t.tag = 4
  <2>1. next = WithProperty(t.d, r.prop, r.index, list)
    BY <1>1, <1>6
  <2>2. d.err = FALSE
    BY <1>2, <1>4, <1>6
  <2>3. Spent(t.d)
    BY <1>2, <2>2 DEF Kept, Spent
  <2>4. /\ next.place = "property" /\ ReaderIn("property", next.r)
        /\ Left(t.d) < Left(r.d) => RankOf("property", next.r) < RankOf(p, r)
    BY <1>2, <1>4, <2>1, <2>3, WithPropertyOn
  <2>5. Left(d) <= Left(r.d) => Left(t.d) < Left(r.d)
    BY <1>2, <1>5, <2>2
  <2> QED
    BY <2>4, <2>5 DEF next
<1>7. CASE ~(IsClosing(t.meta) /\ t.tag = 4)
  <2>1. next = Give("value", y)
    BY <1>1, <1>7
  <2>2. next.place = "value" /\ next.r = y
    BY <2>1 DEF Give
  <2>3. y.d.err = TRUE => y.d.buf = <<>> \/ (y.tag = 0 /\ y.meta = 0)
    <3>1. CASE d.err = TRUE
      BY <1>2, <1>3, <3>1
    <3>2. CASE d.err = FALSE
      BY <1>2, <1>3, <3>2 DEF Kept, Spent
    <3> QED
      BY <1>4, <3>1, <3>2
  <2>4. ReaderIn("value", y)
    BY <1>2, <1>3, <2>3 DEF ReaderIn, Places
  <2>5. CASE d.err = TRUE
    <3>1. y.d.err = TRUE
      BY <1>2, <1>3, <2>5
    <3>2. Lingers("value", y)
      BY <3>1 DEF Lingers
    <3> QED
      BY <2>2, <2>4, <3>2 DEF next
  <2>6. CASE d.err = FALSE
    <3>1. Left(d) <= Left(r.d) => Left(t.d) + 4 <= Left(r.d)
      <4>1. Left(t.d) + 4 <= Left(d)
        BY <1>2, <2>6, FallsByFour
      <4> QED
        BY <1>5, <4>1
    <3>2. Left(d) <= Left(r.d) => RankOf("value", y) < RankOf(p, r)
      BY <1>3, <1>4, <1>5, <3>1, Depths DEF RankOf
    <3> QED
      BY <2>2, <2>4, <3>2 DEF next
  <2> QED
    BY <1>4, <2>5, <2>6
<1> QED
  BY <1>6, <1>7

\* What is kept by a step that ends in a lower rank.
LEMMA RankFalls ==
  \A p, q \in Places : \A x, y :
    x.d \in Decoders /\ y.d \in Decoders =>
      /\ Left(y.d) < Left(x.d) => RankOf(q, y) < RankOf(p, x)
      /\ Left(y.d) <= Left(x.d) /\ Depth(q) < Depth(p) => RankOf(q, y) < RankOf(p, x)
<1> SUFFICES ASSUME NEW p \in Places, NEW q \in Places, NEW x, NEW y,
                    x.d \in Decoders, y.d \in Decoders
             PROVE  /\ Left(y.d) < Left(x.d) => RankOf(q, y) < RankOf(p, x)
                    /\ Left(y.d) <= Left(x.d) /\ Depth(q) < Depth(p) =>
                         RankOf(q, y) < RankOf(p, x)
  OBVIOUS
<1>1. Left(x.d) \in Nat /\ Left(y.d) \in Nat
  BY LeftKnown
<1>2. Depth(p) \in 0 .. 3 /\ Depth(q) \in 0 .. 3
  BY Depths DEF Places
<1>3. Left(y.d) < Left(x.d) => Left(y.d) + 4 <= Left(x.d)
  BY FallsByFour
<1> QED
  BY <1>1, <1>2, <1>3 DEF RankOf

\* A reader that opened an object.
LEMMA OpenOn ==
  \A d \in Decoders, tag \in Byte, meta \in Byte, v \in Nat : \A i :
    ReaderIn("object", r) /\ Spent(d) /\ Left(d) < Left(r.d) =>
      GetsOn("object", r, Give("property", OpenObject(r, d, tag, meta, v, i)))
<1> SUFFICES ASSUME NEW d \in Decoders, NEW tag \in Byte, NEW meta \in Byte, NEW v \in Nat, NEW i,
                    ReaderIn("object", r), Spent(d), Left(d) < Left(r.d)
             PROVE  GetsOn("object", r, Give("property", OpenObject(r, d, tag, meta, v, i)))
  OBVIOUS
<1> DEFINE y == OpenObject(r, d, tag, meta, v, i)
           next == Give("property", y)
<1>1. Reader(r) /\ r.d \in Decoders
  BY DEF ReaderIn
<1>2. /\ Reader(y) /\ y.d = d /\ y.tag = tag /\ y.meta = meta /\ y.length = v
      /\ y.id = i /\ y.props = <<>> /\ y.objects = r.objects
  BY <1>1, FieldsFirst
<1> HIDE DEF y
<1>3. next.place = "property" /\ next.r = y
  BY DEF Give
<1> HIDE DEF next
<1>4. ReaderIn("property", y)
  BY <1>2 DEF ReaderIn, Places
<1>5. RankOf("property", y) < RankOf("object", r)
  BY <1>1, <1>2, RankFalls DEF Places
<1>6. GetsOn("object", r, next)
  BY <1>3, <1>4, <1>5 DEF GetsOn
<1> QED
  BY <1>6 DEF next, y

\* An object that was opened, and its first tag.
LEMMA ObjectOn ==
  ASSUME ReaderIn("object", r), NEW t, NEW id, NEW open, NEW first,
         t = TagNumberAndValue(r.d), id = DecodeObjectId(t.d), open = TagNumber(id.d),
         first = TagNumberAndValue(open.d)
  PROVE  GetsOn("object", r, ObjectRound(t, id, open, first))
<1> DEFINE next == ObjectRound(t, id, open, first)
           pair == <<id.type, id.instance>>
           y == OpenObject(r, first.d, first.tag, first.meta, first.v, pair)
           x4 == Decode(t.d, 4)
<1>1. \/ next = Leave([objects |-> r.objects, err |-> r.d.err])
      \/ next = Refuse
      \/ next = Give("property", y) /\ ~r.d.err
  BY DEF ObjectRound, OpenObject
<1>2. r.d \in Decoders /\ r.d.err \in BOOLEAN
  BY DEF ReaderIn, Decoders
<1>3. Kept(r.d, t.d) /\ t.d \in Decoders /\ (r.d.err = FALSE => Left(t.d) < Left(r.d))
  BY <1>2, KeptTagAndValue DEF Kept
<1>4. Kept(t.d, id.d) /\ id.d \in Decoders
  <2>1. id.d = x4.d
    BY DEF DecodeObjectId
  <2>2. Kept(t.d, x4.d)
    BY <1>3, KeptDecode
  <2> HIDE DEF x4
  <2> QED
    BY <2>1, <2>2 DEF Kept
<1>5. Kept(id.d, open.d) /\ open.d \in Decoders
  BY <1>4, TagOn
<1>6. Kept(open.d, first.d) /\ first.d \in Decoders /\ first.tag \in Byte /\ first.meta \in Byte
      /\ first.v \in Nat
  BY <1>5, KeptTagAndValue DEF Kept
<1>7. Kept(t.d, first.d)
  BY <1>3, <1>4, <1>5, <1>6, KeptThen
<1>8. Kept(r.d, first.d)
  BY <1>2, <1>3, <1>7, KeptThen
<1> HIDE DEF next, pair
<1>10. CASE next = Give("property", y) /\ ~r.d.err
  <2>1. Spent(first.d)
    BY <1>8, <1>10 DEF Kept, Spent
  <2>2. Left(first.d) <= Left(t.d) /\ Left(t.d) < Left(r.d)
    BY <1>2, <1>3, <1>7, <1>10 DEF Kept
  <2>3. Left(first.d) < Left(r.d)
    <3>1. Left(first.d) \in Nat /\ Left(t.d) \in Nat /\ Left(r.d) \in Nat
      BY <1>2, <1>3, <1>6, LeftKnown
    <3> QED
      BY <2>2, <3>1
  <2>4. GetsOn("object", r, Give("property", y))
    BY <1>6, <2>1, <2>3, OpenOn
  <2> QED
    BY <1>10, <2>4 DEF next
<1>11. CASE next = Leave([objects |-> r.objects, err |-> r.d.err]) \/ next = Refuse
  <2>1. next.place = None
    BY <1>11 DEF Leave, Refuse
  <2> QED
    BY <2>1 DEF GetsOn, next
<1> QED
  BY <1>1, <1>10, <1>11

\* An object that is complete.
LEMMA CloseOn ==
  ASSUME ReaderIn("property", r), NEW objects
  PROVE  GetsOn("property", r, Give("object", [r EXCEPT !.objects = objects]))
<1> DEFINE y == CloseObject(r, objects)
<1>1. Reader(y) /\ y.d = r.d
  BY FieldsObject DEF ReaderIn
<1> DEFINE next == Give("object", y)
<1>2. next.place = "object" /\ next.r = y
  BY DEF Give
<1>3. Give("object", [r EXCEPT !.objects = objects]) = next
  BY DEF CloseObject
<1> HIDE DEF y, next
<1>4. ReaderIn("object", y)
  BY <1>1 DEF ReaderIn, Places
<1>5. Left(y.d) <= Left(r.d)
  BY <1>1, LeftKnown DEF ReaderIn
<1>6. RankOf("object", y) < RankOf("property", r)
  <2>1. Depth("object") < Depth("property")
    BY Depths
  <2> QED
    BY <1>1, <1>4, <1>5, <2>1, RankFalls DEF ReaderIn, Places
<1>7. GetsOn("property", r, next)
  BY <1>2, <1>4, <1>6 DEF GetsOn
<1> QED
  BY <1>3, <1>7

\* What the round that reads a tag again changes in the decoder's variables,
ReadAgain(x, d, meta) == [x EXCEPT !.d = d, !.meta = meta]

\* what a reader is after it,
LEMMA FieldsTag ==
  \A x, d, meta : Reader(x) =>
    LET y == ReadAgain(x, d, meta)
    IN  Reader(y) /\ y.d = d /\ y.tag = x.tag /\ y.meta = meta /\ y.length = x.length
<1> SUFFICES ASSUME NEW x, NEW d, NEW meta, Reader(x)
             PROVE  LET y == ReadAgain(x, d, meta)
                    IN  /\ Reader(y) /\ y.d = d /\ y.tag = x.tag /\ y.meta = meta
                        /\ y.length = x.length
  OBVIOUS
<1> DEFINE y == [x EXCEPT !.d = d, !.meta = meta]
<1>1. DOMAIN x = Fields /\ x = [f \in DOMAIN x |-> x[f]]
  BY DEF Reader
<1>2. Reader(y)
  <2>1. y = [f \in DOMAIN y |-> y[f]] /\ DOMAIN y = DOMAIN x
    BY <1>1
  <2> HIDE DEF y
  <2> QED
    BY <1>1, <2>1 DEF Reader
<1>3. y.d = d /\ y.tag = x.tag /\ y.meta = meta /\ y.length = x.length
  BY <1>1 DEF Fields
<1> QED
  BY <1>2, <1>3 DEF ReadAgain

\* and what the rounds of a time stamp change.
OpenStamp(x, stamp) == [x EXCEPT !.stamp = stamp]
NextStamp(x, d, tag, meta, stamp) == [x EXCEPT !.d = d, !.tag = tag, !.meta = meta, !.stamp = stamp]

\* What a reader is in a time stamp.
LEMMA FieldsStamp ==
  \A x, d, tag, meta, stamp : Reader(x) =>
    /\ Reader(OpenStamp(x, stamp)) /\ OpenStamp(x, stamp).d = x.d
    /\ Reader(NextStamp(x, d, tag, meta, stamp)) /\ NextStamp(x, d, tag, meta, stamp).d = d
<1> SUFFICES ASSUME NEW x, NEW d, NEW tag, NEW meta, NEW stamp, Reader(x)
             PROVE  /\ Reader(OpenStamp(x, stamp)) /\ OpenStamp(x, stamp).d = x.d
                    /\ Reader(NextStamp(x, d, tag, meta, stamp))
                    /\ NextStamp(x, d, tag, meta, stamp).d = d
  OBVIOUS
<1> DEFINE y == [x EXCEPT !.d = d, !.tag = tag, !.meta = meta, !.stamp = stamp]
           z == [x EXCEPT !.stamp = stamp]
<1>1. DOMAIN x = Fields /\ x = [f \in DOMAIN x |-> x[f]]
  BY DEF Reader
<1>2. Reader(y)
  <2>1. y = [f \in DOMAIN y |-> y[f]] /\ DOMAIN y = DOMAIN x
    BY <1>1
  <2> HIDE DEF y
  <2> QED
    BY <1>1, <2>1 DEF Reader
<1>3. Reader(z)
  <2>1. z = [f \in DOMAIN z |-> z[f]] /\ DOMAIN z = DOMAIN x
    BY <1>1
  <2> HIDE DEF z
  <2> QED
    BY <1>1, <2>1 DEF Reader
<1>4. y.d = d /\ z.d = x.d
  BY <1>1 DEF Fields
<1> QED
  BY <1>2, <1>3, <1>4 DEF OpenStamp, NextStamp

\* A tag read again in an object.
LEMMA AgainOn ==
  \A d \in Decoders, meta \in Byte :
    ReaderIn("property", r) /\ Spent(d) /\ Left(d) < Left(r.d) =>
      GetsOn("property", r, Give("property", ReadAgain(r, d, meta)))
<1> SUFFICES ASSUME NEW d \in Decoders, NEW meta \in Byte,
                    ReaderIn("property", r), Spent(d), Left(d) < Left(r.d)
             PROVE  GetsOn("property", r, Give("property", ReadAgain(r, d, meta)))
  OBVIOUS
<1> DEFINE y == ReadAgain(r, d, meta)
           next == Give("property", y)
<1>1. Reader(r) /\ r.d \in Decoders /\ r.tag \in Byte /\ r.length \in Nat
  BY DEF ReaderIn
<1>2. Reader(y) /\ y.d = d /\ y.tag = r.tag /\ y.meta = meta /\ y.length = r.length
  BY <1>1, FieldsTag
<1> HIDE DEF y
<1>3. next.place = "property" /\ next.r = y
  BY DEF Give
<1> HIDE DEF next
<1>4. ReaderIn("property", y)
  BY <1>1, <1>2 DEF ReaderIn, Places
<1>5. RankOf("property", y) < RankOf("property", r)
  BY <1>1, <1>2, RankFalls DEF Places
<1>6. GetsOn("property", r, next)
  BY <1>3, <1>4, <1>5 DEF GetsOn
<1> QED
  BY <1>6 DEF next, y

\* A reader that opened a value.
LEMMA OpenValueOn ==
  \A d \in Decoders, tag \in Byte, meta \in Byte : \A prop, index :
    /\ ReaderIn("property", r) /\ d.err = FALSE /\ Left(d) < Left(r.d)
    /\ meta < 240 => tag = meta \div 16
    => GetsOn("property", r, Give("value", OpenValue(r, d, tag, meta, prop, index)))
<1> SUFFICES ASSUME NEW d \in Decoders, NEW tag \in Byte, NEW meta \in Byte, NEW prop, NEW index,
                    ReaderIn("property", r), d.err = FALSE, Left(d) < Left(r.d),
                    meta < 240 => tag = meta \div 16
             PROVE  GetsOn("property", r, Give("value", OpenValue(r, d, tag, meta, prop, index)))
  OBVIOUS
<1> DEFINE y == OpenValue(r, d, tag, meta, prop, index)
           next == Give("value", y)
<1>1. Reader(r) /\ r.d \in Decoders
  BY DEF ReaderIn
<1>2. Reader(y) /\ y.d = d /\ y.tag = tag /\ y.meta = meta
  BY <1>1, FieldsValue
<1> HIDE DEF y
<1>3. next.place = "value" /\ next.r = y
  BY DEF Give
<1> HIDE DEF next
<1>4. ReaderIn("value", y)
  BY <1>2 DEF ReaderIn, Places
<1>5. RankOf("value", y) < RankOf("property", r)
  BY <1>1, <1>2, RankFalls DEF Places
<1>6. GetsOn("property", r, next)
  BY <1>3, <1>4, <1>5 DEF GetsOn
<1> QED
  BY <1>6 DEF next, y

\* A reader behind a property, when less is left than there was.
LEMMA BehindOn ==
  \A d \in Decoders : \A prop, index, data :
    ReaderIn("property", r) /\ Spent(d) /\ Left(d) < Left(r.d) =>
      GetsOn("property", r, WithProperty(d, prop, index, data))
  BY WithPropertyOn DEF GetsOn, Places

\* What is read of a number that follows a tag.
LEMMA KeptUnsignedOf ==
  \A t : t.d \in Decoders /\ t.meta \in Byte =>
    Kept(t.d, UnsignedOf(ValueOf(t)).d) /\ UnsignedOf(ValueOf(t)).d \in Decoders
<1> SUFFICES ASSUME NEW t, t.d \in Decoders, t.meta \in Byte
             PROVE  Kept(t.d, UnsignedOf(ValueOf(t)).d) /\ UnsignedOf(ValueOf(t)).d \in Decoders
  OBVIOUS
<1> DEFINE s == TagValue(t.d, t.meta)
           u == DecodeUnsigned(s.d, s.v)
<1>1. UnsignedOf(ValueOf(t)) = u
  BY DEF UnsignedOf, ValueOf
<1>2. Kept(t.d, s.d) /\ s.v \in Nat /\ s.d \in Decoders
  BY KeptLength DEF Kept
<1> HIDE DEF s
<1>3. Kept(s.d, u.d) /\ u.d \in Decoders
  BY <1>2, KeptUnsigned DEF Kept
<1> HIDE DEF u
<1>4. Kept(t.d, u.d)
  BY <1>2, <1>3, KeptThen
<1> QED
  BY <1>1, <1>3, <1>4

\* What is read of an error's class and code.
LEMMA KeptError ==
  \A d \in Decoders : Kept(d, DecodeBacError(d).d) /\ DecodeBacError(d).d \in Decoders
<1> SUFFICES ASSUME NEW d \in Decoders
             PROVE  Kept(d, DecodeBacError(d).d) /\ DecodeBacError(d).d \in Decoders
  OBVIOUS
<1> DEFINE class == DecodeAppData(d)
           code == DecodeAppData(class.d)
<1>1. DecodeBacError(d).d = code.d
  BY DEF DecodeBacError
<1>2. Kept(d, class.d) /\ class.d \in Decoders
  BY KeptValue DEF Kept
<1> HIDE DEF class
<1>3. Kept(class.d, code.d) /\ code.d \in Decoders
  BY <1>2, KeptValue DEF Kept
<1> HIDE DEF code
<1>4. Kept(d, code.d)
  BY <1>2, <1>3, KeptThen
<1> QED
  BY <1>1, <1>3, <1>4

\* A round over the properties of an object.
LEMMA PropertyOn ==
  ASSUME ReaderIn("property", r), InProperties
  PROVE  GetsOn("property", r, PropertyRound)
<1> DEFINE prop == DecodeUnsigned(r.d, r.length)
           p == Natural(prop.v)
           t3 == TagNumber(prop.d)
           idx == UnsignedOf(ValueOf(t3))
           next == IF t3.tag = 3 THEN TagNumber(idx.d) ELSE t3
           index == IF t3.tag = 3 THEN idx.v ELSE ArrayAll
           first == TagNumber(next.d)
           x == DecodeBacError(next.d)
           end == TagNumber(x.d)
           y == PropertyRound
<1>1. \/ y = Refuse
      \/ y = Give("property", ReadAgain(r, t3.d, t3.meta))
      \/ first.d.err # TRUE /\ y = Give("value", OpenValue(r, first.d, first.tag, first.meta, p, index))
      \/ y = WithProperty(end.d, p, index, ErrorValue)
  <2>1. y = IF \/ ~IsContextSpecific(r.meta)
               \/ t3.tag = 3 /\ ~IsContextSpecific(t3.meta) THEN Refuse
            ELSE CASE t3.tag = 2 -> Give("property", ReadAgain(r, t3.d, t3.meta))
                   [] next.tag = 4 /\ IsOpening(next.meta) ->
                        IF first.d.err THEN Refuse
                        ELSE Give("value", OpenValue(r, first.d, first.tag, first.meta, p, index))
                   [] next.tag = 5 /\ IsOpening(next.meta) ->
                        IF x.err THEN Refuse ELSE WithProperty(end.d, p, index, ErrorValue)
                   [] OTHER -> Refuse
    BY DEF PropertyRound, ReadAgain, OpenValue
  <2> DEFINE bad == \/ ~IsContextSpecific(r.meta)
                    \/ t3.tag = 3 /\ ~IsContextSpecific(t3.meta)
             value == next.tag = 4 /\ IsOpening(next.meta)
             error == next.tag = 5 /\ IsOpening(next.meta)
  <2>7. t3.tag = 2 => next.tag = 2
    OBVIOUS
  <2> HIDE DEF p, t3, index, first, next, x, end, y, bad, value, error
  <2>2. CASE bad
    BY <2>1, <2>2 DEF bad
  <2>3. CASE ~bad /\ t3.tag = 2
    <3>1. ~value /\ ~error
      BY <2>3, <2>7 DEF value, error
    <3>2. y = IF bad THEN Refuse
              ELSE CASE t3.tag = 2 -> Give("property", ReadAgain(r, t3.d, t3.meta))
                   [] value ->
                        IF first.d.err THEN Refuse
                        ELSE Give("value", OpenValue(r, first.d, first.tag, first.meta, p, index))
                   [] error ->
                        IF x.err THEN Refuse ELSE WithProperty(end.d, p, index, ErrorValue)
                   [] OTHER -> Refuse
      BY <2>1 DEF bad, value, error
    <3> QED
      BY <2>3, <3>1, <3>2
  <2>4. CASE ~bad /\ t3.tag # 2 /\ value
    <3>1. y = IF first.d.err THEN Refuse
              ELSE Give("value", OpenValue(r, first.d, first.tag, first.meta, p, index))
      BY <2>1, <2>4 DEF bad, value
    <3> QED
      BY <3>1
  <2>5. CASE ~bad /\ t3.tag # 2 /\ ~value /\ error
    BY <2>1, <2>5 DEF bad, value, error
  <2>6. CASE ~bad /\ t3.tag # 2 /\ ~value /\ ~error
    BY <2>1, <2>6 DEF bad, value, error
  <2> QED
    BY <2>2, <2>3, <2>4, <2>5, <2>6
<1>2. /\ r.d \in Decoders /\ r.length \in Nat /\ Spent(r.d) /\ r.d.err = FALSE
      /\ Left(r.d) \in Nat /\ Left(r.d) > 0
  <2>1. r.d \in Decoders /\ r.length \in Nat /\ Spent(r.d)
    BY DEF ReaderIn
  <2>2. r.d.err = FALSE
    BY <2>1 DEF InProperties, Spent, Decoders
  <2>3. Left(r.d) \in Nat /\ Len(r.d.buf) \in Nat
    BY <2>1, LeftKnown
  <2>4. Left(r.d) = 8 * Len(r.d.buf) + 4
    BY <2>2 DEF Left
  <2> QED
    BY <2>1, <2>2, <2>3, <2>4
<1>3. Kept(r.d, prop.d) /\ prop.d \in Decoders /\ Spent(prop.d)
  BY <1>2, KeptUnsigned DEF Kept
<1> HIDE DEF prop
<1>4. /\ Kept(prop.d, t3.d) /\ t3.d \in Decoders /\ t3.meta \in Byte /\ t3.tag \in Byte
      /\ t3.meta < 240 => t3.tag = t3.meta \div 16
      /\ prop.d.err = FALSE => Left(t3.d) < Left(prop.d)
  BY <1>3, TagOn
<1> HIDE DEF t3
<1>5. Left(t3.d) < Left(r.d)
  <2>1. Left(t3.d) \in Nat /\ Left(prop.d) \in Nat
    BY <1>3, <1>4, LeftKnown
  <2>2. CASE prop.d.err = TRUE
    <3>1. Left(prop.d) = 0
      <4>1. Len(prop.d.buf) = 0
        BY <1>3, <2>2, EmptySeq DEF Spent
      <4>2. Left(prop.d) = 8 * Len(prop.d.buf) + 0
        BY <2>2 DEF Left
      <4> QED
        BY <4>1, <4>2
    <3> QED
      BY <1>2, <1>4, <2>1, <3>1 DEF Kept
  <2>3. CASE prop.d.err = FALSE
    BY <1>2, <1>3, <1>4, <2>1, <2>3 DEF Kept
  <2> QED
    BY <1>3, <2>2, <2>3 DEF Decoders
<1>6. Spent(t3.d)
  BY <1>3, <1>4 DEF Kept
<1>7. Kept(t3.d, idx.d) /\ idx.d \in Decoders
  BY <1>4, KeptUnsignedOf
<1> HIDE DEF idx
<1>8. Kept(t3.d, next.d) /\ next.d \in Decoders
  <2>1. CASE t3.tag = 3
    <3>1. next = TagNumber(idx.d)
      BY <2>1
    <3>2. Kept(idx.d, TagNumber(idx.d).d) /\ TagNumber(idx.d).d \in Decoders
      BY <1>7, TagOn
    <3> HIDE DEF next
    <3> QED
      BY <1>4, <1>7, <3>1, <3>2, KeptThen
  <2>2. CASE t3.tag # 3
    BY <1>4, <2>2, KeptSame
  <2> QED
    BY <2>1, <2>2
<1> HIDE DEF next, index
<1>9. /\ Kept(next.d, first.d) /\ first.d \in Decoders /\ first.tag \in Byte /\ first.meta \in Byte
      /\ first.meta < 240 => first.tag = first.meta \div 16
  BY <1>8, TagOn
<1>10. Kept(next.d, x.d) /\ x.d \in Decoders
  BY <1>8, KeptError
<1> HIDE DEF x, first
<1>11. Kept(x.d, end.d) /\ end.d \in Decoders
  BY <1>10, TagOn
<1> HIDE DEF end, p
<1>12. Kept(next.d, end.d)
  BY <1>8, <1>10, <1>11, KeptThen
<1>13. Kept(t3.d, first.d) /\ Kept(t3.d, end.d)
  BY <1>4, <1>8, <1>9, <1>12, KeptThen
<1>14. Left(first.d) < Left(r.d) /\ Left(end.d) < Left(r.d) /\ Spent(end.d)
  <2>1. Left(first.d) \in Nat /\ Left(end.d) \in Nat /\ Left(t3.d) \in Nat
    BY <1>4, <1>9, <1>11, LeftKnown
  <2> QED
    BY <1>2, <1>5, <1>6, <1>13, <2>1 DEF Kept
<1> HIDE DEF y
<1>15. CASE y = Refuse
  <2>1. y.place = None
    BY <1>15 DEF Refuse, Leave
  <2> QED
    BY <2>1 DEF GetsOn, y
<1>16. CASE y = Give("property", ReadAgain(r, t3.d, t3.meta))
  BY <1>4, <1>5, <1>6, <1>16, AgainOn DEF y
<1>17. CASE first.d.err # TRUE
            /\ y = Give("value", OpenValue(r, first.d, first.tag, first.meta, p, index))
  <2>1. first.d.err = FALSE
    BY <1>9, <1>17 DEF Decoders
  <2> QED
    BY <1>9, <1>14, <1>17, <2>1, OpenValueOn DEF y
<1>18. CASE y = WithProperty(end.d, p, index, ErrorValue)
  BY <1>11, <1>14, <1>18, BehindOn DEF y
<1> QED
  BY <1>1, <1>15, <1>16, <1>17, <1>18

\* A round that ends with the tag behind it.
LEMMA RoundEnds ==
  \A p \in {"value", "stamp"}, d \in Decoders : \A list :
    ReaderIn(p, r) /\ (Left(d) <= Left(r.d) \/ Lingers(p, r)) => GetsOn(p, r, NextRound(d, list))
  BY NextRoundOn DEF GetsOn

\* The byte that is put back before a closing tag is read once more.
LEMMA UnreadOn ==
  ASSUME ReaderIn("value", r), IsContextSpecific(r.meta), IsClosing(r.meta), NEW list
  PROVE  GetsOn("value", r, NextRound(Unread(r.d), list))
<1> DEFINE b == IF r.meta >= 240 THEN r.tag ELSE r.meta
           u == Unread(r.d)
           t == TagNumber(u)
           y == NextRound(u, list)
<1>1. /\ r.d \in Decoders /\ r.tag \in Byte /\ r.meta \in Byte
      /\ r.d.buf \in Bytes /\ r.d.err \in BOOLEAN
      /\ r.meta < 240 => r.tag = r.meta \div 16
  BY DEF ReaderIn, Decoders
<1>2. b \in Byte
  BY <1>1
<1>3. u = [buf |-> <<b>> \o r.d.buf, err |-> r.d.err]
  <2>1. r.d = [buf |-> r.d.buf, err |-> r.d.err]
    BY <1>1 DEF Decoders
  <2>2. u = [r.d EXCEPT !.buf = <<b>> \o r.d.buf]
    BY DEF Unread
  <2> HIDE DEF u, b
  <2> QED
    BY <2>1, <2>2
<1> HIDE DEF b
<1>4. <<b>> \o r.d.buf \in Bytes
  <2>1. <<b>> \in Bytes
    BY <1>2 DEF Bytes
  <2> QED
    BY <1>1, <2>1, AppendIn
<1>5. u \in Decoders
  BY <1>1, <1>3, <1>4 DEF Decoders
<1>6. CASE Lingers("value", r)
  BY <1>5, <1>6, RoundEnds
<1>7. CASE ~Lingers("value", r)
  <2>1. r.d.err = FALSE /\ r.tag = 4 /\ ~(r.meta >= 240)
    BY <1>1, <1>7 DEF Lingers
  <2>2. b = r.meta /\ r.meta < 240
    BY <1>1, <2>1 DEF b, Byte
  <2>3. r.meta \div 16 = 4
    BY <1>1, <2>1, <2>2
  <2>4. u = Good(<<r.meta>> \o r.d.buf) /\ r.d = Good(r.d.buf)
    BY <1>1, <1>3, <2>1, <2>2 DEF Good, Decoders
  <2> DEFINE first == Decode(u, 1)
  <2>5. first = [d |-> r.d, v |-> <<r.meta>>]
    BY <1>1, <2>4, ReadByte
  <2> HIDE DEF first, u
  <2>6. first.d = r.d /\ first.v[1] = r.meta
    BY <2>5
  <2>7. t = [d |-> r.d, tag |-> 4, meta |-> r.meta]
    BY <2>1, <2>3, <2>6 DEF TagNumber, first
  <2> HIDE DEF t
  <2>8. t.d = r.d /\ t.tag = 4 /\ t.meta = r.meta
    BY <2>7
  <2>9. y = WithProperty(r.d, r.prop, r.index, list)
    <3>1. IsClosing(t.meta) /\ t.tag = 4
      BY <2>8
    <3>2. y = WithProperty(t.d, r.prop, r.index, list)
      BY <3>1 DEF NextRound, t
    <3> QED
      BY <2>8, <3>2
  <2> HIDE DEF y
  <2>10. Spent(r.d)
    BY <2>1 DEF Spent
  <2>11. y.place = "property" /\ ReaderIn("property", y.r)
         /\ RankOf("property", y.r) < RankOf("value", r)
    BY <1>1, <2>1, <2>9, <2>10, WithPropertyOn DEF Places
  <2> QED
    BY <2>11 DEF GetsOn, y, u
<1> QED
  BY <1>6, <1>7

\* A time stamp that begins in a list of values.
LEMMA StampBegins ==
  ASSUME ReaderIn("value", r), IsOpening(r.meta), NEW stamp
  PROVE  GetsOn("value", r, Give("stamp", OpenStamp(r, stamp)))
<1> DEFINE y == OpenStamp(r, stamp)
           next == Give("stamp", y)
<1>1. Reader(r) /\ r.d \in Decoders
  BY DEF ReaderIn
<1>2. Reader(y) /\ y.d = r.d
  BY <1>1, FieldsStamp
<1> HIDE DEF y
<1>3. next.place = "stamp" /\ next.r = y
  BY DEF Give
<1> HIDE DEF next
<1>4. Spent(y.d)
  <2>1. r.meta # 0
    BY DEF IsOpening
  <2> QED
    BY <1>2, <2>1 DEF ReaderIn, Spent
<1>5. ReaderIn("stamp", y)
  BY <1>1, <1>2, <1>4 DEF ReaderIn, Places
<1>6. RankOf("stamp", y) < RankOf("value", r)
  <2>1. Depth("stamp") < Depth("value")
    BY Depths
  <2>2. Left(y.d) <= Left(r.d)
    BY <1>1, <1>2, LeftKnown
  <2> QED
    BY <1>1, <1>2, <2>1, <2>2, RankFalls DEF Places
<1>7. GetsOn("value", r, next)
  BY <1>3, <1>5, <1>6 DEF GetsOn
<1> QED
  BY <1>7 DEF next, y

\* A round over the values of a list.
LEMMA ValueOn ==
  ASSUME ReaderIn("value", r)
  PROVE  GetsOn("value", r, ValueRound)
<1> DEFINE context == IsContextSpecific(r.meta)
           opening == IsOpening(r.meta)
           closing == IsClosing(r.meta)
           size == TagValue(r.d, r.meta)
           tag == IF context THEN TagTypeInContext(r.prop, r.tag) ELSE r.tag
           x == AppDataOfTag(size.d, tag, size.v)
           skipped == Read(size.d, size.v)
           behind == [size.d EXCEPT !.buf = skipped.d.buf]
           list == Grown(r.list, x.x)
           y == ValueRound
<1>1. \/ context /\ closing /\ y = NextRound(Unread(r.d), r.list)
      \/ opening /\ y = Give("stamp", OpenStamp(r, Zeros(8)))
      \/ y = NextRound(r.d, r.list)
      \/ y = Refuse
      \/ y = NextRound(behind, r.list)
      \/ y = NextRound(x.d, list)
  <2>1. closing => opening
    BY DEF IsOpening, IsClosing
  <2> DEFINE bad == size.v > 0 /\ skipped.d.err
             stamp == Give("stamp", OpenStamp(r, Zeros(8)))
             most == tag = MaxTag
  <2>2. y = CASE context /\ closing -> NextRound(Unread(r.d), r.list)
              [] context /\ opening /\ ~closing ->
                    IF r.tag = TimeStampDatetime THEN stamp ELSE NextRound(r.d, r.list)
              [] context /\ ~opening /\ most ->
                    IF bad THEN Refuse ELSE NextRound(behind, r.list)
              [] OTHER -> IF x.err THEN Refuse ELSE NextRound(x.d, list)
    BY DEF ValueRound, OpenStamp
  <2> HIDE DEF context, opening, closing, size, tag, x, skipped, behind, list, y, bad, stamp, most
  <2>3. CASE context /\ closing
    BY <2>1, <2>2, <2>3
  <2>4. CASE context /\ opening /\ ~closing
    BY <2>2, <2>4 DEF stamp
  <2>5. CASE context /\ ~opening /\ most
    BY <2>1, <2>2, <2>5
  <2>6. CASE ~context \/ (~opening /\ ~most)
    BY <2>1, <2>2, <2>6
  <2> QED
    BY <2>3, <2>4, <2>5, <2>6
<1>2. r.d \in Decoders /\ r.meta \in Byte
  BY DEF ReaderIn
<1>3. Kept(r.d, size.d) /\ size.d \in Decoders /\ size.v \in Nat
  BY <1>2, KeptLength DEF Kept
<1> HIDE DEF size, tag
<1>4. x.d \in Decoders /\ Left(x.d) <= Left(r.d)
  <2>1. Kept(size.d, x.d)
    BY <1>3, KeptOfTag
  <2> HIDE DEF x
  <2> QED
    BY <1>2, <1>3, <2>1, KeptThen DEF Kept
<1> HIDE DEF x, list
<1>5. behind \in Decoders /\ Left(behind) <= Left(r.d)
  <2> DEFINE rest == Rest(size.d.buf, size.v)
  <2>1. size.d.buf \in Bytes /\ Len(size.d.buf) \in Nat /\ size.d.err \in BOOLEAN
        /\ Left(size.d) \in Nat /\ Left(r.d) \in Nat
    BY <1>2, <1>3, LeftKnown
  <2>2. behind = [buf |-> rest, err |-> size.d.err]
    BY <1>3 DEF Read, Decoders
  <2>3. rest \in Bytes /\ Len(rest) = IF size.v <= Len(size.d.buf) THEN Len(size.d.buf) - size.v ELSE 0
    BY <1>3, <2>1, RestBytes
  <2> HIDE DEF rest, behind
  <2>4. behind \in Decoders
    BY <2>1, <2>2, <2>3 DEF Decoders
  <2>5. Len(behind.buf) <= Len(size.d.buf) /\ Len(behind.buf) \in Nat /\ behind.err = size.d.err
    BY <1>3, <2>1, <2>2, <2>3
  <2>6. Left(behind) <= Left(size.d)
    BY <2>1, <2>5 DEF Left
  <2>7. Left(behind) \in Nat
    BY <2>4, LeftKnown
  <2> QED
    BY <1>3, <2>1, <2>4, <2>6, <2>7 DEF Kept
<1>6. Left(r.d) <= Left(r.d)
  BY <1>2, LeftKnown
<1> HIDE DEF behind, y
<1>7. CASE context /\ closing /\ y = NextRound(Unread(r.d), r.list)
  BY <1>7, UnreadOn DEF y
<1>8. CASE opening /\ y = Give("stamp", OpenStamp(r, Zeros(8)))
  BY <1>8, StampBegins DEF y
<1>9. CASE y = NextRound(r.d, r.list)
  BY <1>2, <1>6, <1>9, RoundEnds DEF y
<1>10. CASE y = Refuse
  <2>1. y.place = None
    BY <1>10 DEF Refuse, Leave
  <2> QED
    BY <2>1 DEF GetsOn, y
<1>11. CASE y = NextRound(behind, r.list)
  BY <1>5, <1>11, RoundEnds DEF y
<1>12. CASE y = NextRound(x.d, list)
  BY <1>4, <1>12, RoundEnds DEF y
<1> QED
  BY <1>1, <1>7, <1>8, <1>9, <1>10, <1>11, <1>12

\* A round of a time stamp that stays in it.
LEMMA NextStampOn ==
  \A d \in Decoders : \A tag, meta, v :
    /\ ReaderIn("stamp", r) /\ Kept(r.d, d)
    /\ Left(d) < Left(r.d) \/ Lingers("stamp", r)
    => GetsOn("stamp", r, Give("stamp", NextStamp(r, d, tag, meta, v)))
<1> SUFFICES ASSUME NEW d \in Decoders, NEW tag, NEW meta, NEW v,
                    ReaderIn("stamp", r), Kept(r.d, d),
                    Left(d) < Left(r.d) \/ Lingers("stamp", r)
             PROVE  GetsOn("stamp", r, Give("stamp", NextStamp(r, d, tag, meta, v)))
  OBVIOUS
<1> DEFINE y == NextStamp(r, d, tag, meta, v)
           next == Give("stamp", y)
<1>1. Reader(r) /\ r.d \in Decoders /\ Spent(d)
  BY DEF ReaderIn, Kept
<1>2. Reader(y) /\ y.d = d
  BY <1>1, FieldsStamp
<1> HIDE DEF y
<1>3. next.place = "stamp" /\ next.r = y
  BY DEF Give
<1> HIDE DEF next
<1>4. ReaderIn("stamp", y)
  BY <1>1, <1>2 DEF ReaderIn, Places
<1>5. Left(d) < Left(r.d) => RankOf("stamp", y) < RankOf("stamp", r)
  BY <1>1, <1>2, RankFalls DEF Places
<1>6. GetsOn("stamp", r, next)
  BY <1>3, <1>4, <1>5 DEF GetsOn
<1> QED
  BY <1>6 DEF next, y

\* A round over the parts of a time stamp.
LEMMA StampOn ==
  ASSUME ReaderIn("stamp", r)
  PROVE  GetsOn("stamp", r, StampRound)
<1> DEFINE t == TagNumberAndValue(r.d)
           date == DecodeDate(t.d, t.v)
           time == DecodeTime(t.d, t.v)
           skipped == Read(t.d, t.v).d
           other == IF t.v > 0 THEN skipped ELSE t.d
           list == Grown(r.list, [t |-> "datetime", v |-> r.stamp])
           kept(x, v) == IF x.err \/ t.v < 4 THEN r.stamp ELSE v
           dated == kept(date.d, date.v \o SubSeq(r.stamp, 5, 8))
           timed == kept(time.d, SubSeq(r.stamp, 1, 4) \o time.v)
           step(d, v) == Give("stamp", NextStamp(r, d, t.tag, t.meta, v))
           y == StampRound
<1>1. \/ y = NextRound(t.d, list)
      \/ y = step(date.d, dated)
      \/ y = step(time.d, timed)
      \/ y = step(other, r.stamp)
  <2>1. y = CASE IsClosing(t.meta) /\ t.tag = TimeStampDatetime -> NextRound(t.d, list)
              [] t.tag = 10 -> step(date.d, dated)
              [] t.tag = 11 -> step(time.d, timed)
              [] OTHER -> step(other, r.stamp)
    BY DEF StampRound, NextStamp
  <2>2. ~(IsClosing(t.meta) /\ t.tag = TimeStampDatetime) \/ (t.tag # 10 /\ t.tag # 11)
    BY DEF TimeStampDatetime
  <2> DEFINE closed == IsClosing(t.meta) /\ t.tag = TimeStampDatetime
             a == NextRound(t.d, list)
             b == step(date.d, dated)
             c == step(time.d, timed)
             e == step(other, r.stamp)
  <2>3. y = CASE closed -> a [] t.tag = 10 -> b [] t.tag = 11 -> c [] OTHER -> e
    BY <2>1
  <2>4. ~closed \/ (t.tag # 10 /\ t.tag # 11)
    BY <2>2
  <2> HIDE DEF y, t, closed, a, b, c, e
  <2>5. y = a \/ y = b \/ y = c \/ y = e
    BY <2>3, <2>4
  <2> QED
    BY <2>5 DEF a, b, c, e
<1>2. r.d \in Decoders /\ r.d.err \in BOOLEAN
  BY DEF ReaderIn, Decoders
<1>3. Kept(r.d, t.d) /\ t.d \in Decoders /\ t.v \in Nat /\ (r.d.err = FALSE => Left(t.d) < Left(r.d))
  BY <1>2, KeptTagAndValue DEF Kept
<1> HIDE DEF t
<1>4. Kept(t.d, date.d) /\ Kept(t.d, time.d)
  BY <1>3, KeptDate
<1>5. Kept(t.d, other)
  <2>1. CASE t.v > 0
    BY <1>3, <2>1, KeptRead
  <2>2. CASE ~(t.v > 0)
    BY <1>3, <2>2, KeptSame
  <2> QED
    BY <2>1, <2>2
<1> HIDE DEF date, time, skipped, other, list, dated, timed
<1>6. \A d : Kept(t.d, d) => /\ d \in Decoders /\ Kept(r.d, d)
                             /\ Left(d) < Left(r.d) \/ Lingers("stamp", r)
  <2> SUFFICES ASSUME NEW d, Kept(t.d, d)
               PROVE  /\ d \in Decoders /\ Kept(r.d, d)
                      /\ Left(d) < Left(r.d) \/ Lingers("stamp", r)
    OBVIOUS
  <2>1. d \in Decoders /\ Kept(r.d, d) /\ Left(d) <= Left(t.d)
    BY <1>2, <1>3, KeptThen DEF Kept
  <2>2. Left(d) \in Nat /\ Left(t.d) \in Nat /\ Left(r.d) \in Nat
    BY <1>2, <1>3, <2>1, LeftKnown
  <2>3. r.d.err = TRUE => Lingers("stamp", r)
    BY DEF Lingers
  <2> QED
    BY <1>2, <1>3, <2>1, <2>2, <2>3
<1>7. \A d, v : Kept(t.d, d) => GetsOn("stamp", r, step(d, v))
  BY <1>6, NextStampOn
<1> HIDE DEF step, y
<1>8. CASE y = NextRound(t.d, list)
  <2>1. Left(t.d) <= Left(r.d)
    BY <1>3 DEF Kept
  <2> QED
    BY <1>3, <1>8, <2>1, RoundEnds DEF y
<1>9. CASE y = step(date.d, dated) \/ y = step(time.d, timed) \/ y = step(other, r.stamp)
  BY <1>4, <1>5, <1>7, <1>9 DEF y
<1> QED
  BY <1>1, <1>8, <1>9

\* A round of the decoder, when it gets on from the place it is for.
LEMMA RoundOn ==
  \A p \in Places : \A next :
    Round(p, next) /\ (ReaderIn(p, r) => GetsOn(p, r, next)) =>
      /\ phase = "reading" /\ place = p
      /\ ReaderIn(place, r) /\ phase' = "reading" =>
           /\ ReaderIn(place', r')
           /\ \/ RankOf(place', r') < RankOf(place, r)
              \/ Lingers(place, r) \/ Lingers(place', r')
<1> SUFFICES ASSUME NEW p \in Places, NEW next, Round(p, next), ReaderIn(p, r) => GetsOn(p, r, next)
             PROVE  /\ phase = "reading" /\ place = p
                    /\ ReaderIn(place, r) /\ phase' = "reading" =>
                         /\ ReaderIn(place', r')
                         /\ \/ RankOf(place', r') < RankOf(place, r)
                            \/ Lingers(place, r) \/ Lingers(place', r')
  OBVIOUS
<1>1. /\ phase = "reading" /\ place = p /\ place' = next.place /\ r' = next.r
      /\ next.place = None => phase' = IF next.out.err THEN "failed" ELSE "decoded"
  BY DEF Round
<1>2. phase' = "reading" => next.place # None
  BY <1>1
<1> QED
  BY <1>1, <1>2 DEF GetsOn

\* What a step of the decoder leaves.
LEMMA ReadingOn ==
  ReadReply => /\ phase = "reading"
               /\ ReaderIn(place, r) /\ phase' = "reading" =>
                    /\ ReaderIn(place', r')
                    /\ \/ RankOf(place', r') < RankOf(place, r)
                       \/ Lingers(place, r) \/ Lingers(place', r')
<1> DEFINE goal == /\ phase = "reading"
                   /\ ReaderIn(place, r) /\ phase' = "reading" =>
                        /\ ReaderIn(place', r')
                        /\ \/ RankOf(place', r') < RankOf(place, r)
                           \/ Lingers(place, r) \/ Lingers(place', r')
<1>1. ASSUME ReadObject
      PROVE  goal
  <2>1. PICK t \in {TagNumberAndValue(r.d)} : \E id \in {DecodeObjectId(t.d)} :
        \E open \in {TagNumber(id.d)} : \E first \in {TagNumberAndValue(open.d)} :
          Round("object", ObjectRound(t, id, open, first))
    BY <1>1 DEF ReadObject
  <2>2. PICK id \in {DecodeObjectId(t.d)} :
        \E open \in {TagNumber(id.d)} : \E first \in {TagNumberAndValue(open.d)} :
          Round("object", ObjectRound(t, id, open, first))
    BY <2>1
  <2>3. PICK open \in {TagNumber(id.d)} : \E first \in {TagNumberAndValue(open.d)} :
          Round("object", ObjectRound(t, id, open, first))
    BY <2>2
  <2>4. PICK first \in {TagNumberAndValue(open.d)} :
          Round("object", ObjectRound(t, id, open, first))
    BY <2>3
  <2>5. ReaderIn("object", r) => GetsOn("object", r, ObjectRound(t, id, open, first))
    <3>1. t = TagNumberAndValue(r.d) /\ id = DecodeObjectId(t.d) /\ open = TagNumber(id.d)
          /\ first = TagNumberAndValue(open.d)
      OBVIOUS
    <3> QED
      BY <3>1, ObjectOn
  <2> QED
    BY <2>4, <2>5, RoundOn DEF Places
<1>2. ASSUME EndObject
      PROVE  goal
  <2> DEFINE all == Append(r.objects, [type |-> r.id[1], instance |-> r.id[2], props |-> r.props])
             next == Give("object", [r EXCEPT !.objects = all])
  <2>1. Round("property", next)
    BY <1>2 DEF EndObject
  <2> HIDE DEF all
  <2>2. ReaderIn("property", r) => GetsOn("property", r, next)
    BY CloseOn
  <2> HIDE DEF next
  <2> QED
    BY <2>1, <2>2, RoundOn DEF Places
<1>3. ASSUME ReadPropertyTag
      PROVE  goal
  <2>1. InProperties /\ Round("property", PropertyRound)
    BY <1>3 DEF ReadPropertyTag
  <2>2. ReaderIn("property", r) => GetsOn("property", r, PropertyRound)
    BY <2>1, PropertyOn
  <2> QED
    BY <2>1, <2>2, RoundOn DEF Places
<1>4. ASSUME ReadValue
      PROVE  goal
  <2>1. ReaderIn("value", r) => GetsOn("value", r, ValueRound)
    BY ValueOn
  <2> QED
    BY <1>4, <2>1, RoundOn DEF Places, ReadValue
<1>5. ASSUME ReadTimeStamp
      PROVE  goal
  <2>1. ReaderIn("stamp", r) => GetsOn("stamp", r, StampRound)
    BY StampOn
  <2> QED
    BY <1>5, <2>1, RoundOn DEF Places, ReadTimeStamp
<1> QED
  BY <1>1, <1>2, <1>3, <1>4, <1>5 DEF ReadReply

\* The invariant of the rounds: a reply is the head of an acknowledgement and
\* any bytes, of which the tail was cut off, and the decoder is where it can be.
ReplyHead == Ack(ServiceReadPropMultiple, 1)
AckCarried ==
  phase = "wire" /\ kind \in ReplyKinds =>
    wire \in Bytes /\ \E tail, s \in Bytes : wire \o tail = ReplyHead \o s
ReadingInv == AckCarried /\ (phase = "reading" => kind \in ReplyKinds /\ ReaderIn(place, r))

\* A reply that is sent, by the library or by a device.
LEMMA CarriedFrom ==
  \A s \in Bytes : /\ ReplyHead \in Bytes
                   /\ wire' = ReplyHead \o s => AckCarried'
<1> SUFFICES ASSUME NEW s \in Bytes
             PROVE  ReplyHead \in Bytes /\ (wire' = ReplyHead \o s => AckCarried')
  OBVIOUS
<1>1. ServiceReadPropMultiple \in Byte /\ 1 \in Byte
  BY DEF ServiceReadPropMultiple, Byte
<1>2. ReplyHead \in Bytes
  BY <1>1, AckHead DEF ReplyHead
<1> DEFINE w == ReplyHead \o s
<1>3. w \in Bytes
  BY <1>2, AppendIn
<1> HIDE DEF w
<1>4. w \o <<>> = w /\ <<>> \in Bytes
  BY <1>3, EmptySeq, ConcatEmptySeq DEF Bytes
<1>5. ASSUME wire' = w
      PROVE  AckCarried'
  <2> DEFINE e == <<>>
  <2>1. e \in Bytes /\ wire' \o e = ReplyHead \o s /\ wire' \in Bytes
    BY <1>3, <1>4, <1>5 DEF w
  <2> HIDE DEF e
  <2>2. \E tail, q \in Bytes : wire' \o tail = ReplyHead \o q
    BY <2>1
  <2>3. (ReplyHead)' = ReplyHead
    BY DEF ReplyHead
  <2> QED
    BY <2>1, <2>2 DEF AckCarried
<1> QED
  BY <1>2, <1>5 DEF w

\* The decoder is opened behind the head of a reply.
LEMMA OpenedOn ==
  ASSUME ReadingInv, OpenReply
  PROVE  ReadingInv'
<1> DEFINE b == Body(ServiceReadPropMultiple)
           x == [NoReader EXCEPT !.d = b]
<1>1. /\ phase = "wire" /\ kind \in ReplyKinds /\ kind' = kind
      /\ IF b.err THEN Return([err |-> TRUE])
         ELSE phase' = "reading" /\ place' = "object" /\ r' = x
  BY DEF OpenReply
<1>2. PICK tail \in Bytes, s \in Bytes : wire \in Bytes /\ wire \o tail = ReplyHead \o s
  BY <1>1 DEF ReadingInv, AckCarried
<1>3. ServiceReadPropMultiple \in Byte /\ 1 \in Byte
  BY DEF ServiceReadPropMultiple, Byte
<1>4. Remains(b, tail, s)
  BY <1>2, <1>3, CutAck DEF Body, ReplyHead
<1>5. x.d = b /\ Reader(x)
  BY DEF NoReader, Reader, Fields
<1> HIDE DEF b, x
<1>6. CASE b.err
  <2> DEFINE y == [err |-> TRUE]
  <2>1. phase' = "failed"
    BY <1>1, <1>6 DEF Return
  <2> QED
    BY <2>1 DEF ReadingInv, AckCarried
<1>7. CASE ~b.err
  <2>1. PICK q \in Bytes : b = Good(q)
    <3>1. b # [buf |-> <<>>, err |-> TRUE]
      BY <1>7
    <3> QED
      BY <1>4, <3>1 DEF Remains
  <2>2. b \in Decoders
    BY <2>1 DEF Good, Decoders
  <2>3. ReaderIn("object", x)
    BY <1>5, <2>2 DEF ReaderIn, Places
  <2> QED
    BY <1>1, <1>7, <2>3 DEF ReadingInv, AckCarried
<1> QED
  BY <1>6, <1>7

\* Cutting a reply short leaves the head of an acknowledgement and any bytes, of
\* which more was cut off.
LEMMA CutOn ==
  ASSUME ReadingInv, CutShort
  PROVE  ReadingInv'
<1>1. PICK n \in 1 .. MaxCut : n <= Len(wire) /\ wire' = SubSeq(wire, 1, Len(wire) - n)
  BY DEF CutShort
<1>2. phase = "wire" /\ phase' = "wire" /\ kind' = kind /\ MaxCut \in Nat
  BY CodecAssumption DEF CutShort
<1>3. n \in Nat /\ n >= 1
  BY <1>1, <1>2
<1>4. ASSUME kind \in ReplyKinds
      PROVE  wire' \in Bytes /\ \E tail, s \in Bytes : wire' \o tail = ReplyHead \o s
  <2>1. PICK more \in Bytes, s \in Bytes : wire \in Bytes /\ wire \o more = ReplyHead \o s
    BY <1>2, <1>4 DEF ReadingInv, AckCarried
  <2>2. PICK tail \in Bytes : wire' \in Bytes /\ wire' \o tail = wire
    BY <1>1, <1>3, <2>1, Shortened
  <2>3. wire' \o (tail \o more) = ReplyHead \o s /\ tail \o more \in Bytes
    <3>1. tail \o more \in Bytes
      BY AppendIn
    <3>2. wire' \in Bytes
      BY <2>2
    <3>3. (wire' \o tail) \o more = wire' \o (tail \o more)
      BY <3>2, Append3
    <3>4. (wire' \o tail) \o more = ReplyHead \o s
      <4>1. wire' \o tail = wire
        BY <2>2
      <4> QED
        BY <2>1, <4>1
    <3> QED
      BY <3>1, <3>3, <3>4
  <2> QED
    BY <2>2, <2>3
<1> QED
  BY <1>2, <1>4 DEF ReadingInv, AckCarried, ReplyHead

\* The decoder's variables are what they can be where it is.
THEOREM DecoderPlaced == Spec => []ReadingInv
<1>1. Init => ReadingInv
  BY DEF Init, ReadingInv, AckCarried
<1>2. ReadingInv /\ [Next]_vars => ReadingInv'
  <2> SUFFICES ASSUME ReadingInv, [Next]_vars
               PROVE  ReadingInv'
    OBVIOUS
  <2>1. CASE EncodeReply
    <3>1. PICK x \in Replies : Send("reply", x, ReadMultiplePropertyAck(1, x))
      BY <2>1 DEF EncodeReply
    <3> DEFINE s == ObjectRests(x)[0]
    <3>2. x \in AppReplies
      BY CodecAssumption
    <3>3. Len(x) \in Nat /\ ReadMultiplePropertyAck(1, x) = ReplyHead \o s
      BY <3>2, ReplyRests DEF ReplyHead
    <3>4. 0 \in 0 .. Len(x)
      BY <3>3
    <3>5. s \in Bytes
      BY <3>2, <3>4, ReplyRests
    <3> HIDE DEF s
    <3>6. phase' = "wire" /\ wire' = ReplyHead \o s
      BY <3>1, <3>3 DEF Send
    <3> QED
      BY <3>5, <3>6, CarriedFrom DEF ReadingInv
  <2>2. CASE DeviceReply
    <3>1. PICK x \in DeviceReplies : Send("device", x.objects, ReplyHead \o x.bytes)
      BY <2>2 DEF DeviceReply, ReplyHead
    <3>2. x.bytes \in Bytes
      BY CodecAssumption DEF Bytes
    <3>3. phase' = "wire" /\ wire' = ReplyHead \o x.bytes
      BY <3>1 DEF Send
    <3> QED
      BY <3>2, <3>3, CarriedFrom DEF ReadingInv
  <2>3. CASE CutShort
    BY <2>3, CutOn
  <2>4. CASE OpenReply
    BY <2>4, OpenedOn
  <2>5. CASE ReadReply
    <3>1. /\ phase = "reading"
          /\ ReaderIn(place, r) /\ phase' = "reading" => ReaderIn(place', r')
      BY <2>5, ReadingOn
    <3>2. kind' = kind /\ phase' # "wire"
      <4>1. \A p, next : Round(p, next) => kind' = kind /\ phase' # "wire"
        BY DEF Round
      <4> QED
        BY <2>5, <4>1 DEF ReadReply, ReadObject, EndObject, ReadPropertyTag, ReadValue, ReadTimeStamp
    <3> QED
      BY <3>1, <3>2 DEF ReadingInv, AckCarried
  <2>6. CASE \/ EncodeValue \/ EncodeDate \/ EncodeNPDU \/ EncodeAPDU \/ EncodeRead
             \/ EncodeReadAck \/ EncodeIAm \/ EncodeWhoIs \/ EncodeBVLC \/ EncodeRequest
    <3>1. phase' = "wire" /\ kind' \notin ReplyKinds
      BY <2>6 DEF EncodeValue, EncodeDate, EncodeNPDU, EncodeAPDU, EncodeRead, EncodeReadAck,
                  EncodeIAm, EncodeWhoIs, EncodeBVLC, EncodeRequest, Send, ReplyKinds
    <3> QED
      BY <3>1 DEF ReadingInv, AckCarried
  <2>7. CASE \/ DecodeValue \/ DecodeDateOnly \/ DecodeHeader \/ DecodeHead \/ DecodeRead
             \/ DecodeReadAck \/ DecodeAnnouncement \/ DecodeSearch \/ DecodeFrame
             \/ DeviceRequest
    <3>1. phase' \in {"failed", "decoded"}
      <4>1. \A x : Return(x) => phase' \in {"failed", "decoded"}
        BY DEF Return
      <4> QED
        BY <2>7, <4>1 DEF DecodeValue, DecodeDateOnly, DecodeHeader, DecodeHead, DecodeRead,
                    DecodeReadAck, DecodeAnnouncement, DecodeSearch, DecodeFrame, DeviceRequest
    <3> QED
      BY <3>1 DEF ReadingInv, AckCarried
  <2>8. CASE MatchReadMultiple \/ Done
    <3>1. phase' \in {"matched", "idle"}
      BY <2>8 DEF MatchReadMultiple, Done
    <3> QED
      BY <3>1 DEF ReadingInv, AckCarried
  <2>9. CASE UNCHANGED vars
    BY <2>9 DEF vars, ReadingInv, AckCarried, ReplyHead
  <2> QED
    BY <2>1, <2>2, <2>3, <2>4, <2>5, <2>6, <2>7, <2>8, <2>9 DEF Next
<1> QED
  BY <1>1, <1>2, PTL DEF Spec

\* Where a round may leave the decoder as far from its end as it was.
Lingering == Lingers(place, r)

\* A step within the decoder is a round of it.
LEMMA OnlyRounds ==
  [Next]_vars /\ phase = "reading" /\ phase' = "reading" => ReadReply \/ UNCHANGED vars
<1> SUFFICES ASSUME [Next]_vars, phase = "reading", phase' = "reading"
             PROVE  ReadReply \/ UNCHANGED vars
  OBVIOUS
<1>1. CASE \/ EncodeValue \/ EncodeDate \/ EncodeNPDU \/ EncodeAPDU \/ EncodeRead
           \/ EncodeReadAck \/ EncodeIAm \/ EncodeWhoIs \/ EncodeBVLC \/ EncodeRequest
           \/ EncodeReply \/ DeviceReply \/ CutShort \/ OpenReply \/ MatchReadMultiple \/ Done
  BY <1>1 DEF EncodeValue, EncodeDate, EncodeNPDU, EncodeAPDU, EncodeRead, EncodeReadAck,
              EncodeIAm, EncodeWhoIs, EncodeBVLC, EncodeRequest, EncodeReply, DeviceReply, Send,
              CutShort, OpenReply, MatchReadMultiple, Done
<1>2. CASE \/ DecodeValue \/ DecodeDateOnly \/ DecodeHeader \/ DecodeHead \/ DecodeRead
           \/ DecodeReadAck \/ DecodeAnnouncement \/ DecodeSearch \/ DecodeFrame
           \/ DeviceRequest
  BY <1>2 DEF DecodeValue, DecodeDateOnly, DecodeHeader, DecodeHead, DecodeRead,
              DecodeReadAck, DecodeAnnouncement, DecodeSearch, DecodeFrame, DeviceRequest,
              Decoding
<1> QED
  BY <1>1, <1>2 DEF Next

\* The decoder gets on, whatever bytes a device put into its reply: a round of its
\* loops leaves it nearer its end, unless it is in a list of values or a time
\* stamp behind an error, or at a closing tag in a list that is not its own
\* (readmultipleack.go).
THEOREM RoundsGetOn ==
  Spec => [][phase = "reading" /\ phase' = "reading" =>
               Rank' < Rank \/ Lingering \/ Lingering']_vars
<1>1. ReadingInv /\ [Next]_vars =>
        [phase = "reading" /\ phase' = "reading" => Rank' < Rank \/ Lingering \/ Lingering']_vars
  <2> SUFFICES ASSUME ReadingInv, [Next]_vars, ~UNCHANGED vars,
                      phase = "reading", phase' = "reading"
               PROVE  Rank' < Rank \/ Lingering \/ Lingering'
    OBVIOUS
  <2>1. ReadReply
    BY OnlyRounds
  <2>2. \/ RankOf(place', r') < RankOf(place, r)
        \/ Lingers(place, r) \/ Lingers(place', r')
    BY <2>1, ReadingOn DEF ReadingInv
  <2>3. Rank' = RankOf(place', r')
    BY DEF Rank, RankOf, Left, Depth
  <2>4. Lingering' <=> Lingers(place', r')
    BY DEF Lingering, Lingers
  <2> QED
    BY <2>2, <2>3, <2>4, RankIs DEF Lingering
<1> QED
  BY <1>1, DecoderPlaced, PTL DEF Spec

\* Where the decoder of a reply of the library may linger, it is lost behind the
\* end of the bytes.
LEMMA LingersLost ==
  ReplyInv /\ CutKnown /\ kind = "reply" /\ phase = "reading" /\ Lingering => Endless
<1> SUFFICES ASSUME ReplyInv, CutKnown, kind = "reply", phase = "reading", Lingering
             PROVE  Endless
  OBVIOUS
<1>1. PICK tail \in Bytes : item \in AppReplies /\ ReplyHas(tail)
  BY DEF ReplyInv
<1>2. ReadState(item, tail, place, r) /\ (cut = 0 => tail = <<>>)
  BY <1>1 DEF ReplyHas
<1>3. place = "value"
  BY <1>2 DEF Lingering, Lingers, ReadState
<1>4. CASE AtValue(r, item, tail)
  BY <1>1, <1>4, PlainValue DEF Lingering, Lingers
<1>5. CASE Lost(r, tail)
  BY <1>2, <1>3, <1>5 DEF Lost, Endless, CutKnown
<1> QED
  BY <1>2, <1>3, <1>4, <1>5 DEF ReadState

\* The decoder of the library's own replies gets on with no exception but that of
\* a reply cut short inside a list of values (DecoderGetsOn for these replies):
\* every round of a whole reply leaves it nearer its end, so that it comes to it.
THEOREM RepliesGetOn ==
  Spec => [][kind = "reply" /\ phase = "reading" /\ phase' = "reading" =>
               Rank' < Rank \/ Endless \/ Endless']_vars
<1>1. /\ ReplyInv /\ ReplyInv' /\ CutKnown /\ CutKnown' /\ [Next]_vars
      /\ [phase = "reading" /\ phase' = "reading" => Rank' < Rank \/ Lingering \/ Lingering']_vars
      => [kind = "reply" /\ phase = "reading" /\ phase' = "reading" =>
            Rank' < Rank \/ Endless \/ Endless']_vars
  <2> SUFFICES ASSUME ReplyInv, ReplyInv', CutKnown, CutKnown', [Next]_vars, ~UNCHANGED vars,
                      kind = "reply", phase = "reading", phase' = "reading",
                      Rank' < Rank \/ Lingering \/ Lingering'
               PROVE  Rank' < Rank \/ Endless \/ Endless'
    OBVIOUS
  <2>1. kind' = kind
    <3>1. ReadReply
      BY OnlyRounds
    <3>2. \A p, next : Round(p, next) => kind' = kind
      BY DEF Round
    <3> QED
      BY <3>1, <3>2 DEF ReadReply, ReadObject, EndObject, ReadPropertyTag, ReadValue, ReadTimeStamp
  <2>2. Lingering => Endless
    BY LingersLost
  <2>3. Lingering' => Endless'
    <3>1. (ReplyInv /\ CutKnown /\ kind = "reply" /\ phase = "reading" /\ Lingering => Endless)'
      BY LingersLost, PTL
    <3> QED
      BY <2>1, <3>1
  <2> QED
    BY <2>2, <2>3
<1>2. PeerInv => CutKnown
  BY DEF PeerInv
<1> QED
  BY <1>1, <1>2, RepliesRead, PeersUnderstood, RoundsGetOn, PTL DEF Spec
=============================================================================
