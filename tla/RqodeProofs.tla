----------------------------- MODULE RqodeProofs -----------------------------
(***************************************************************************)
(* Proofs about RqodeDecode: for every packet, every set of tags and       *)
(* payloads and whatever is taken for text.  The elements that were read,  *)
(* written one behind the other, are the bytes read so far; and what was   *)
(* written is read back as long as no number could be a length.            *)
(***************************************************************************)
EXTENDS RqodeDecode, SetInduction, SequenceTheorems, TLAPS

(* RqodeAssumption, as the provers need it. *)
LEMMA Constants ==
  /\ Base \in Nat /\ Base >= 2 /\ Byte \subseteq Nat
  /\ Tag \subseteq Byte /\ U16 \in Tag /\ Payload[U16] = 2
  /\ \A t \in Tag : Payload[t] \in Nat /\ t \in Nat
  /\ \A b \in Byte : b < Base
BY RqodeAssumption DEF Byte, Tag

(* Two digits hold a number below Base * Base (to_le_bytes, from_le_bytes). *)
LEMMA TwoDigits ==
  /\ \A n \in Nat : n % Base \in Nat /\ n \div Base \in Nat /\ n = (n % Base) + Base * (n \div Base)
  /\ \A low, high \in Byte :
       LET n == low + Base * high
       IN n \in Nat /\ n % Base = low /\ n \div Base = high
<1>1. Base \in Nat /\ Base > 0
  BY Constants
<1>2. ASSUME NEW n \in Nat
      PROVE  n % Base \in Nat /\ n \div Base \in Nat /\ n = (n % Base) + Base * (n \div Base)
  <2>1. n % Base \in 0 .. Base - 1 /\ n \div Base \in Nat
    BY <1>1
  <2>2. n = Base * (n \div Base) + (n % Base)
    BY <1>1
  <2>3. PICK q \in Nat, r \in Nat : q = n \div Base /\ r = n % Base
    BY <2>1
  <2>4. n = Base * q + r /\ Base * q \in Nat
    BY <1>1, <2>2, <2>3
  <2>5. n = r + Base * q
    BY <2>4
  <2> QED
    BY <2>3, <2>5
<1>3. ASSUME NEW low \in Byte, NEW high \in Byte, NEW n, n = low + Base * high
      PROVE  n \in Nat /\ n % Base = low /\ n \div Base = high
  <2>1. low \in Nat /\ high \in Nat /\ low < Base
    BY Constants
  <2>2. n \in Nat
    BY <1>1, <1>3, <2>1
  <2> DEFINE q == n \div Base
             r == n % Base
  <2>3. q \in Nat /\ r \in Nat /\ r < Base /\ n = r + Base * q
    <3>1. r \in 0 .. Base - 1
      BY <1>1, <2>2
    <3> QED
      BY <1>1, <1>2, <2>2, <3>1
  <2> HIDE DEF q, r
  <2>4. low + Base * high = r + Base * q
    BY <1>3, <2>3
  <2>5. ~(high < q)
    <3> SUFFICES ASSUME high < q PROVE FALSE
      OBVIOUS
    <3>1. PICK k \in Nat : q = high + 1 + k
      <4>1. q - high - 1 \in Nat /\ q = high + 1 + (q - high - 1)
        BY <2>1, <2>3
      <4> QED
        BY <4>1
    <3>2. Base * q = Base * high + Base + Base * k
      BY <1>1, <2>1, <3>1
    <3>3. Base * k \in Nat /\ Base * high \in Nat /\ Base * q \in Nat
      BY <1>1, <2>1, <2>3
    <3> QED
      BY <1>1, <2>1, <2>3, <2>4, <3>2, <3>3
  <2>6. ~(q < high)
    <3> SUFFICES ASSUME q < high PROVE FALSE
      OBVIOUS
    <3>1. PICK k \in Nat : high = q + 1 + k
      <4>1. high - q - 1 \in Nat /\ high = q + 1 + (high - q - 1)
        BY <2>1, <2>3
      <4> QED
        BY <4>1
    <3>2. Base * high = Base * q + Base + Base * k
      BY <1>1, <2>3, <3>1
    <3>3. Base * k \in Nat /\ Base * high \in Nat /\ Base * q \in Nat
      BY <1>1, <2>1, <2>3
    <3> QED
      BY <1>1, <2>1, <2>3, <2>4, <3>2, <3>3
  <2>7. q = high
    BY <2>1, <2>3, <2>5, <2>6
  <2>8. r = low
    <3>1. Base * high \in Nat
      BY <1>1, <2>1
    <3> QED
      BY <2>1, <2>3, <2>4, <2>7, <3>1
  <2> QED
    BY <2>2, <2>7, <2>8 DEF q, r
<1> QED
  BY <1>2, <1>3

-----------------------------------------------------------------------------
(* Written: what the community's FlattenSeq makes of sequences, one after    *)
(* the other.                                                                *)
Cat(a, b) == a \o b

Joins(h, s) ==
  /\ h \in [0 .. Len(s) -> Seq(Nat)]
  /\ h[0] = <<>>
  /\ \A n \in 1 .. Len(s) : h[n] = Cat(h[n - 1], s[n])

Flattening(f, s) ==
  f = [i \in 1 .. Len(s) |-> IF i = 1 THEN s[i] ELSE Cat(f[i - 1], s[i])]

(* Sequences of numbers, one behind the other. *)
LEMMA CatType ==
  ASSUME NEW a \in Seq(Nat), NEW b \in Seq(Nat)
  PROVE  /\ Cat(a, b) \in Seq(Nat)
         /\ Len(Cat(a, b)) = Len(a) + Len(b)
         /\ \A i \in 1 .. Len(a) : Cat(a, b)[i] = a[i]
         /\ \A i \in 1 .. Len(b) : Cat(a, b)[Len(a) + i] = b[i]
         /\ Cat(<<>>, b) = b
BY DEF Cat

(* The sequences can be joined. *)
LEMMA JoinsFrom ==
  ASSUME NEW X, NEW a \in X, NEW L \in Nat, NEW s
  PROVE  /\ X = Seq(Nat) /\ a = <<>> /\ L = Len(s)
         /\ s \in Seq(Seq(Nat))
         => \E h : Joins(h, s)
<1>1. ASSUME NEW G \in [(1 .. L) \X X -> X]
      PROVE  \E h \in [0 .. L -> X] : h[0] = a /\ \A n \in 1 .. L : h[n] = G[<<n, h[n - 1]>>]
  BY Iterates
<1> DEFINE F == [p \in (1 .. L) \X X |-> Cat(p[2], s[p[1]])]
<1>5. \A n \in 1 .. L, x \in X : F[<<n, x>>] = Cat(x, s[n])
  OBVIOUS
<1>2. SUFFICES ASSUME X = Seq(Nat), a = <<>>, L = Len(s), s \in Seq(Seq(Nat))
               PROVE  \E h : Joins(h, s)
  OBVIOUS
<1>3. \A n \in 1 .. L, x \in X : Cat(x, s[n]) \in X
  BY <1>2, CatType
<1>4. F \in [(1 .. L) \X X -> X]
  BY <1>3
<1> HIDE DEF F
<1>6. PICK h \in [0 .. L -> X] : h[0] = a /\ \A n \in 1 .. L : h[n] = F[<<n, h[n - 1]>>]
  BY <1>1, <1>4, Zenon
<1>7. \A n \in 1 .. L : h[n - 1] \in X
  OBVIOUS
<1>8. \A n \in 1 .. L : h[n] = Cat(h[n - 1], s[n])
  BY <1>5, <1>6, <1>7
<1> QED
  BY <1>2, <1>6, <1>8 DEF Joins

LEMMA JoinsExist ==
  ASSUME NEW s \in Seq(Seq(Nat))
  PROVE  \E h : Joins(h, s)
<1>1. <<>> \in Seq(Nat) /\ Len(s) \in Nat
  OBVIOUS
<1> QED
  BY <1>1, JoinsFrom

(* FlattenSeq joins them. *)
LEMMA FlattenJoins ==
  ASSUME NEW s \in Seq(Seq(Nat)), NEW h, Joins(h, s)
  PROVE  FlattenSeq(s) = h[Len(s)]
<1>1. PICK L \in Nat : L = Len(s)
  OBVIOUS
<1>2. /\ h \in [0 .. L -> Seq(Nat)] /\ h[0] = <<>>
      /\ \A n \in 1 .. L : h[n] = Cat(h[n - 1], s[n])
  BY <1>1 DEF Joins
<1>3. \A n \in 1 .. L : s[n] \in Seq(Nat)
  BY <1>1
<1>4. CASE L = 0
  <2>1. Len(s) = 0 /\ s = <<>>
    BY <1>1, <1>4, EmptySeq
  <2>2. FlattenSeq(s) = s
    BY <2>1, Zenon DEF FlattenSeq
  <2> QED
    BY <1>1, <1>2, <1>4, <2>1, <2>2
<1>5. CASE L # 0
  <2> DEFINE g == [i \in 1 .. L |-> h[i]]
             f == CHOOSE f : Flattening(f, s)
  <2>1. Flattening(g, s)
    <3>1. ASSUME NEW i \in 1 .. L
          PROVE  h[i] = IF i = 1 THEN s[i] ELSE Cat(g[i - 1], s[i])
      <4>1. CASE i = 1
        <5>1. h[1] = Cat(h[0], s[1])
          BY <1>2, <4>1
        <5>2. Cat(<<>>, s[1]) = s[1]
          BY <1>3, <4>1, CatType
        <5> QED
          BY <1>2, <4>1, <5>1, <5>2
      <4>2. CASE i # 1
        <5>1. i - 1 \in 1 .. L
          BY <4>2
        <5> QED
          BY <1>2, <4>2, <5>1
      <4> QED
        BY <4>1, <4>2
    <3> QED
      BY <1>1, <3>1 DEF Flattening
  <2> HIDE DEF g
  <2>2. Flattening(f, s)
    <3>1. \E e : Flattening(e, s)
      BY <2>1
    <3> QED
      BY <3>1, Zenon
  <2>3. FlattenSeq(s) = f[L]
    BY <1>1, <1>5 DEF FlattenSeq, Flattening, Cat
  <2> HIDE DEF f
  <2>4. \A i \in 1 .. L : f[i] = IF i = 1 THEN s[i] ELSE Cat(f[i - 1], s[i])
    BY <1>1, <2>2 DEF Flattening
  <2> DEFINE S == {n \in Nat : n \in 1 .. L => f[n] = h[n]}
  <2>5. 0 \in S
    OBVIOUS
  <2>6. ASSUME NEW n \in Nat, n \in S PROVE n + 1 \in S
    <3> SUFFICES ASSUME n + 1 \in 1 .. L PROVE f[n + 1] = h[n + 1]
      OBVIOUS
    <3>1. h[n + 1] = Cat(h[n], s[n + 1])
      BY <1>2
    <3>2. CASE n = 0
      <4>1. f[n + 1] = s[1] /\ s[1] \in Seq(Nat) /\ h[n + 1] = Cat(<<>>, s[1])
        BY <1>2, <1>3, <2>4, <3>1, <3>2
      <4> QED
        BY <4>1, CatType
    <3>3. CASE n # 0
      <4>1. f[n + 1] = Cat(f[n], s[n + 1])
        BY <2>4, <3>3
      <4>2. f[n] = h[n]
        BY <2>6, <3>3
      <4> QED
        BY <3>1, <4>1, <4>2
    <3> QED
      BY <3>2, <3>3
  <2>7. \A n \in Nat : n \in S
    <3> HIDE DEF S
    <3> QED
      BY <2>5, <2>6, Induction
  <2>8. f[L] = h[L]
    BY <1>5, <2>7
  <2> QED
    BY <1>1, <2>3, <2>8
<1> QED
  BY <1>4, <1>5

(* Joined sequences lie in the whole one behind the other: the k-th where what
   comes before it ends. *)
LEMMA JoinsPlace ==
  ASSUME NEW s \in Seq(Seq(Nat)), NEW h, Joins(h, s), NEW k \in Nat, k <= Len(s)
  PROVE  /\ h[k] \in Seq(Nat) /\ h[Len(s)] \in Seq(Nat)
         /\ Len(h[k]) <= Len(h[Len(s)])
         /\ \A i \in 1 .. Len(h[k]) : h[Len(s)][i] = h[k][i]
<1>1. PICK L \in Nat : L = Len(s)
  OBVIOUS
<1>2. /\ \A n \in 0 .. L : h[n] \in Seq(Nat)
      /\ \A n \in 1 .. L : h[n] = Cat(h[n - 1], s[n])
      /\ \A n \in 1 .. L : s[n] \in Seq(Nat)
  <2>1. h \in [0 .. L -> Seq(Nat)] /\ \A n \in 1 .. L : h[n] = Cat(h[n - 1], s[n])
    BY <1>1 DEF Joins
  <2>2. \A n \in 1 .. L : s[n] \in Seq(Nat)
    BY <1>1
  <2> QED
    BY <2>1, <2>2
<1> DEFINE In(n) == Len(h[k]) <= Len(h[n]) /\ \A i \in 1 .. Len(h[k]) : h[n][i] = h[k][i]
           S == {n \in Nat : k <= n /\ n <= L => In(n)}
<1>3. 0 \in S
  BY <1>1, <1>2
<1>4. ASSUME NEW n \in Nat, n \in S PROVE n + 1 \in S
  <2> SUFFICES ASSUME k <= n + 1, n + 1 <= L PROVE In(n + 1)
    OBVIOUS
  <2>1. CASE k = n + 1
    BY <1>1, <1>2, <2>1
  <2>2. CASE k # n + 1
    <3>1. In(n) /\ n \in 0 .. L /\ n + 1 \in 1 .. L
      BY <1>1, <1>4, <2>2
    <3>2. PICK a \in Seq(Nat), b \in Seq(Nat), e \in Seq(Nat) :
            a = h[k] /\ b = h[n] /\ e = s[n + 1] /\ h[n + 1] = Cat(b, e)
      <4>1. h[k] \in Seq(Nat) /\ h[n] \in Seq(Nat) /\ s[n + 1] \in Seq(Nat)
        BY <1>1, <1>2, <3>1
      <4>2. h[n + 1] = Cat(h[n], s[n + 1])
        BY <1>2, <3>1
      <4> QED
        BY <4>1, <4>2
    <3>3. Len(a) <= Len(b) /\ \A i \in 1 .. Len(a) : b[i] = a[i]
      BY <3>1, <3>2
    <3>4. Len(Cat(b, e)) = Len(b) + Len(e) /\ \A i \in 1 .. Len(b) : Cat(b, e)[i] = b[i]
      BY CatType
    <3>5. Len(a) \in Nat /\ Len(b) \in Nat /\ Len(e) \in Nat
      OBVIOUS
    <3>6. Len(a) <= Len(Cat(b, e)) /\ \A i \in 1 .. Len(a) : Cat(b, e)[i] = a[i]
      BY <3>3, <3>4, <3>5
    <3> QED
      BY <3>2, <3>6
  <2> QED
    BY <2>1, <2>2
<1>5. \A n \in Nat : n \in S
  <2> HIDE DEF S
  <2> QED
    BY <1>3, <1>4, Induction
<1>6. In(L)
  BY <1>1, <1>5
<1> QED
  BY <1>1, <1>2, <1>6

LEMMA JoinsWithin ==
  ASSUME NEW s \in Seq(Seq(Nat)), NEW h, Joins(h, s)
  PROVE  \A k \in Nat : k <= Len(s) =>
           /\ Len(h[k]) <= Len(h[Len(s)])
           /\ \A i \in 1 .. Len(h[k]) : h[Len(s)][i] = h[k][i]
BY JoinsPlace

(* One sequence more is joined behind the others. *)
LEMMA FlattenAppend ==
  ASSUME NEW s \in Seq(Seq(Nat)), NEW e \in Seq(Nat)
  PROVE  FlattenSeq(Append(s, e)) = Cat(FlattenSeq(s), e) /\ FlattenSeq(s) \in Seq(Nat)
<1>1. PICK L \in Nat : L = Len(s)
  OBVIOUS
<1>2. PICK r \in Seq(Seq(Nat)) : r = Append(s, e)
  BY AppendProperties
<1>3. Len(r) = L + 1 /\ r[L + 1] = e /\ \A k \in 1 .. L : r[k] = s[k]
  BY <1>1, <1>2
<1>4. PICK h : Joins(h, r)
  BY JoinsExist
<1>5. /\ h \in [0 .. L + 1 -> Seq(Nat)] /\ h[0] = <<>>
      /\ \A n \in 1 .. L + 1 : h[n] = Cat(h[n - 1], r[n])
  BY <1>3, <1>4 DEF Joins
<1> DEFINE g == [n \in 0 .. L |-> h[n]]
<1>6. Joins(g, s)
  <2>1. g \in [0 .. L -> Seq(Nat)] /\ g[0] = <<>>
    BY <1>5
  <2>2. \A n \in 1 .. L : g[n] = Cat(g[n - 1], s[n])
    BY <1>3, <1>5
  <2> HIDE DEF g
  <2> QED
    BY <1>1, <2>1, <2>2 DEF Joins
<1>7. FlattenSeq(s) = h[L] /\ h[L] \in Seq(Nat)
  <2>1. g[L] = h[L] /\ h[L] \in Seq(Nat)
    BY <1>5
  <2> HIDE DEF g
  <2> QED
    BY <1>1, <1>6, <2>1, FlattenJoins
<1>8. FlattenSeq(r) = h[L + 1]
  BY <1>3, <1>4, FlattenJoins
<1>9. h[L + 1] = Cat(h[L], e)
  BY <1>3, <1>5
<1> QED
  BY <1>2, <1>7, <1>8, <1>9

-----------------------------------------------------------------------------
(* Elements and the bytes they are written as.                               *)

(* Bytes are numbers. *)
LEMMA Numbers == Seq(Byte) \subseteq Seq(Nat)
<1> SUFFICES ASSUME NEW s \in Seq(Byte) PROVE s \in Seq(Nat)
  OBVIOUS
<1>1. PICK n \in Nat : n = Len(s)
  OBVIOUS
<1>2. s \in [1 .. n -> Byte]
  BY <1>1
<1>3. s \in [1 .. n -> Nat]
  BY <1>2, Constants
<1> QED
  BY <1>1, <1>3

(* A part of a sequence. *)
LEMMA Part ==
  ASSUME NEW s \in Seq(Nat), NEW at \in Nat, NEW n \in Nat, at + n <= Len(s)
  PROVE  /\ SubSeq(s, at + 1, at + n) \in Seq(Nat) /\ Len(SubSeq(s, at + 1, at + n)) = n
         /\ \A i \in 1 .. n : SubSeq(s, at + 1, at + n)[i] = s[at + i]
<1>1. /\ at + 1 \in 1 .. Len(s) + 1 /\ at + n \in at .. Len(s)
      /\ Len(s) \in Nat /\ (at + 1) - 1 = at /\ (at + n) - (at + 1) + 1 = n
  OBVIOUS
<1>2. /\ SubSeq(s, at + 1, at + n) \in Seq(Nat)
      /\ Len(SubSeq(s, at + 1, at + n)) = n
  BY <1>1, SubSeqProperties
<1>3. ASSUME NEW i \in 1 .. n PROVE SubSeq(s, at + 1, at + n)[i] = s[at + i]
  <2>1. (at + 1) + i - 1 = at + i
    OBVIOUS
  <2> QED
    BY <1>1, <2>1, SubSeqProperties
<1> QED
  BY <1>2, <1>3

(* A value is its tag and its payload; a string or a block of bytes is a
   number that is its length, and what it consists of. *)
LEMMA EncodedBytes ==
  ASSUME NEW e \in Element
  PROVE  /\ Encoded(e) \in Seq(Nat)
         /\ Encoded(e)[1] = e.tag
         /\ e.kind = "value" =>
              /\ Len(Encoded(e)) = 1 + Len(e.data)
              /\ \A i \in 1 .. Len(e.data) : Encoded(e)[1 + i] = e.data[i]
         /\ e.kind # "value" =>
              /\ Len(Encoded(e)) = 3 + Len(e.data)
              /\ Encoded(e)[2] = Len(e.data) % Base /\ Encoded(e)[3] = Len(e.data) \div Base
              /\ \A i \in 1 .. Len(e.data) : Encoded(e)[3 + i] = e.data[i]
<1>1. PICK tag \in Nat, data \in Seq(Nat), n \in Nat :
        tag = e.tag /\ data = e.data /\ n = Len(data)
  <2>1. e.tag \in Tag /\ e.data \in Seq(Byte)
    BY DEF Element
  <2>2. e.tag \in Nat /\ e.data \in Seq(Nat)
    BY <2>1, Numbers, Constants
  <2>3. Len(e.data) \in Nat
    BY <2>2
  <2> QED
    BY <2>2, <2>3
<1>2. PICK low \in Nat, high \in Nat : low = n % Base /\ high = n \div Base
  BY TwoDigits
<1>3. CASE e.kind = "value"
  <2>1. Encoded(e) = <<tag>> \o data
    BY <1>1, <1>3 DEF Encoded
  <2>2. /\ <<tag>> \o data \in Seq(Nat) /\ (<<tag>> \o data)[1] = tag
        /\ Len(<<tag>> \o data) = 1 + n
        /\ \A i \in 1 .. n : (<<tag>> \o data)[1 + i] = data[i]
    BY <1>1
  <2> QED
    BY <1>1, <1>3, <2>1, <2>2
<1>4. CASE e.kind # "value"
  <2>1. Encoded(e) = <<tag>> \o (<<low, high>> \o data)
    BY <1>1, <1>2, <1>4 DEF Encoded, Digits
  <2>2. PICK tail \in Seq(Nat) : tail = <<low, high>> \o data
    <3>1. <<low, high>> \in Seq(Nat)
      OBVIOUS
    <3> QED
      BY <3>1, ConcatProperties
  <2>3. /\ Len(tail) = 2 + n /\ tail[1] = low /\ tail[2] = high
        /\ \A i \in 1 .. n : tail[2 + i] = data[i]
    BY <1>1, <2>2
  <2>4. /\ <<tag>> \o tail \in Seq(Nat) /\ Len(<<tag>> \o tail) = 3 + n
        /\ (<<tag>> \o tail)[1] = tag
        /\ \A i \in 1 .. 2 + n : (<<tag>> \o tail)[1 + i] = tail[i]
    BY <2>3
  <2>5. (<<tag>> \o tail)[2] = low /\ (<<tag>> \o tail)[3] = high
    BY <2>3, <2>4
  <2>6. \A i \in 1 .. n : (<<tag>> \o tail)[3 + i] = data[i]
    <3> TAKE i \in 1 .. n
    <3>1. 2 + i \in 1 .. 2 + n /\ 1 + (2 + i) = 3 + i
      OBVIOUS
    <3> QED
      BY <2>3, <2>4, <3>1
  <2> QED
    BY <1>1, <1>2, <1>4, <2>1, <2>2, <2>4, <2>5, <2>6
<1> QED
  BY <1>3, <1>4

(* The bytes of a packet between two positions. *)
LEMMA SliceType ==
  ASSUME input \in Seq(Byte), NEW at \in Nat, NEW n \in Nat, at + n <= Len(input)
  PROVE  /\ Slice(at, n) \in Seq(Byte) /\ Len(Slice(at, n)) = n
         /\ \A i \in 1 .. n : Slice(at, n)[i] = input[at + i]
<1>1. PICK s \in Seq(Byte) : s = input
  OBVIOUS
<1>2. /\ SubSeq(s, at + 1, at + n) \in Seq(Byte) /\ Len(SubSeq(s, at + 1, at + n)) = n
      /\ \A i \in 1 .. n : SubSeq(s, at + 1, at + n)[i] = s[at + i]
  BY <1>1
<1> QED
  BY <1>1, <1>2 DEF Slice

(* What is read as a value is the bytes it was read from. *)
LEMMA ValueBytes ==
  ASSUME input \in Seq(Byte), NEW at \in Nat, Readable(at)
  PROVE  LET size == Payload[input[at + 1]]
         IN /\ size \in Nat /\ at + 1 + size <= Len(input)
            /\ Value(at) \in Element /\ Value(at).kind = "value"
            /\ Value(at).tag = input[at + 1] /\ Value(at).data = Slice(at + 1, size)
            /\ Len(Value(at).data) = size
            /\ Encoded(Value(at)) = SubSeq(input, at + 1, at + 1 + size)
<1>1. PICK size \in Nat, tag \in Tag : size = Payload[input[at + 1]] /\ tag = input[at + 1]
  BY Constants DEF Readable
<1>2. at + 1 + size <= Len(input) /\ at + 1 \in Nat /\ Len(input) \in Nat
  BY <1>1 DEF Readable
<1>3. /\ Slice(at + 1, size) \in Seq(Byte) /\ Len(Slice(at + 1, size)) = size
      /\ \A i \in 1 .. size : Slice(at + 1, size)[i] = input[at + 1 + i]
  BY <1>2, SliceType
<1>4. PICK data \in Seq(Byte) : data = Slice(at + 1, size)
  BY <1>3
<1>5. Value(at) = [kind |-> "value", tag |-> tag, data |-> data]
  BY <1>1, <1>4 DEF Value
<1>6. [kind |-> "value", tag |-> tag, data |-> data] \in Element
  BY DEF Element
<1>7. PICK e \in Element : e = Value(at) /\ e.kind = "value" /\ e.tag = tag /\ e.data = data
  BY <1>5, <1>6
<1>8. /\ Encoded(e) \in Seq(Nat) /\ Len(Encoded(e)) = 1 + size /\ Encoded(e)[1] = tag
      /\ \A i \in 1 .. size : Encoded(e)[1 + i] = data[i]
  <2>1. Len(data) = size
    BY <1>3, <1>4
  <2> QED
    BY <1>7, <2>1, EncodedBytes
<1>9. Encoded(e) = SubSeq(input, at + 1, at + 1 + size)
  <2>1. PICK s \in Seq(Nat) : s = input
    BY Numbers
  <2>2. PICK n \in Nat : n = 1 + size /\ at + n <= Len(s) /\ at + n = at + 1 + size
    BY <1>2, <2>1
  <2>3. PICK r \in Seq(Nat) :
          /\ r = SubSeq(s, at + 1, at + 1 + size)
          /\ Len(r) = 1 + size /\ \A i \in 1 .. 1 + size : r[i] = s[at + i]
    BY <2>2, Part
  <2>4. \A i \in 1 .. 1 + size : Encoded(e)[i] = s[at + i]
    <3> TAKE i \in 1 .. 1 + size
    <3>1. CASE i = 1
      BY <1>1, <1>8, <2>1, <3>1
    <3>2. CASE i # 1
      <4>1. PICK j \in 1 .. size : i = 1 + j
        <5>1. i - 1 \in 1 .. size /\ i = 1 + (i - 1)
          BY <3>2
        <5> QED
          BY <5>1
      <4>2. at + 1 + j = at + i
        BY <4>1
      <4> QED
        BY <1>3, <1>4, <1>8, <2>1, <4>1, <4>2
    <3> QED
      BY <3>1, <3>2
  <2>5. Encoded(e) = r
    BY <1>8, <2>3, <2>4, SeqEqual
  <2> QED
    BY <2>1, <2>3, <2>5
<1> QED
  BY <1>1, <1>2, <1>3, <1>4, <1>7, <1>9

(* The number a U16 holds is made of the two bytes after its tag. *)
LEMMA U16Value ==
  ASSUME input \in Seq(Byte), NEW at \in Nat, Readable(at), input[at + 1] = U16
  PROVE  LET n == Number(Value(at).data)
         IN /\ n \in Nat /\ at + 3 <= Len(input)
            /\ n % Base = input[at + 2] /\ n \div Base = input[at + 3]
            /\ n = input[at + 2] + Base * input[at + 3]
<1>1. Payload[input[at + 1]] = 2
  BY Constants
<1>2. at + 3 <= Len(input) /\ Value(at).data = Slice(at + 1, 2)
  BY <1>1, ValueBytes
<1>3. Value(at).data[1] = input[at + 2] /\ Value(at).data[2] = input[at + 3]
  <2>1. \A i \in 1 .. 2 : Slice(at + 1, 2)[i] = input[at + 1 + i]
    BY <1>2, SliceType
  <2> QED
    BY <1>2, <2>1
<1>4. input[at + 2] \in Byte /\ input[at + 3] \in Byte
  BY <1>2
<1>5. PICK low \in Byte, high \in Byte : low = input[at + 2] /\ high = input[at + 3]
  BY <1>4
<1>6. PICK n : n = low + Base * high
  OBVIOUS
<1>7. n \in Nat /\ n % Base = low /\ n \div Base = high
  BY <1>6, TwoDigits
<1>8. Number(Value(at).data) = n
  BY <1>3, <1>5, <1>6 DEF Number
<1> QED
  BY <1>2, <1>5, <1>6, <1>7, <1>8

(* What is read as a string or a block is the bytes it was read from. *)
LEMMA AnnouncedBytes ==
  ASSUME input \in Seq(Byte), NEW at \in Nat, Readable(at), input[at + 1] = U16,
         NEW n, n = Number(Value(at).data), at + 3 + n <= Len(input)
  PROVE  LET e == Announced(at + 3, n)
         IN /\ n \in Nat /\ e \in Element /\ e.tag = U16 /\ e.data = Slice(at + 3, n)
            /\ e.kind = IF IsText(e.data) THEN "string" ELSE "bytes"
            /\ Encoded(e) = SubSeq(input, at + 1, at + 3 + n)
<1>1. /\ n \in Nat /\ at + 3 <= Len(input)
      /\ n % Base = input[at + 2] /\ n \div Base = input[at + 3]
  BY U16Value
<1>2. PICK data \in Seq(Byte) :
        /\ data = Slice(at + 3, n) /\ Len(data) = n
        /\ \A i \in 1 .. n : data[i] = input[at + 3 + i]
  BY <1>1, SliceType
<1>3. PICK kind \in {"string", "bytes"} : kind = IF IsText(data) THEN "string" ELSE "bytes"
  OBVIOUS
<1>4. Announced(at + 3, n) = [kind |-> kind, tag |-> U16, data |-> data]
  BY <1>2, <1>3 DEF Announced
<1>5. [kind |-> kind, tag |-> U16, data |-> data] \in Element
  BY Constants DEF Element
<1>6. PICK e \in Element : e = Announced(at + 3, n) /\ e.kind = kind /\ e.tag = U16 /\ e.data = data
  BY <1>4, <1>5
<1>7. /\ Encoded(e) \in Seq(Nat) /\ Len(Encoded(e)) = 3 + n
      /\ Encoded(e)[1] = U16
      /\ Encoded(e)[2] = n % Base /\ Encoded(e)[3] = n \div Base
      /\ \A i \in 1 .. n : Encoded(e)[3 + i] = data[i]
  <2>1. e.kind # "value" /\ Len(e.data) = n
    BY <1>2, <1>6
  <2> QED
    BY <1>6, <2>1, EncodedBytes
<1>8. Encoded(e) = SubSeq(input, at + 1, at + 3 + n)
  <2>1. PICK s \in Seq(Nat) : s = input
    BY Numbers
  <2>2. PICK m \in Nat : m = 3 + n /\ at + m <= Len(s) /\ at + m = at + 3 + n
    <3>1. PICK k \in Nat : k = n
      BY <1>1
    <3>2. 3 + k \in Nat /\ at + (3 + k) = at + 3 + k
      OBVIOUS
    <3>3. at + 3 + k <= Len(s)
      BY <2>1, <3>1
    <3> QED
      BY <3>1, <3>2, <3>3
  <2>3. PICK r \in Seq(Nat) :
          /\ r = SubSeq(s, at + 1, at + 3 + n)
          /\ Len(r) = 3 + n /\ \A i \in 1 .. 3 + n : r[i] = s[at + i]
    <3>1. PICK r \in Seq(Nat) :
            r = SubSeq(s, at + 1, at + m) /\ Len(r) = m /\ \A i \in 1 .. m : r[i] = s[at + i]
      <4>1. at + m <= Len(s)
        BY <2>2
      <4>2. /\ SubSeq(s, at + 1, at + m) \in Seq(Nat) /\ Len(SubSeq(s, at + 1, at + m)) = m
            /\ \A i \in 1 .. m : SubSeq(s, at + 1, at + m)[i] = s[at + i]
        BY <4>1, Part
      <4> QED
        BY <4>2
    <3> QED
      BY <2>2, <3>1
  <2>4. \A i \in 1 .. 3 + n : Encoded(e)[i] = s[at + i]
    <3> TAKE i \in 1 .. 3 + n
    <3>1. CASE i <= 3
      <4>1. i = 1 \/ i = 2 \/ i = 3
        BY <3>1
      <4> QED
        BY <1>1, <1>7, <2>1, <4>1
    <3>2. CASE i > 3
      <4>1. PICK j \in 1 .. n : i = 3 + j
        <5>1. i - 3 \in 1 .. n /\ i = 3 + (i - 3)
          BY <1>1, <3>2
        <5> QED
          BY <5>1
      <4>2. at + 3 + j = at + i
        BY <4>1
      <4> QED
        BY <1>2, <1>7, <2>1, <4>1, <4>2
    <3> QED
      BY <1>1, <3>1, <3>2
  <2>5. Encoded(e) = r
    <3>1. Encoded(e) \in Seq(Nat) /\ Len(Encoded(e)) = Len(r)
      BY <1>7, <2>3
    <3>2. \A i \in 1 .. Len(Encoded(e)) : Encoded(e)[i] = r[i]
      BY <1>7, <2>3, <2>4
    <3> QED
      BY <3>1, <3>2, SeqEqual
  <2> QED
    BY <2>1, <2>3, <2>5
<1> QED
  BY <1>1, <1>2, <1>3, <1>6, <1>8

(* read_guess: the next element is what the bytes say up to where the reader
   is then; it is never read beyond the packet. *)
LEMMA ReadEffect ==
  ASSUME TypeOK, ReadGuess
  PROVE  \E e \in Element, b \in pos + 1 .. Len(input) :
           /\ out' = Append(out, e) /\ pos' = b
           /\ Encoded(e) = SubSeq(input, pos + 1, b)
           /\ UNCHANGED <<packet, result>>
<1>1. input \in Seq(Byte) /\ pos \in Nat /\ Len(input) \in Nat
  BY DEF TypeOK
<1>2. UNCHANGED <<packet, result>>
  BY DEF ReadGuess, ReadU16, ReadOther
<1>3. ASSUME Readable(pos), out' = Append(out, Value(pos)),
             pos' = pos + 1 + Payload[input[pos + 1]]
      PROVE  \E e \in Element, b \in pos + 1 .. Len(input) :
               out' = Append(out, e) /\ pos' = b /\ Encoded(e) = SubSeq(input, pos + 1, b)
  <2>1. PICK size \in Nat : size = Payload[input[pos + 1]]
    BY <1>1, <1>3, ValueBytes
  <2>2. /\ pos + 1 + size <= Len(input) /\ Value(pos) \in Element
        /\ Encoded(Value(pos)) = SubSeq(input, pos + 1, pos + 1 + size)
    BY <1>1, <1>3, <2>1, ValueBytes
  <2>3. pos + 1 + size \in pos + 1 .. Len(input)
    BY <1>1, <2>2
  <2> QED
    BY <1>3, <2>1, <2>2, <2>3
<1>4. CASE ReadOther
  BY <1>3, <1>4 DEF ReadOther
<1>5. CASE ReadU16
  <2>1. PICK n : n = Number(Value(pos).data)
    OBVIOUS
  <2>2. Readable(pos) /\ input[pos + 1] = U16
    BY <1>5 DEF ReadU16
  <2>3. n \in Nat
    BY <1>1, <2>1, <2>2, U16Value
  <2>4. CASE Fallback(pos, n)
    <3>1. pos' = pos + 1 + Payload[input[pos + 1]]
      BY <1>1, <2>2, <2>4, Constants DEF Fallback
    <3> QED
      BY <1>2, <1>3, <2>2, <2>4, <3>1 DEF Fallback
  <2>5. CASE /\ Followed(pos + 3, n)
             /\ out' = Append(out, Announced(pos + 3, n))
             /\ pos' = pos + 3 + n
    <3>1. pos + 3 + n <= Len(input)
      BY <2>5 DEF Followed
    <3>2. /\ Announced(pos + 3, n) \in Element
          /\ Encoded(Announced(pos + 3, n)) = SubSeq(input, pos + 1, pos + 3 + n)
      BY <1>1, <2>1, <2>2, <3>1, AnnouncedBytes
    <3>3. pos + 3 + n \in pos + 1 .. Len(input)
      BY <1>1, <2>3, <3>1
    <3> QED
      BY <1>2, <2>5, <3>2, <3>3
  <2> QED
    BY <1>5, <2>1, <2>4, <2>5 DEF ReadU16
<1> QED
  BY <1>2, <1>4, <1>5 DEF ReadGuess

-----------------------------------------------------------------------------
(* Written, one element after the other. *)
LEMMA WrittenAppend ==
  ASSUME NEW elements \in Seq(Element), NEW e \in Element
  PROVE  /\ Written(<<>>) = <<>>
         /\ Written(elements) \in Seq(Nat)
         /\ Written(Append(elements, e)) = Cat(Written(elements), Encoded(e))
<1> DEFINE Bytes(s) == [k \in DOMAIN s |-> Encoded(s[k])]
<1>1. PICK L \in Nat : L = Len(elements)
  OBVIOUS
<1>2. PICK r \in Seq(Element) :
        /\ r = Append(elements, e) /\ Len(r) = L + 1 /\ r[L + 1] = e
        /\ \A k \in 1 .. L : r[k] = elements[k]
  <2>1. Append(elements, e) \in Seq(Element)
    BY AppendProperties
  <2>2. /\ Len(Append(elements, e)) = L + 1 /\ Append(elements, e)[L + 1] = e
        /\ \A k \in 1 .. L : Append(elements, e)[k] = elements[k]
    BY <1>1
  <2> QED
    BY <2>1, <2>2
<1>3. PICK s \in Seq(Seq(Nat)) :
        s = Bytes(elements) /\ Len(s) = L /\ \A k \in 1 .. L : s[k] = Encoded(elements[k])
  <2>1. \A k \in 1 .. L : Encoded(elements[k]) \in Seq(Nat)
    BY <1>1, EncodedBytes
  <2>2. Bytes(elements) = [k \in 1 .. L |-> Encoded(elements[k])]
    BY <1>1
  <2> HIDE DEF Bytes
  <2>3. PICK s : s = [k \in 1 .. L |-> Encoded(elements[k])]
    OBVIOUS
  <2>4. s \in [1 .. L -> Seq(Nat)] /\ \A k \in 1 .. L : s[k] = Encoded(elements[k])
    BY <2>1, <2>3
  <2>5. s \in Seq(Seq(Nat)) /\ Len(s) = L
    BY <2>4
  <2> QED
    BY <2>2, <2>3, <2>4, <2>5
<1>4. Encoded(e) \in Seq(Nat)
  BY EncodedBytes
<1>5. Bytes(r) = Append(s, Encoded(e))
  <2>1. PICK t \in Seq(Seq(Nat)) :
          /\ t = Append(s, Encoded(e)) /\ Len(t) = L + 1 /\ t[L + 1] = Encoded(e)
          /\ \A k \in 1 .. L : t[k] = s[k]
    <3>1. Append(s, Encoded(e)) \in Seq(Seq(Nat))
      BY <1>4, AppendProperties
    <3>2. /\ Len(Append(s, Encoded(e))) = L + 1 /\ Append(s, Encoded(e))[L + 1] = Encoded(e)
          /\ \A k \in 1 .. L : Append(s, Encoded(e))[k] = s[k]
      BY <1>3, <1>4
    <3> QED
      BY <3>1, <3>2
  <2>2. DOMAIN t = 1 .. L + 1 /\ t = [k \in 1 .. L + 1 |-> t[k]]
    <3>1. DOMAIN t = 1 .. L + 1 /\ t \in [1 .. L + 1 -> Seq(Nat)]
      BY <2>1, LenProperties
    <3> QED
      BY <3>1
  <2>3. DOMAIN r = 1 .. L + 1
    BY <1>2
  <2>4. \A k \in 1 .. L + 1 : t[k] = Encoded(r[k])
    <3> TAKE k \in 1 .. L + 1
    <3>1. k \in 1 .. L \/ k = L + 1
      OBVIOUS
    <3> QED
      BY <1>2, <1>3, <2>1, <3>1
  <2>5. Bytes(r) = [k \in 1 .. L + 1 |-> Encoded(r[k])]
    BY <2>3
  <2> HIDE DEF Bytes
  <2> QED
    BY <2>1, <2>2, <2>4, <2>5
<1>6. \A t : Written(t) = FlattenSeq(Bytes(t))
  BY DEF Written
<1>7. Written(<<>>) = <<>>
  <2>1. Bytes(<<>>) = <<>> /\ Len(<<>>) = 0
    OBVIOUS
  <2>2. FlattenSeq(<<>>) = <<>>
    BY <2>1 DEF FlattenSeq
  <2> HIDE DEF Bytes
  <2> QED
    BY <1>6, <2>1, <2>2
<1> HIDE DEF Bytes
<1>8. FlattenSeq(Append(s, Encoded(e))) = Cat(FlattenSeq(s), Encoded(e)) /\ FlattenSeq(s) \in Seq(Nat)
  BY <1>4, FlattenAppend
<1> QED
  BY <1>2, <1>3, <1>5, <1>6, <1>7, <1>8

LEMMA WrittenEmpty == Written(<<>>) = <<>>
<1>1. PICK e \in Element : TRUE
  <2>1. [kind |-> "value", tag |-> U16, data |-> <<>>] \in Element
    BY Constants DEF Element
  <2> QED
    BY <2>1
<1>2. <<>> \in Seq(Element)
  OBVIOUS
<1> QED
  BY <1>1, <1>2, WrittenAppend

(* Encodings lie one behind the other in a packet that was read from its
   beginning. *)
LEMMA PartJoined ==
  ASSUME input \in Seq(Byte), NEW a \in Nat, NEW b \in Nat, a <= b, b <= Len(input)
  PROVE  Cat(SubSeq(input, 1, a), SubSeq(input, a + 1, b)) = SubSeq(input, 1, b)
<1>1. PICK s \in Seq(Nat) : s = input
  BY Numbers
<1>2. PICK m \in Nat : b = a + m
  <2>1. b - a \in Nat /\ b = a + (b - a)
    OBVIOUS
  <2> QED
    BY <2>1
<1>3. Len(s) \in Nat /\ b <= Len(s)
  BY <1>1
<1>4. /\ SubSeq(s, 1, a) \in Seq(Nat) /\ Len(SubSeq(s, 1, a)) = a
      /\ \A i \in 1 .. a : SubSeq(s, 1, a)[i] = s[i]
  BY <1>2, <1>3
<1>5. /\ SubSeq(s, a + 1, b) \in Seq(Nat) /\ Len(SubSeq(s, a + 1, b)) = m
      /\ \A i \in 1 .. m : SubSeq(s, a + 1, b)[i] = s[a + i]
  BY <1>2, <1>3, Part
<1>6. /\ SubSeq(s, 1, b) \in Seq(Nat) /\ Len(SubSeq(s, 1, b)) = b
      /\ \A i \in 1 .. b : SubSeq(s, 1, b)[i] = s[i]
  BY <1>2, <1>3
<1>7. PICK x \in Seq(Nat), y \in Seq(Nat), z \in Seq(Nat) :
        x = SubSeq(s, 1, a) /\ y = SubSeq(s, a + 1, b) /\ z = SubSeq(s, 1, b)
  BY <1>4, <1>5, <1>6
<1>8. /\ Cat(x, y) \in Seq(Nat) /\ Len(Cat(x, y)) = b
      /\ \A i \in 1 .. a : Cat(x, y)[i] = x[i]
      /\ \A i \in 1 .. m : Cat(x, y)[a + i] = y[i]
  <2>1. Len(x) = a /\ Len(y) = m
    BY <1>4, <1>5, <1>7
  <2> QED
    BY <1>2, <2>1, CatType
<1>9. \A i \in 1 .. b : Cat(x, y)[i] = z[i]
  <2> TAKE i \in 1 .. b
  <2>1. CASE i <= a
    BY <1>4, <1>6, <1>7, <1>8, <2>1
  <2>2. CASE i > a
    <3>1. PICK j \in 1 .. m : i = a + j
      <4>1. i - a \in 1 .. m /\ i = a + (i - a)
        BY <1>2, <2>2
      <4> QED
        BY <4>1
    <3> QED
      BY <1>5, <1>6, <1>7, <1>8, <3>1
  <2> QED
    BY <2>1, <2>2
<1>10. Cat(x, y) = z
  <2>1. Len(Cat(x, y)) = Len(z)
    BY <1>6, <1>7, <1>8
  <2>2. \A i \in 1 .. Len(Cat(x, y)) : Cat(x, y)[i] = z[i]
    BY <1>8, <1>9
  <2> QED
    BY <1>8, <2>1, <2>2, SeqEqual
<1> QED
  BY <1>1, <1>7, <1>10

(* What elements are written as is bytes, as long as their lengths fit. *)
LEMMA ContentsType ==
  ASSUME NEW s \in Contents
  PROVE  /\ s \in Seq(Element) /\ \A k \in 1 .. Len(s) : s[k] \in Element /\ Writable(s[k])
<1>1. s \in Seq({e \in Element : Writable(e)})
  BY RqodeAssumption
<1>2. \A k \in 1 .. Len(s) : s[k] \in Element /\ Writable(s[k])
  BY <1>1
<1>3. s \in [1 .. Len(s) -> Element] /\ Len(s) \in Nat
  BY <1>1, <1>2, LenProperties
<1> QED
  BY <1>2, <1>3

LEMMA EncodedType ==
  ASSUME NEW e \in Element, Writable(e)
  PROVE  Encoded(e) \in Seq(Byte)
<1>1. e.tag \in Byte /\ e.data \in Seq(Byte)
  BY Constants DEF Element
<1>2. CASE e.kind = "value"
  <2>1. <<e.tag>> \o e.data \in Seq(Byte)
    BY <1>1
  <2> QED
    BY <1>2, <2>1 DEF Encoded
<1>3. CASE e.kind # "value"
  <2>1. PICK n \in Nat : n = Len(e.data) /\ n < Base * Base
    <3>1. Len(e.data) \in 1 .. Base * Base - 1 /\ Base * Base \in Int
      BY <1>3, Constants DEF Writable
    <3> QED
      BY <3>1
  <2>2. n % Base \in Byte /\ n \div Base \in Byte
    <3>1. n % Base \in 0 .. Base - 1
      BY Constants
    <3>2. n \div Base \in Nat /\ n % Base \in Nat /\ n = (n % Base) + Base * (n \div Base)
      BY TwoDigits
    <3>3. PICK q \in Nat, r \in Nat : q = n \div Base /\ r = n % Base
      BY <3>2
    <3>4. ~(q >= Base)
      <4> SUFFICES ASSUME q >= Base PROVE FALSE
        OBVIOUS
      <4>1. Base \in Nat /\ n = r + Base * q
        BY <3>2, <3>3, Constants
      <4>2. PICK k \in Nat : q = Base + k
        <5>1. q - Base \in Nat /\ q = Base + (q - Base)
          BY <4>1
        <5> QED
          BY <5>1
      <4>3. Base * q = Base * Base + Base * k /\ Base * Base \in Nat /\ Base * k \in Nat
        BY <4>1, <4>2
      <4> QED
        BY <2>1, <4>1, <4>3
    <3> QED
      BY <3>1, <3>3, <3>4, Constants DEF Byte
  <2>3. PICK low \in Byte, high \in Byte : low = n % Base /\ high = n \div Base
    BY <2>2
  <2>4. <<low, high>> \in Seq(Byte)
    OBVIOUS
  <2>5. <<low, high>> \o e.data \in Seq(Byte)
    BY <1>1, <2>4, ConcatProperties
  <2>6. <<e.tag>> \o (<<low, high>> \o e.data) \in Seq(Byte)
    <3>1. <<e.tag>> \in Seq(Byte)
      BY <1>1
    <3> QED
      BY <2>5, <3>1, ConcatProperties
  <2>7. Encoded(e) = <<e.tag>> \o (<<low, high>> \o e.data)
    BY <1>3, <2>1, <2>3 DEF Encoded, Digits
  <2> QED
    BY <2>6, <2>7
<1> QED
  BY <1>2, <1>3

(* The encodings of what a packet was written from, and where each ends. *)
Bytes(elements) == [k \in DOMAIN elements |-> Encoded(elements[k])]

LEMMA BytesType ==
  ASSUME NEW s \in Contents
  PROVE  /\ Bytes(s) \in Seq(Seq(Nat)) /\ Len(Bytes(s)) = Len(s)
         /\ \A k \in 1 .. Len(s) : Bytes(s)[k] = Encoded(s[k]) /\ Bytes(s)[k] \in Seq(Byte)
         /\ Written(s) = FlattenSeq(Bytes(s))
<1>1. PICK n \in Nat : n = Len(s) /\ DOMAIN s = 1 .. n
  BY ContentsType
<1>2. \A k \in 1 .. n : Encoded(s[k]) \in Seq(Byte) /\ Encoded(s[k]) \in Seq(Nat)
  BY <1>1, ContentsType, EncodedType, Numbers
<1>3. PICK b : b = [k \in 1 .. n |-> Encoded(s[k])]
  OBVIOUS
<1>4. b \in [1 .. n -> Seq(Nat)] /\ \A k \in 1 .. n : b[k] = Encoded(s[k])
  BY <1>2, <1>3
<1>5. b \in Seq(Seq(Nat)) /\ Len(b) = n
  BY <1>4
<1>6. Bytes(s) = b
  BY <1>1, <1>3 DEF Bytes
<1>7. Written(s) = FlattenSeq(b)
  BY <1>6 DEF Written, Bytes
<1> QED
  BY <1>1, <1>2, <1>4, <1>5, <1>6, <1>7

LEMMA WrittenType ==
  ASSUME NEW s \in Contents
  PROVE  Written(s) \in Seq(Byte)
<1>1. PICK b \in Seq(Seq(Nat)), n \in Nat : b = Bytes(s) /\ n = Len(b)
  BY BytesType
<1>2. \A k \in 1 .. n : b[k] \in Seq(Byte)
  BY <1>1, BytesType
<1>3. PICK h : Joins(h, b)
  BY JoinsExist
<1>4. h[0] = <<>> /\ \A k \in 1 .. n : h[k] = Cat(h[k - 1], b[k])
  BY <1>1, <1>3 DEF Joins
<1> DEFINE S == {k \in Nat : k <= n => h[k] \in Seq(Byte)}
<1>5. 0 \in S
  <2>1. <<>> \in Seq(Byte)
    OBVIOUS
  <2> QED
    BY <1>4, <2>1
<1>6. ASSUME NEW k \in Nat, k \in S PROVE k + 1 \in S
  <2> SUFFICES ASSUME k + 1 <= n PROVE h[k + 1] \in Seq(Byte)
    OBVIOUS
  <2>1. k + 1 \in 1 .. n /\ (k + 1) - 1 = k /\ k <= n
    BY <1>1
  <2>2. h[k] \in Seq(Byte) /\ b[k + 1] \in Seq(Byte)
    BY <1>2, <1>6, <2>1
  <2>3. h[k + 1] = Cat(h[k], b[k + 1])
    BY <1>4, <2>1
  <2>4. Cat(h[k], b[k + 1]) \in Seq(Byte)
    BY <2>2, ConcatProperties DEF Cat
  <2> QED
    BY <2>3, <2>4
<1>7. \A k \in Nat : k \in S
  <2> HIDE DEF S
  <2> QED
    BY <1>5, <1>6, Induction
<1>8. h[n] \in Seq(Byte)
  BY <1>1, <1>7
<1>9. FlattenSeq(b) = h[n]
  BY <1>1, <1>3, FlattenJoins
<1> QED
  BY <1>1, <1>8, <1>9, BytesType

-----------------------------------------------------------------------------
LEMMA TypeInit == Init => TypeOK
<1> SUFFICES ASSUME Init PROVE TypeOK
  OBVIOUS
<1>1. input \in Seq(Byte)
  BY WrittenType, RqodeAssumption DEF Init
<1>2. pos = 0 /\ out = <<>> /\ result = "reading" /\ Len(input) \in Nat
  BY <1>1 DEF Init
<1> QED
  BY <1>1, <1>2 DEF TypeOK

LEMMA TypeStep == TypeOK /\ [Next]_vars => TypeOK'
<1> SUFFICES ASSUME TypeOK, [Next]_vars PROVE TypeOK'
  OBVIOUS
<1>1. CASE ReadGuess
  <2>1. PICK e \in Element, b \in pos + 1 .. Len(input) :
          out' = Append(out, e) /\ pos' = b /\ UNCHANGED <<packet, result>>
    BY <1>1, ReadEffect
  <2>2. result = "reading"
    BY <1>1 DEF ReadGuess
  <2>3. out \in Seq(Element) /\ input \in Seq(Byte) /\ pos \in Nat
    BY DEF TypeOK
  <2>4. out' \in Seq(Element)
    BY <2>1, <2>3, AppendProperties
  <2>5. b \in 0 .. Len(input)
    BY <2>3
  <2> QED
    BY <2>1, <2>2, <2>3, <2>4, <2>5 DEF TypeOK, packet
<1>2. CASE Fail \/ End \/ UNCHANGED vars
  BY <1>2 DEF TypeOK, Fail, End, vars, packet
<1> QED
  BY <1>1, <1>2 DEF Next

(* Every variable has its type, and only a packet that was read to its end has
   a result: read_guess never takes the reader beyond the end. *)
THEOREM TypeCorrect == Spec => []TypeOK
BY TypeInit, TypeStep, PTL DEF Spec

(* rqode_binrw.rs:302: whatever is guessed, what was decoded, written again, is
   the bytes read so far. *)
THEOREM LosslessCorrect == Spec => []Lossless
<1>1. Init => Lossless
  <2> SUFFICES ASSUME Init PROVE Lossless
    OBVIOUS
  <2>1. TypeOK /\ pos = 0 /\ out = <<>>
    BY TypeInit DEF Init
  <2>2. Written(<<>>) = <<>>
    BY WrittenEmpty
  <2>3. SubSeq(input, 1, 0) = <<>>
    BY <2>1 DEF TypeOK
  <2> QED
    BY <2>1, <2>2, <2>3 DEF Lossless
<1>2. TypeOK /\ Lossless /\ [Next]_vars => Lossless'
  <2> SUFFICES ASSUME TypeOK, Lossless, [Next]_vars PROVE Lossless'
    OBVIOUS
  <2>1. CASE ReadGuess
    <3>1. PICK e \in Element, b \in pos + 1 .. Len(input) :
            /\ out' = Append(out, e) /\ pos' = b
            /\ Encoded(e) = SubSeq(input, pos + 1, b) /\ UNCHANGED <<packet, result>>
      BY <2>1, ReadEffect
    <3>2. /\ out \in Seq(Element) /\ input \in Seq(Byte) /\ pos \in Nat
          /\ b \in Nat /\ pos <= b /\ b <= Len(input)
      BY DEF TypeOK
    <3>3. Written(Append(out, e)) = Cat(Written(out), Encoded(e))
      BY <3>2, WrittenAppend
    <3>4. Cat(SubSeq(input, 1, pos), SubSeq(input, pos + 1, b)) = SubSeq(input, 1, b)
      BY <3>2, PartJoined
    <3> QED
      BY <3>1, <3>3, <3>4 DEF Lossless, packet
  <2>2. CASE Fail \/ End \/ UNCHANGED vars
    BY <2>2 DEF Lossless, Fail, End, vars, packet
  <2> QED
    BY <2>1, <2>2 DEF Next
<1> QED
  BY <1>1, <1>2, TypeCorrect, PTL DEF Spec

-----------------------------------------------------------------------------
(* Packets that were written from elements.                                  *)

(* The k-th element's bytes begin where what comes before them ends. *)
LEMMA Placed ==
  ASSUME NEW s \in Contents, input \in Seq(Byte), input = Written(s),
         NEW h, Joins(h, Bytes(s)), NEW k \in Nat, k <= Len(s)
  PROVE  /\ Len(h[k]) \in Nat /\ Len(h[k]) <= Len(input) /\ Len(h[Len(s)]) = Len(input)
         /\ k < Len(s) =>
              LET p == Len(h[k])
                  e == s[k + 1]
              IN /\ e \in Element /\ Writable(e)
                 /\ Encoded(e) \in Seq(Nat)
                 /\ Len(h[k + 1]) = p + Len(Encoded(e)) /\ p + Len(Encoded(e)) <= Len(input)
                 /\ \A i \in 1 .. Len(Encoded(e)) : input[p + i] = Encoded(e)[i]
<1>1. PICK b \in Seq(Seq(Nat)), n \in Nat : b = Bytes(s) /\ n = Len(b) /\ n = Len(s)
  BY BytesType
<1>2. /\ \A j \in 1 .. n : h[j] = Cat(h[j - 1], b[j])
      /\ Joins(h, b)
  BY <1>1 DEF Joins
<1>3. input = h[n]
  BY <1>1, <1>2, FlattenJoins, BytesType
<1>4. /\ h[k] \in Seq(Nat) /\ h[n] \in Seq(Nat) /\ Len(h[k]) <= Len(h[n])
  BY <1>1, <1>2, JoinsPlace
<1>5. Len(h[k]) \in Nat /\ Len(h[k]) <= Len(input) /\ Len(h[Len(s)]) = Len(input)
  BY <1>1, <1>3, <1>4
<1>6. ASSUME k < Len(s)
      PROVE  LET p == Len(h[k])
                 e == s[k + 1]
             IN /\ e \in Element /\ Writable(e)
                /\ Encoded(e) \in Seq(Nat)
                /\ Len(h[k + 1]) = p + Len(Encoded(e)) /\ p + Len(Encoded(e)) <= Len(input)
                /\ \A i \in 1 .. Len(Encoded(e)) : input[p + i] = Encoded(e)[i]
  <2>1. k + 1 \in 1 .. n /\ (k + 1) - 1 = k /\ k + 1 \in Nat /\ k + 1 <= Len(b)
    BY <1>1, <1>6
  <2>2. s[k + 1] \in Element /\ Writable(s[k + 1])
    BY <1>1, <2>1, ContentsType
  <2>3. Encoded(s[k + 1]) \in Seq(Nat) /\ b[k + 1] = Encoded(s[k + 1])
    BY <1>1, <2>1, <2>2, EncodedBytes, BytesType
  <2>4. h[k + 1] = Cat(h[k], Encoded(s[k + 1]))
    BY <1>2, <2>1, <2>3
  <2>5. /\ Len(h[k + 1]) <= Len(h[n])
        /\ \A i \in 1 .. Len(h[k + 1]) : h[n][i] = h[k + 1][i]
    <3>1. PICK m \in Nat : m = k + 1 /\ m <= Len(b)
      BY <2>1
    <3>2. Joins(h, b)
      BY <1>2
    <3>3. /\ Len(h[m]) <= Len(h[Len(b)])
          /\ \A i \in 1 .. Len(h[m]) : h[Len(b)][i] = h[m][i]
      BY <3>1, <3>2, JoinsWithin
    <3> QED
      BY <1>1, <3>1, <3>3
  <2>6. PICK x \in Seq(Nat), y \in Seq(Nat) : x = h[k] /\ y = Encoded(s[k + 1])
    BY <1>4, <2>3
  <2>7. /\ Len(Cat(x, y)) = Len(x) + Len(y)
        /\ \A i \in 1 .. Len(y) : Cat(x, y)[Len(x) + i] = y[i]
    BY CatType
  <2>8. Len(h[k + 1]) = Len(x) + Len(y) /\ Len(x) + Len(y) <= Len(input)
    BY <1>3, <2>4, <2>5, <2>6, <2>7
  <2>9. \A i \in 1 .. Len(y) : input[Len(x) + i] = y[i]
    <3> TAKE i \in 1 .. Len(y)
    <3>1. Len(x) + i \in 1 .. Len(h[k + 1])
      BY <2>8
    <3>2. input[Len(x) + i] = h[k + 1][Len(x) + i]
      BY <1>3, <2>5, <3>1
    <3> QED
      BY <2>4, <2>6, <2>7, <3>2
  <2> QED
    BY <2>2, <2>3, <2>6, <2>8, <2>9
<1> QED
  BY <1>5, <1>6

(* What is written can be read as a value at each element's beginning: a
   string begins with the number that is its length. *)
LEMMA WrittenReadable ==
  ASSUME NEW s \in Contents, input \in Seq(Byte), input = Written(s),
         NEW h, Joins(h, Bytes(s)), NEW k \in Nat, k <= Len(s)
  PROVE  Len(h[k]) = Len(input) \/ Readable(Len(h[k]))
<1>1. CASE k = Len(s)
  BY <1>1, Placed
<1>2. CASE k # Len(s)
  <2>1. k < Len(s) /\ Len(h[k]) \in Nat /\ Len(input) \in Nat
    BY <1>2, Placed, ContentsType
  <2>2. PICK e \in Element, p \in Nat, y \in Seq(Nat) : e = s[k + 1] /\ p = Len(h[k]) /\ y = Encoded(e)
    BY <2>1, Placed
  <2>3. /\ Writable(e) /\ p + Len(y) <= Len(input)
        /\ \A i \in 1 .. Len(y) : input[p + i] = y[i]
    <3>1. LET p1 == Len(h[k])
              e1 == s[k + 1]
          IN /\ Writable(e1) /\ p1 + Len(Encoded(e1)) <= Len(input)
             /\ \A i \in 1 .. Len(Encoded(e1)) : input[p1 + i] = Encoded(e1)[i]
      BY <2>1, Placed, ZenonT(30)
    <3> QED
      BY <2>2, <3>1
  <2>4. y[1] = e.tag /\ e.tag \in Tag /\ Len(e.data) \in Nat
    BY <2>2, EncodedBytes DEF Element
  <2>5. PICK size \in Nat : size = Payload[e.tag]
    BY <2>4, Constants
  <2>6. Len(y) >= 1 + size
    <3>1. CASE e.kind = "value"
      <4>1. Len(y) = 1 + Len(e.data)
        BY <2>2, <3>1, EncodedBytes
      <4>2. Len(e.data) = size
        BY <2>3, <2>5, <3>1 DEF Writable
      <4> QED
        BY <4>1, <4>2
    <3>2. CASE e.kind # "value"
      <4>1. Len(y) = 3 + Len(e.data) /\ e.tag = U16
        BY <2>2, <2>3, <3>2, EncodedBytes DEF Writable
      <4> QED
        BY <2>4, <2>5, <4>1, Constants
    <3> QED
      BY <3>1, <3>2
  <2>7. input[p + 1] = e.tag
    BY <2>3, <2>4, <2>6
  <2>8. p < Len(input) /\ p + 1 + size <= Len(input)
    BY <2>1, <2>3, <2>6
  <2> QED
    BY <2>2, <2>4, <2>5, <2>7, <2>8 DEF Readable
<1> QED
  BY <1>1, <1>2

(* A value that is no number, or is 0, is read as itself. *)
LEMMA ReadsValue ==
  ASSUME input \in Seq(Byte), pos \in Nat, ReadGuess,
         NEW e \in Element, Writable(e), e.kind = "value", ~Ambiguous(e),
         pos + Len(Encoded(e)) <= Len(input),
         \A i \in 1 .. Len(Encoded(e)) : input[pos + i] = Encoded(e)[i]
  PROVE  out' = Append(out, e) /\ pos' = pos + Len(Encoded(e))
<1>1. PICK data \in Seq(Byte), size \in Nat, tag \in Tag :
        data = e.data /\ tag = e.tag /\ size = Payload[tag] /\ size = Len(data)
  <2>1. e.data \in Seq(Byte) /\ e.tag \in Tag
    BY DEF Element
  <2>2. Len(e.data) \in Nat /\ Len(e.data) = Payload[e.tag]
    BY <2>1, Constants DEF Writable
  <2> QED
    BY <2>1, <2>2
<1>2. e = [kind |-> "value", tag |-> tag, data |-> data]
  BY <1>1 DEF Element
<1>3. /\ Len(Encoded(e)) = 1 + size /\ Encoded(e)[1] = tag
      /\ \A i \in 1 .. size : Encoded(e)[1 + i] = data[i]
  BY <1>1, EncodedBytes
<1>4. input[pos + 1] = tag /\ pos + 1 + size <= Len(input)
  BY <1>3
<1>5. Readable(pos)
  <2>1. pos < Len(input)
    BY <1>4
  <2> QED
    BY <1>1, <1>4, <2>1 DEF Readable
<1>6. Slice(pos + 1, size) = data
  <2>1. /\ Slice(pos + 1, size) \in Seq(Byte) /\ Len(Slice(pos + 1, size)) = size
        /\ \A i \in 1 .. size : Slice(pos + 1, size)[i] = input[pos + 1 + i]
    <3>1. PICK at \in Nat : at = pos + 1 /\ at + size <= Len(input)
      BY <1>4
    <3>2. /\ Slice(at, size) \in Seq(Byte) /\ Len(Slice(at, size)) = size
          /\ \A i \in 1 .. size : Slice(at, size)[i] = input[at + i]
      BY <3>1, SliceType
    <3> QED
      BY <3>1, <3>2
  <2>2. \A i \in 1 .. size : Slice(pos + 1, size)[i] = data[i]
    <3> TAKE i \in 1 .. size
    <3>1. 1 + i \in 1 .. Len(Encoded(e)) /\ pos + (1 + i) = pos + 1 + i
      BY <1>3
    <3>2. input[pos + (1 + i)] = Encoded(e)[1 + i]
      BY <3>1
    <3> QED
      BY <1>3, <2>1, <3>1, <3>2
  <2>3. Len(Slice(pos + 1, size)) = Len(data)
    BY <1>1, <2>1
  <2> QED
    BY <1>1, <2>1, <2>2, <2>3, SeqEqual
<1>7. Value(pos) = e
  BY <1>1, <1>2, <1>4, <1>6 DEF Value
<1>8. pos + 1 + size = pos + Len(Encoded(e))
  BY <1>3
<1>9. CASE ReadOther
  BY <1>1, <1>4, <1>7, <1>8, <1>9 DEF ReadOther
<1>10. CASE ReadU16
  <2>1. tag = U16 /\ size = 2
    BY <1>1, <1>4, <1>10, Constants DEF ReadU16
  <2>2. Number(e.data) = 0
    BY <1>1, <2>1 DEF Ambiguous
  <2>3. ~Followed(pos + 3, 0)
    BY DEF Followed
  <2>4. Fallback(pos, 0)
    BY <1>7, <1>10, <2>2, <2>3 DEF ReadU16
  <2>5. pos + 3 = pos + Len(Encoded(e))
    BY <1>8, <2>1
  <2> QED
    BY <1>7, <2>4, <2>5 DEF Fallback
<1> QED
  BY <1>9, <1>10 DEF ReadGuess

(* A string or a block before the end or an element is read as itself. *)
LEMMA ReadsAnnounced ==
  ASSUME input \in Seq(Byte), pos \in Nat, ReadGuess,
         NEW e \in Element, Writable(e), e.kind # "value",
         pos + Len(Encoded(e)) <= Len(input),
         \A i \in 1 .. Len(Encoded(e)) : input[pos + i] = Encoded(e)[i],
         \/ pos + Len(Encoded(e)) = Len(input)
         \/ Readable(pos + Len(Encoded(e)))
  PROVE  out' = Append(out, e) /\ pos' = pos + Len(Encoded(e))
<1>1. PICK data \in Seq(Byte), n \in Nat : data = e.data /\ n = Len(data) /\ n > 0
  <2>1. e.data \in Seq(Byte)
    BY DEF Element
  <2>2. Len(e.data) \in Nat /\ Len(e.data) > 0
    <3>1. Len(e.data) \in 1 .. Base * Base - 1 /\ Base * Base \in Int
      BY Constants DEF Writable
    <3> QED
      BY <3>1
  <2> QED
    BY <2>1, <2>2
<1>2. PICK kind : kind = IF IsText(data) THEN "string" ELSE "bytes"
  OBVIOUS
<1>3. e = [kind |-> kind, tag |-> U16, data |-> data]
  <2>1. e.kind = kind /\ e.tag = U16 /\ e.data = data
    BY <1>1, <1>2 DEF Writable
  <2> QED
    BY <2>1 DEF Element
<1>4. /\ Len(Encoded(e)) = 3 + n /\ Encoded(e)[1] = U16
      /\ Encoded(e)[2] = n % Base /\ Encoded(e)[3] = n \div Base
      /\ \A i \in 1 .. n : Encoded(e)[3 + i] = data[i]
  <2>1. e.tag = U16
    BY <1>3
  <2> QED
    BY <1>1, <2>1, EncodedBytes
<1>5. /\ input[pos + 1] = U16 /\ input[pos + 2] = n % Base /\ input[pos + 3] = n \div Base
      /\ pos + 3 + n <= Len(input)
  BY <1>4
<1>6. Readable(pos)
  BY <1>5, Constants DEF Readable
<1>7. Number(Value(pos).data) = n
  <2>1. Number(Value(pos).data) = input[pos + 2] + Base * input[pos + 3]
    BY <1>5, <1>6, U16Value
  <2> QED
    BY <1>5, <2>1, TwoDigits
<1>8. Followed(pos + 3, n)
  <2>1. pos + 3 + n = pos + Len(Encoded(e))
    BY <1>4
  <2> QED
    BY <1>1, <1>5, <2>1 DEF Followed
<1>9. Slice(pos + 3, n) = data
  <2>1. /\ Slice(pos + 3, n) \in Seq(Byte) /\ Len(Slice(pos + 3, n)) = n
        /\ \A i \in 1 .. n : Slice(pos + 3, n)[i] = input[pos + 3 + i]
    BY <1>5, SliceType
  <2>2. \A i \in 1 .. n : Slice(pos + 3, n)[i] = data[i]
    <3> TAKE i \in 1 .. n
    <3>1. 3 + i \in 1 .. Len(Encoded(e)) /\ pos + (3 + i) = pos + 3 + i
      BY <1>4
    <3>2. input[pos + (3 + i)] = Encoded(e)[3 + i]
      BY <3>1
    <3> QED
      BY <1>4, <2>1, <3>1, <3>2
  <2> QED
    BY <1>1, <2>1, <2>2, SeqEqual
<1>10. Announced(pos + 3, n) = e
  BY <1>2, <1>3, <1>9 DEF Announced
<1>11. ReadU16
  BY <1>5 DEF ReadGuess, ReadOther
<1>12. out' = Append(out, e) /\ pos' = pos + 3 + n
  BY <1>7, <1>8, <1>10, <1>11 DEF ReadU16
<1> QED
  BY <1>4, <1>12

(* Up to the first ambiguous number, the elements that were read are those the
   packet was written from, and the reader is where the last one ends. *)
Unguessed == \A m \in 1 .. Len(out) : m \in DOMAIN values => ~Ambiguous(values[m])

Following ==
  /\ values = <<>> \/ (values \in Contents /\ input = Written(values))
  /\ values \in Contents /\ input = Written(values) /\ Unguessed =>
       /\ Len(out) <= Len(values)
       /\ \A j \in 1 .. Len(out) : out[j] = values[j]
       /\ \E h : Joins(h, Bytes(values)) /\ pos = Len(h[Len(out)])

LEMMA FollowingInit == Init => Following
<1> SUFFICES ASSUME Init PROVE Following
  OBVIOUS
<1>1. out = <<>> /\ pos = 0 /\ Len(out) = 0
  BY DEF Init
<1>2. ASSUME values \in Contents
      PROVE  /\ Len(out) <= Len(values)
             /\ \A j \in 1 .. Len(out) : out[j] = values[j]
             /\ \E h : Joins(h, Bytes(values)) /\ pos = Len(h[Len(out)])
  <2>1. PICK b \in Seq(Seq(Nat)) : b = Bytes(values)
    BY <1>2, BytesType
  <2>2. PICK h : Joins(h, b)
    BY JoinsExist
  <2>3. h[0] = <<>>
    BY <2>2 DEF Joins
  <2>4. Len(values) \in Nat
    BY <1>2, ContentsType
  <2>5. Len(h[Len(out)]) = 0
    BY <1>1, <2>3
  <2> QED
    BY <1>1, <2>1, <2>2, <2>4, <2>5
<1> QED
  BY <1>2 DEF Init, Following

LEMMA FollowingStep == TypeOK /\ Following /\ [Next]_vars => Following'
<1> SUFFICES ASSUME TypeOK, Following, [Next]_vars PROVE Following'
  OBVIOUS
<1>1. CASE ReadGuess
  <2>1. PICK e \in Element, b \in pos + 1 .. Len(input) :
          out' = Append(out, e) /\ pos' = b /\ UNCHANGED <<packet, result>>
    BY <1>1, ReadEffect
  <2>2. PICK k \in Nat : k = Len(out) /\ pos \in Nat /\ Len(input) \in Nat
    BY DEF TypeOK
  <2>3. Len(out') = k + 1 /\ out'[k + 1] = e /\ \A j \in 1 .. k : out'[j] = out[j]
    BY <2>1, <2>2 DEF TypeOK
  <2>4. input' = input /\ values' = values
    BY <2>1 DEF packet
  <2>5. ASSUME values \in Contents, input = Written(values), Unguessed'
        PROVE  /\ k + 1 <= Len(values)
               /\ \A j \in 1 .. k + 1 : out'[j] = values[j]
               /\ \E h : Joins(h, Bytes(values)) /\ pos' = Len(h[k + 1])
    <3>1. \A m \in 1 .. k + 1 : m \in DOMAIN values => ~Ambiguous(values[m])
      BY <2>3, <2>4, <2>5 DEF Unguessed
    <3>2. Unguessed
      BY <2>2, <3>1 DEF Unguessed
    <3>3. PICK h : Joins(h, Bytes(values)) /\ pos = Len(h[k])
      BY <2>2, <2>5, <3>2 DEF Following
    <3>4. k <= Len(values) /\ \A j \in 1 .. k : out[j] = values[j]
      BY <2>2, <2>5, <3>2 DEF Following
    <3>5. input \in Seq(Byte)
      BY DEF TypeOK
    <3>6. k < Len(values)
      <4>1. k # Len(values)
        <5>1. Len(h[Len(values)]) = Len(input)
          BY <2>5, <3>3, <3>4, <3>5, Placed
        <5>2. pos < Len(input)
          BY <1>1 DEF ReadGuess
        <5> QED
          BY <2>2, <3>3, <5>1, <5>2
      <4>2. Len(values) \in Nat
        BY <2>5, ContentsType
      <4> QED
        BY <3>4, <4>1, <4>2
    <3>7. DOMAIN values = 1 .. Len(values) /\ Len(values) \in Nat
      BY <2>5, ContentsType
    <3>8. PICK v \in Element : v = values[k + 1] /\ Writable(v) /\ ~Ambiguous(v)
      <4>1. k + 1 \in DOMAIN values
        BY <3>6, <3>7
      <4> QED
        BY <2>5, <3>1, <3>7, <4>1, ContentsType
    <3>9. /\ Len(h[k + 1]) = pos + Len(Encoded(v)) /\ pos + Len(Encoded(v)) <= Len(input)
          /\ \A i \in 1 .. Len(Encoded(v)) : input[pos + i] = Encoded(v)[i]
      <4>1. LET p == Len(h[k])
                w == values[k + 1]
            IN /\ Len(h[k + 1]) = p + Len(Encoded(w)) /\ p + Len(Encoded(w)) <= Len(input)
               /\ \A i \in 1 .. Len(Encoded(w)) : input[p + i] = Encoded(w)[i]
        BY <2>5, <3>3, <3>4, <3>5, <3>6, Placed
      <4> QED
        BY <3>3, <3>8, <4>1
    <3>10. Len(h[k + 1]) = Len(input) \/ Readable(Len(h[k + 1]))
      <4>1. PICK m \in Nat : m = k + 1 /\ m <= Len(values)
        BY <3>6, <3>7
      <4>2. Len(h[m]) = Len(input) \/ Readable(Len(h[m]))
        BY <2>5, <3>3, <3>5, <4>1, WrittenReadable
      <4> QED
        BY <4>1, <4>2
    <3>11. out' = Append(out, v) /\ pos' = pos + Len(Encoded(v))
      <4>1. CASE v.kind = "value"
        BY <1>1, <2>2, <3>5, <3>8, <3>9, <4>1, ReadsValue
      <4>2. CASE v.kind # "value"
        BY <1>1, <2>2, <3>5, <3>8, <3>9, <3>10, <4>2, ReadsAnnounced
      <4> QED
        BY <4>1, <4>2
    <3>12. out'[k + 1] = v
      BY <2>2, <3>11 DEF TypeOK
    <3>13. \A j \in 1 .. k + 1 : out'[j] = values[j]
      <4> TAKE j \in 1 .. k + 1
      <4>1. j \in 1 .. k \/ j = k + 1
        OBVIOUS
      <4> QED
        BY <2>3, <3>4, <3>8, <3>12, <4>1
    <3>14. k + 1 <= Len(values)
      BY <3>6, <3>7
    <3>15. pos' = Len(h[k + 1])
      BY <3>9, <3>11
    <3> QED
      BY <3>3, <3>13, <3>14, <3>15
  <2>6. ASSUME values' \in Contents, input' = Written(values'), Unguessed'
        PROVE  /\ Len(out') <= Len(values')
               /\ \A j \in 1 .. Len(out') : out'[j] = values'[j]
               /\ \E h : Joins(h, Bytes(values')) /\ pos' = Len(h[Len(out')])
    BY <2>3, <2>4, <2>5, <2>6
  <2>7. (values = <<>> \/ (values \in Contents /\ input = Written(values)))'
    BY <2>4 DEF Following
  <2> QED
    BY <2>6, <2>7 DEF Following
<1>2. CASE Fail \/ End \/ UNCHANGED vars
  <2>1. UNCHANGED <<packet, out, pos>>
    BY <1>2 DEF Fail, End, vars
  <2>2. input' = input /\ values' = values /\ out' = out /\ pos' = pos
    BY <2>1 DEF packet
  <2>3. Unguessed' <=> Unguessed
    BY <2>2 DEF Unguessed
  <2> QED
    BY <2>2, <2>3 DEF Following
<1> QED
  BY <1>1, <1>2 DEF Next

(* rqode_binrw.rs:234: what was written is decoded as itself up to the first
   number other than 0 in a U16, whatever the packet. *)
THEOREM RecoveredCorrect == Spec => []Recovered
<1>1. Init => Recovered
  <2>1. Init => DOMAIN out = {}
    BY DEF Init
  <2> QED
    BY <2>1 DEF Recovered
<1>2. TypeOK /\ Following' /\ Recovered /\ [Next]_vars => Recovered'
  <2> SUFFICES ASSUME TypeOK, Following', Recovered, [Next]_vars PROVE Recovered'
    OBVIOUS
  <2>1. CASE ReadGuess
    <3>1. PICK e \in Element : out' = Append(out, e) /\ UNCHANGED packet
      BY <2>1, ReadEffect
    <3>2. PICK n \in Nat :
            /\ n = Len(out) /\ DOMAIN out = 1 .. n /\ DOMAIN out' = 1 .. n + 1
            /\ Len(out') = n + 1 /\ \A k \in 1 .. n : out'[k] = out[k]
      BY <3>1 DEF TypeOK
    <3>3. values' = values /\ input' = input
      BY <3>1 DEF packet
    <3>4. SUFFICES ASSUME NEW k \in 1 .. n + 1, k \in DOMAIN values,
                          \A m \in 1 .. k : ~Ambiguous(values[m])
                   PROVE  out'[k] = values[k]
      BY <3>2, <3>3 DEF Recovered
    <3>5. CASE k \in 1 .. n
      <4>1. out[k] = values[k]
        BY <3>2, <3>4, <3>5 DEF Recovered
      <4> QED
        BY <3>2, <3>5, <4>1
    <3>6. CASE k = n + 1
      <4>1. values' \in Contents /\ input' = Written(values')
        <5>1. values # <<>>
          BY <3>4
        <5> QED
          BY <3>3, <5>1 DEF Following
      <4>2. Unguessed'
        BY <3>2, <3>3, <3>4, <3>6 DEF Unguessed
      <4>3. \A j \in 1 .. Len(out') : out'[j] = values'[j]
        BY <4>1, <4>2 DEF Following
      <4> QED
        BY <3>2, <3>3, <3>6, <4>3
    <3> QED
      BY <3>5, <3>6
  <2>2. CASE Fail \/ End \/ UNCHANGED vars
    BY <2>2 DEF Recovered, Fail, End, vars, packet
  <2> QED
    BY <2>1, <2>2 DEF Next
<1> QED
  BY <1>1, <1>2, TypeInit, TypeStep, FollowingInit, FollowingStep, PTL DEF Spec

(* A packet is given up only where no element can be read. *)
Stuck == result = "error" => pos < Len(input) /\ ~Readable(pos)

(* A packet written without numbers other than 0 in a U16 is never given up. *)
THEOREM ReadWholeCorrect == Spec => []ReadWhole
<1>1. Init => Stuck
  BY DEF Init, Stuck
<1>2. Stuck /\ [Next]_vars => Stuck'
  <2> SUFFICES ASSUME Stuck, [Next]_vars PROVE Stuck'
    OBVIOUS
  <2>1. CASE ReadGuess
    <3>1. result' = "reading"
      BY <2>1 DEF ReadGuess, ReadU16, ReadOther
    <3> QED
      BY <3>1 DEF Stuck
  <2>2. CASE Fail
    BY <2>2 DEF Fail, packet, Stuck, Readable
  <2>3. CASE End
    BY <2>3 DEF End, Stuck
  <2>4. CASE UNCHANGED vars
    BY <2>4 DEF vars, packet, Stuck, Readable
  <2> QED
    BY <2>1, <2>2, <2>3, <2>4 DEF Next
<1>3. TypeOK /\ Following /\ Stuck => ReadWhole
  <2> SUFFICES ASSUME TypeOK, Following, Stuck, result = "error", input = Written(values),
                      \A m \in DOMAIN values : ~Ambiguous(values[m])
               PROVE  FALSE
    BY DEF ReadWhole
  <2>1. pos < Len(input) /\ ~Readable(pos) /\ pos \in Nat /\ input \in Seq(Byte)
    BY DEF Stuck, TypeOK
  <2>2. CASE values \notin Contents
    <3>1. values = <<>>
      BY <2>2 DEF Following
    <3>2. Len(input) = 0
      BY <3>1, WrittenEmpty
    <3> QED
      BY <2>1, <3>2
  <2>3. CASE values \in Contents
    <3>1. Unguessed
      BY DEF Unguessed
    <3>2. Len(out) <= Len(values) /\ Len(out) \in Nat
      BY <2>3, <3>1 DEF Following, TypeOK
    <3>3. PICK h : Joins(h, Bytes(values)) /\ pos = Len(h[Len(out)])
      BY <2>3, <3>1 DEF Following
    <3>4. pos = Len(input) \/ Readable(pos)
      BY <2>1, <2>3, <3>2, <3>3, WrittenReadable
    <3> QED
      BY <2>1, <3>4
  <2> QED
    BY <2>2, <2>3
<1> QED
  BY <1>1, <1>2, <1>3, TypeInit, TypeStep, FollowingInit, FollowingStep, PTL DEF Spec
=============================================================================
