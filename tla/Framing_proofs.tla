--------------------------- MODULE Framing_proofs ---------------------------
(***************************************************************************)
(* Theorems about Framing, for every set of lengths, every way to cut the  *)
(* stream into pieces and any number of frames, and their proofs.  The     *)
(* first part is about the codec of the lengths, whose two ends are        *)
(* recursive functions: that they have the equations they are defined by   *)
(* is itself proved, from the order of the natural numbers.                *)
(***************************************************************************)
EXTENDS Framing, WellFoundedInduction, TLAPS

USE FramingAssumption DEF FramingAssumption

----------------------------------------------------------------------------
(* The natural numbers.  InductionOn is induction over a set instead of a  *)
(* predicate.                                                              *)

LEMMA NatOrder == \A m, n \in Nat : <<m, n>> \in OpToRel(<, Nat) <=> m < n
  BY Zenon DEF OpToRel

LEMMA LeastOf ==
  ASSUME NEW S \in SUBSET Nat, S # {}
  PROVE  \E n \in S : \A m \in S : n <= m
<1>1. \E n \in S : \A m \in S : ~ (<<m, n>> \in OpToRel(<, Nat))
  BY NatLessThanWellFounded, WFMin, Zenon
<1>2. PICK n \in S : \A m \in S : ~ (<<m, n>> \in OpToRel(<, Nat))
  BY <1>1, Zenon
<1>3. \A m \in S : ~ (m < n)
  BY <1>2, NatOrder, Zenon
<1> QED
  BY <1>3

LEMMA InductionOn ==
  ASSUME NEW S \in SUBSET Nat, 0 \in S, \A n \in Nat : n \in S => n + 1 \in S
  PROVE  S = Nat
<1> SUFFICES ASSUME Nat \ S # {} PROVE FALSE
  OBVIOUS
<1>1. PICK n \in Nat \ S : \A m \in Nat \ S : n <= m
  <2>1. Nat \ S \in SUBSET Nat
    OBVIOUS
  <2> QED
    BY <2>1, LeastOf
<1>2. n - 1 \in S
  BY <1>1
<1> QED
  BY <1>1, <1>2

----------------------------------------------------------------------------
(* The codec.                                                              *)

\* What the definition of Varint says of n, for a function g in its place.
Encoded(g, n) == IF n < Base THEN <<n>> ELSE <<(n % Base) + Base>> \o g[n \div Base]

LEMMA Shorter == ASSUME NEW n \in Nat, n >= Base PROVE n \div Base \in Nat /\ n \div Base < n
  BY DEF Base

LEMMA EncodedSame ==
  ASSUME NEW g, NEW h, NEW n \in Nat, n >= Base => g[n \div Base] = h[n \div Base]
  PROVE  Encoded(g, n) = Encoded(h, n)
<1>1. CASE n < Base
  BY <1>1, Zenon DEF Encoded
<1>2. CASE n >= Base
  <2>1. ~ (n < Base)
    BY <1>2 DEF Base
  <2> QED
    BY <1>2, <2>1, Zenon DEF Encoded
<1> QED
  BY <1>1, <1>2 DEF Base

UpTo(g, n) == \A m \in 0 .. n : g[m] = Encoded(g, m)

LEMMA UpToAny == ASSUME NEW n \in Nat PROVE \E g : UpTo(g, n)
<1> DEFINE S == { k \in Nat : \E g : UpTo(g, k) }
<1>1. ASSUME NEW k \in Nat, k \in S PROVE k + 1 \in S
  <2> PICK g : UpTo(g, k)
    BY <1>1
  <2> DEFINE h == [m \in Nat |-> IF m = k + 1 THEN Encoded(g, k + 1) ELSE g[m]]
  <2>1. \A m \in 0 .. k : h[m] = g[m]
    OBVIOUS
  <2>2. h[k + 1] = Encoded(g, k + 1)
    OBVIOUS
  <2> HIDE DEF h
  <2>3. ASSUME NEW m \in 0 .. k + 1 PROVE h[m] = Encoded(h, m)
    <3>1. m >= Base => m \div Base \in 0 .. k
      BY Shorter
    <3>2. m >= Base => h[m \div Base] = g[m \div Base]
      BY <2>1, <3>1
    <3>3. Encoded(h, m) = Encoded(g, m)
      BY <3>2, EncodedSame
    <3>4. h[m] = Encoded(g, m)
      BY <2>1, <2>2 DEF UpTo
    <3> QED
      BY <3>3, <3>4
  <2>4. UpTo(h, k + 1)
    BY <2>3 DEF UpTo
  <2>5. \E r : UpTo(r, k + 1)
    BY <2>4
  <2> QED
    BY <2>5
<1>2. 0 \in S
  <2> DEFINE g == [m \in Nat |-> <<m>>]
  <2>1. g[0] = <<0>>
    OBVIOUS
  <2> HIDE DEF g
  <2>2. UpTo(g, 0)
    BY <2>1 DEF UpTo, Encoded, Base
  <2>3. \E r : UpTo(r, 0)
    BY <2>2
  <2> QED
    BY <2>3
<1> HIDE DEF S
<1>3. S \in SUBSET Nat
  BY DEF S
<1>4. S = Nat
  BY <1>1, <1>2, <1>3, InductionOn
<1>5. n \in S
  BY <1>4
<1> QED
  BY <1>5 DEF S

LEMMA UpToSame ==
  ASSUME NEW g, NEW h, NEW a \in Nat, NEW b \in Nat, UpTo(g, a), UpTo(h, b),
         NEW m \in 0 .. a, m \in 0 .. b
  PROVE  g[m] = h[m]
<1> DEFINE D == { k \in Nat : k <= a /\ k <= b /\ g[k] # h[k] }
<1> SUFFICES ASSUME D # {} PROVE FALSE
  OBVIOUS
<1>1. PICK k \in D : \A j \in D : k <= j
  <2>1. D \in SUBSET Nat
    OBVIOUS
  <2> HIDE DEF D
  <2> QED
    BY <2>1, LeastOf
<1>2. k >= Base => g[k \div Base] = h[k \div Base]
  <2> SUFFICES ASSUME k >= Base PROVE g[k \div Base] = h[k \div Base]
    OBVIOUS
  <2> PICK j \in Nat : j = k \div Base
    BY Shorter
  <2>1. j < k
    BY Shorter
  <2>2. j \notin D
    BY <1>1, <2>1
  <2> QED
    BY <1>1, <2>1, <2>2
<1>3. Encoded(g, k) = Encoded(h, k)
  BY <1>2, EncodedSame
<1>4. g[k] = Encoded(g, k) /\ h[k] = Encoded(h, k)
  BY DEF UpTo
<1> QED
  BY <1>3, <1>4

LEMMA VarintIs == \A n \in Nat : Varint[n] = Encoded(Varint, n)
<1> DEFINE Part(n) == CHOOSE g : UpTo(g, n)
           f == [n \in Nat |-> Part(n)[n]]
<1>1. \A n \in Nat : UpTo(Part(n), n)
  BY UpToAny
<1>2. \A n \in Nat : f[n] = Part(n)[n]
  OBVIOUS
<1>3. f = [n \in Nat |-> f[n]]
  OBVIOUS
<1> HIDE DEF Part, f
<1>4. ASSUME NEW n \in Nat PROVE f[n] = Encoded(f, n)
  <2>1. Part(n)[n] = Encoded(Part(n), n)
    BY <1>1 DEF UpTo
  <2>2. ASSUME n >= Base PROVE f[n \div Base] = Part(n)[n \div Base]
    <3>1. n \div Base \in 0 .. n /\ n \div Base \in Nat /\ n \div Base \in 0 .. n \div Base
      BY <2>2, Shorter
    <3>2. UpTo(Part(n), n) /\ UpTo(Part(n \div Base), n \div Base)
      BY <3>1, <1>1
    <3>3. Part(n \div Base)[n \div Base] = Part(n)[n \div Base]
      BY <3>1, <3>2, UpToSame
    <3> QED
      BY <3>1, <3>3, <1>2
  <2>3. Encoded(Part(n), n) = Encoded(f, n)
    BY <2>2, EncodedSame
  <2> QED
    BY <2>1, <2>3, <1>2
<1>5. f = [n \in Nat |-> IF n < Base THEN <<n>> ELSE <<(n % Base) + Base>> \o f[n \div Base]]
  BY <1>3, <1>4, Zenon DEF Encoded
<1>6. Varint = [n \in Nat |-> IF n < Base THEN <<n>> ELSE <<(n % Base) + Base>> \o Varint[n \div Base]]
  BY <1>5, Zenon DEF Varint
<1> HIDE DEF Varint
<1> QED
  BY <1>6 DEF Encoded

LEMMA DecodingIs ==
  ASSUME NEW buf, NEW last \in Nat
  PROVE  /\ Decoding(buf, last)[0] = [value |-> 0, unit |-> 1]
         /\ \A i \in 1 .. last :
               Decoding(buf, last)[i] = Shifted(Decoding(buf, last)[i - 1], buf[i])
<1> DEFINE First == [value |-> 0, unit |-> 1]
           Follows(r, k) == r = [i \in 0 .. k |-> IF i = 0 THEN First ELSE Shifted(r[i - 1], buf[i])]
           S == { k \in Nat : \E r : Follows(r, k) }
<1> HIDE DEF First
<1>1. 0 \in S
  <2> DEFINE r == [i \in 0 .. 0 |-> First]
  <2>1. r = [i \in 0 .. 0 |-> IF i = 0 THEN First ELSE Shifted(r[i - 1], buf[i])]
    OBVIOUS
  <2> HIDE DEF r
  <2>2. \E q : Follows(q, 0)
    BY <2>1
  <2> QED
    BY <2>2
<1>2. ASSUME NEW k \in Nat, k \in S PROVE k + 1 \in S
  <2> PICK r : Follows(r, k)
    BY <1>2
  <2> DEFINE q == [i \in 0 .. k + 1 |-> IF i = k + 1 THEN Shifted(r[k], buf[k + 1]) ELSE r[i]]
  <2>1. /\ \A i \in 0 .. k : q[i] = r[i]
        /\ q[k + 1] = Shifted(r[k], buf[k + 1])
        /\ q = [i \in 0 .. k + 1 |-> q[i]]
    OBVIOUS
  <2> HIDE DEF q
  <2>2. \A i \in 0 .. k : r[i] = IF i = 0 THEN First ELSE Shifted(r[i - 1], buf[i])
    OBVIOUS
  <2> HIDE DEF Follows
  <2>3. ASSUME NEW i \in 0 .. k + 1
        PROVE  q[i] = IF i = 0 THEN First ELSE Shifted(q[i - 1], buf[i])
    <3>1. CASE i = 0
      <4>1. 0 \in 0 .. k
        OBVIOUS
      <4>2. q[0] = r[0] /\ r[0] = First
        BY <4>1, <2>1, <2>2
      <4> QED
        BY <3>1, <4>2
    <3>2. CASE i \in 1 .. k
      <4>1. i \in 0 .. k /\ i - 1 \in 0 .. k /\ i # 0
        BY <3>2
      <4>2. q[i] = r[i] /\ q[i - 1] = r[i - 1]
        BY <4>1, <2>1
      <4> QED
        BY <4>1, <4>2, <2>2
    <3>3. CASE i = k + 1
      <4>1. i # 0 /\ i - 1 = k /\ k \in 0 .. k
        BY <3>3
      <4> QED
        BY <3>3, <4>1, <2>1
    <3> QED
      BY <3>1, <3>2, <3>3
  <2>4. q = [i \in 0 .. k + 1 |-> IF i = 0 THEN First ELSE Shifted(q[i - 1], buf[i])]
    BY <2>1, <2>3
  <2>5. \E f : Follows(f, k + 1)
    BY <2>4 DEF Follows
  <2> QED
    BY <2>5
<1>3. S \in SUBSET Nat
  OBVIOUS
<1> HIDE DEF S
<1>4. last \in S
  BY <1>1, <1>2, <1>3, InductionOn
<1>5. PICK r : Follows(r, last)
  BY <1>4 DEF S
<1>6. Follows(Decoding(buf, last), last)
  BY <1>5, Zenon DEF Decoding, First
<1> HIDE DEF Decoding
<1> QED
  BY <1>6 DEF First

\* What a reader makes of the bytes v that adds them, each in its turn, to a
\* value that it has so far.
Counts(v, n) ==
    \A a, u \in Nat : \A r :
        /\ r[0] = [value |-> a, unit |-> u]
        /\ \A i \in 1 .. Len(v) : r[i] = Shifted(r[i - 1], v[i])
        => r[Len(v)].value = a + n * u
Encodes(v, n) ==
    /\ v \in Seq(Nat) /\ Len(v) >= 1
    /\ v[Len(v)] < Base /\ \A j \in 1 .. Len(v) - 1 : v[j] >= Base
    /\ Counts(v, n)

LEMMA VarintEncodes == \A n \in Nat : Encodes(Varint[n], n)
<1> DEFINE D == { n \in Nat : ~ Encodes(Varint[n], n) }
<1> SUFFICES ASSUME D # {} PROVE FALSE
  OBVIOUS
<1>1. PICK n \in D : \A m \in D : n <= m
  <2>1. D \in SUBSET Nat
    OBVIOUS
  <2> HIDE DEF D
  <2> QED
    BY <2>1, LeastOf
<1>2. n \in Nat /\ ~ Encodes(Varint[n], n) /\ \A m \in Nat : m < n => Encodes(Varint[m], m)
  BY <1>1
<1> HIDE DEF D
<1>3. CASE n < Base
  <2>1. Varint[n] = <<n>>
    BY <1>2, <1>3, VarintIs DEF Encoded
  <2>2. n % Base = n
    BY <1>2, <1>3 DEF Base
  <2>3. Counts(<<n>>, n)
    <3> SUFFICES ASSUME NEW a \in Nat, NEW u \in Nat, NEW r, r[0] = [value |-> a, unit |-> u],
                        r[1] = Shifted(r[0], n)
                 PROVE  r[1].value = a + n * u
      BY DEF Counts
    <3> QED
      BY <2>2 DEF Shifted
  <2> QED
    BY <1>2, <1>3, <2>1, <2>3 DEF Encodes, Base
<1>4. CASE n >= Base
  <2> DEFINE q == n \div Base
             w == Varint[q]
             b == (n % Base) + Base
             v == Varint[n]
  <2>1. q \in Nat /\ q < n /\ Encodes(w, q)
    BY <1>2, <1>4, Shorter
  <2>2. b \in Nat /\ b >= Base /\ b % Base = n % Base /\ n = q * Base + (n % Base)
        /\ n % Base \in Nat
    BY <1>2 DEF Base
  <2>3. v = <<b>> \o w
    <3>1. ~ (n < Base)
      BY <1>2, <1>4 DEF Base
    <3> QED
      BY <1>2, <3>1, VarintIs, Zenon DEF Encoded
  <2> HIDE DEF q, w, b, v
  <2>4. w \in Seq(Nat) /\ <<b>> \in Seq(Nat)
    BY <2>1, <2>2 DEF Encodes
  <2>5. /\ v \in Seq(Nat) /\ Len(v) = Len(w) + 1 /\ v[1] = b
        /\ \A j \in 1 .. Len(w) : v[j + 1] = w[j]
    BY <2>3, <2>4
  <2>6. v[Len(v)] < Base /\ \A j \in 1 .. Len(v) - 1 : v[j] >= Base
    <3>1. v[Len(w) + 1] = w[Len(w)]
      BY <2>1, <2>4, <2>5 DEF Encodes
    <3>2. ASSUME NEW j \in 1 .. Len(v) - 1, j # 1 PROVE v[j] >= Base
      <4>1. PICK i \in 1 .. Len(w) - 1 : j = i + 1
        BY <2>4, <2>5, <3>2
      <4>2. v[i + 1] = w[i]
        <5>1. i \in 1 .. Len(w)
          BY <2>4
        <5> QED
          BY <2>5, <5>1
      <4> QED
        BY <2>1, <4>1, <4>2 DEF Encodes
    <3> QED
      BY <2>1, <2>2, <2>5, <3>1, <3>2 DEF Encodes
  <2>7. Counts(v, n)
    <3> SUFFICES ASSUME NEW a \in Nat, NEW u \in Nat, NEW r, r[0] = [value |-> a, unit |-> u],
                        \A i \in 1 .. Len(v) : r[i] = Shifted(r[i - 1], v[i])
                 PROVE  r[Len(v)].value = a + n * u
      BY DEF Counts
    <3> DEFINE s == [i \in 0 .. Len(w) |-> r[i + 1]]
               c == a + (n % Base) * u
    <3>1. r[1] = [value |-> c, unit |-> Base * u]
      <4>1. r[1] = Shifted(r[0], b)
        BY <2>4, <2>5
      <4> QED
        BY <4>1, <2>2 DEF Shifted
    <3>2. c \in Nat /\ Base * u \in Nat
      BY <2>2 DEF Base
    <3>3. \A i \in 1 .. Len(w) : s[i] = Shifted(s[i - 1], w[i])
      <4> TAKE i \in 1 .. Len(w)
      <4>1. r[i + 1] = Shifted(r[i], v[i + 1])
        BY <2>4, <2>5
      <4>2. s[i] = r[i + 1] /\ s[i - 1] = r[i]
        BY <2>4
      <4> QED
        BY <2>5, <4>1, <4>2
    <3>4. s[0] = r[1] /\ s[Len(w)] = r[Len(v)]
      BY <2>4, <2>5
    <3> HIDE DEF s, c
    <3>5. s[Len(w)].value = c + q * (Base * u)
      <4>1. s[0] = [value |-> c, unit |-> Base * u]
        BY <3>1, <3>4
      <4>2. Counts(w, q)
        BY <2>1 DEF Encodes
      <4> QED
        BY <3>2, <3>3, <4>1, <4>2, Zenon DEF Counts
    <3>6. (q * Base + (n % Base)) * u = (n % Base) * u + q * (Base * u)
      BY <2>1, <2>2 DEF Base
    <3> QED
      BY <2>1, <2>2, <3>2, <3>4, <3>5, <3>6 DEF c, Base
  <2> QED
    BY <1>2, <2>1, <2>5, <2>6, <2>7 DEF Encodes, v
<1> QED
  BY <1>2, <1>3, <1>4 DEF Base

\* decode_varint undoes encode_varint for every length, whatever follows in
\* the block: it returns the length, and how many bytes its varint took.
THEOREM CodecIsSound ==
  ASSUME NEW n \in Nat, NEW rest \in Seq(Nat)
  PROVE  DecodeVarint(Varint[n] \o rest) = [length |-> n, header |-> Len(Varint[n])]
<1> DEFINE v == Varint[n]
           buf == v \o rest
           last == CHOOSE i \in DOMAIN buf :
                      buf[i] < Base /\ \A j \in 1 .. i - 1 : buf[j] >= Base
<1>1. Encodes(v, n)
  BY VarintEncodes
<1> HIDE DEF v
<1>2. /\ v \in Seq(Nat) /\ Len(v) \in Nat \ {0}
      /\ v[Len(v)] < Base /\ \A j \in 1 .. Len(v) - 1 : v[j] >= Base
  BY <1>1 DEF Encodes
<1>3. /\ buf \in Seq(Nat) /\ DOMAIN buf = 1 .. Len(v) + Len(rest)
      /\ \A i \in 1 .. Len(v) : buf[i] = v[i]
  BY <1>2
<1> HIDE DEF buf
<1>4. Len(v) \in DOMAIN buf /\ buf[Len(v)] < Base /\ \A j \in 1 .. Len(v) - 1 : buf[j] >= Base
  <2>1. Len(rest) \in Nat /\ Len(v) \in 1 .. Len(v)
    BY <1>2
  <2>2. Len(v) \in 1 .. Len(v) + Len(rest)
    BY <1>2, <2>1
  <2>3. \A j \in 1 .. Len(v) - 1 : j \in 1 .. Len(v)
    BY <1>2
  <2>4. buf[Len(v)] = v[Len(v)] /\ \A j \in 1 .. Len(v) - 1 : buf[j] = v[j]
    BY <1>3, <2>1, <2>3
  <2> QED
    BY <1>2, <1>3, <2>2, <2>4
<1>5. ASSUME NEW i \in DOMAIN buf, buf[i] < Base, \A j \in 1 .. i - 1 : buf[j] >= Base
      PROVE  i = Len(v)
  <2>1. i \in Nat /\ buf[i] \in Nat /\ buf[Len(v)] \in Nat
    BY <1>3, <1>4
  <2>2. ~ (i < Len(v))
    <3>1. i < Len(v) => i \in 1 .. Len(v) - 1
      BY <1>2, <1>3, <2>1
    <3> QED
      BY <1>4, <1>5, <2>1, <3>1 DEF Base
  <2>3. ~ (Len(v) < i)
    <3>1. Len(v) < i => Len(v) \in 1 .. i - 1
      BY <1>2, <2>1
    <3> QED
      BY <1>4, <1>5, <2>1, <3>1 DEF Base
  <2> QED
    BY <1>2, <2>1, <2>2, <2>3
<1>6. last = Len(v)
  BY <1>4, <1>5
<1>7. Decoding(buf, Len(v))[Len(v)].value = 0 + n * 1
  <2>1. /\ Decoding(buf, Len(v))[0] = [value |-> 0, unit |-> 1]
        /\ \A i \in 1 .. Len(v) :
              Decoding(buf, Len(v))[i] = Shifted(Decoding(buf, Len(v))[i - 1], v[i])
    BY <1>2, <1>3, DecodingIs
  <2>2. 0 \in Nat /\ 1 \in Nat
    OBVIOUS
  <2> QED
    BY <1>1, <2>1, <2>2, Zenon DEF Encodes, Counts
<1>8. DecodeVarint(buf) = [length |-> Decoding(buf, last)[last].value, header |-> last]
  BY Zenon DEF DecodeVarint
<1> HIDE DEF last
<1> QED
  BY <1>2, <1>6, <1>7, <1>8 DEF v, buf

LEMMA VarintDecodes ==
  ASSUME NEW n \in Nat
  PROVE  /\ Len(Varint[n]) \in Nat \ {0}
         /\ DecodeVarint(Varint[n]) = [length |-> n, header |-> Len(Varint[n])]
<1>1. Varint[n] \in Seq(Nat) /\ Len(Varint[n]) >= 1
  BY VarintEncodes DEF Encodes
<1>2. Varint[n] \o <<>> = Varint[n] /\ <<>> \in Seq(Nat)
  BY <1>1
<1>3. DecodeVarint(Varint[n]) = [length |-> n, header |-> Len(Varint[n])]
  BY <1>2, CodecIsSound
<1> QED
  BY <1>1, <1>3

LEMMA VarintLength ==
  ASSUME NEW n \in Nat
  PROVE  Len(Varint[n]) = IF n < Base THEN 1 ELSE 1 + Len(Varint[n \div Base])
<1>1. CASE n < Base
  <2>1. Varint[n] = <<n>>
    BY <1>1, VarintIs DEF Encoded
  <2> QED
    BY <1>1, <2>1
<1>2. CASE n >= Base
  <2>1. ~ (n < Base) /\ n \div Base \in Nat
    BY <1>2, Shorter DEF Base
  <2>2. Varint[n] = <<(n % Base) + Base>> \o Varint[n \div Base]
    BY <2>1, VarintIs, Zenon DEF Encoded
  <2>3. Varint[n \div Base] \in Seq(Nat) /\ <<(n % Base) + Base>> \in Seq(Nat)
    BY <2>1, VarintEncodes DEF Encodes, Base
  <2> QED
    BY <2>1, <2>2, <2>3
<1>3. n < Base \/ n >= Base
  BY DEF Base
<1> QED
  BY <1>1, <1>2, <1>3

\* The varint of every length that a bytes object can have fits in a block.
Fits(top, k) == top \in Nat /\ k \in Nat \ {0} /\ \A m \in 0 .. top : Len(Varint[m]) <= k

LEMMA OneByteMore ==
  ASSUME NEW top, NEW k, Fits(top, k)
  PROVE  Fits(top * 128 + 127, k + 1)
<1>1. top \in Nat /\ k \in Nat \ {0} /\ \A m \in 0 .. top : Len(Varint[m]) <= k
  BY DEF Fits
<1>2. ASSUME NEW n \in 0 .. top * 128 + 127 PROVE Len(Varint[n]) <= k + 1
  <2>1. n \in Nat
    BY <1>1
  <2>2. CASE n < 128
    BY <1>1, <2>1, <2>2, VarintLength DEF Base
  <2>3. CASE n >= 128
    <3>1. n \div 128 \in 0 .. top
      BY <1>1, <2>3
    <3>2. Len(Varint[n \div 128]) <= k /\ Len(Varint[n \div 128]) \in Nat
      BY <1>1, <3>1, VarintDecodes
    <3>3. Len(Varint[n]) = 1 + Len(Varint[n \div 128])
      BY <2>1, <2>3, VarintLength DEF Base
    <3> QED
      BY <1>1, <3>2, <3>3
  <2> QED
    BY <2>1, <2>2, <2>3
<1> QED
  BY <1>1, <1>2 DEF Fits

\* The varint of every length that a bytes object can have, up to 2^63 - 1,
\* fits in a block.
LEMMA VarintsFit == \A n \in 0 .. 72057594037927935 * 128 + 127 : Len(Varint[n]) <= Block
<1> DEFINE top1 == 127
           top2 == top1 * 128 + 127
           top3 == top2 * 128 + 127
           top4 == top3 * 128 + 127
           top5 == top4 * 128 + 127
           top6 == top5 * 128 + 127
           top7 == top6 * 128 + 127
           top8 == top7 * 128 + 127
           top9 == top8 * 128 + 127
<1>1. Fits(top1, 1)
  <2>1. ASSUME NEW m \in 0 .. top1 PROVE Len(Varint[m]) <= 1
    <3>1. m < 128 /\ m \in Nat
      OBVIOUS
    <3> QED
      BY <3>1, VarintLength DEF Base
  <2> QED
    BY <2>1 DEF Fits
<1> HIDE DEF top1
<1>2. Fits(top2, 2)
  <2>1. Fits(top1 * 128 + 127, 1 + 1)
    BY <1>1, OneByteMore
  <2> QED
    BY <2>1
<1> HIDE DEF top2
<1>3. Fits(top3, 3)
  <2>1. Fits(top2 * 128 + 127, 2 + 1)
    BY <1>2, OneByteMore
  <2> QED
    BY <2>1
<1> HIDE DEF top3
<1>4. Fits(top4, 4)
  <2>1. Fits(top3 * 128 + 127, 3 + 1)
    BY <1>3, OneByteMore
  <2> QED
    BY <2>1
<1> HIDE DEF top4
<1>5. Fits(top5, 5)
  <2>1. Fits(top4 * 128 + 127, 4 + 1)
    BY <1>4, OneByteMore
  <2> QED
    BY <2>1
<1> HIDE DEF top5
<1>6. Fits(top6, 6)
  <2>1. Fits(top5 * 128 + 127, 5 + 1)
    BY <1>5, OneByteMore
  <2> QED
    BY <2>1
<1> HIDE DEF top6
<1>7. Fits(top7, 7)
  <2>1. Fits(top6 * 128 + 127, 6 + 1)
    BY <1>6, OneByteMore
  <2> QED
    BY <2>1
<1> HIDE DEF top7
<1>8. Fits(top8, 8)
  <2>1. Fits(top7 * 128 + 127, 7 + 1)
    BY <1>7, OneByteMore
  <2> QED
    BY <2>1
<1> HIDE DEF top8
<1>9. Fits(top9, 9)
  <2>1. Fits(top8 * 128 + 127, 8 + 1)
    BY <1>8, OneByteMore
  <2> QED
    BY <2>1
<1> HIDE DEF top9
<1>10. 72057594037927935 * 128 + 127 = top9
  BY SMT DEF top1, top2, top3, top4, top5, top6, top7, top8, top9
<1>11. ASSUME NEW n \in 0 .. top9 PROVE Len(Varint[n]) <= Block
  <2>1. n \in Nat /\ Len(Varint[n]) <= 9
    BY <1>9 DEF Fits
  <2> QED
    BY <2>1, VarintDecodes DEF Block
<1> QED
  BY <1>10, <1>11, SMT

----------------------------------------------------------------------------
(* The inductive invariant.                                                *)

\* The frames lie one behind the other.
Laid ==
    /\ \A k \in 1 .. Len(frames) : ends[k] = Offset(k - 1) + Size(frames[k])
    /\ \A j \in 0 .. Len(ends) : \A i \in 0 .. Len(ends) : i < j => Offset(i) < Offset(j)

\* What the reader has returned are the first frames.
Prefix ==
    /\ Len(got) <= Len(frames)
    /\ \A k \in 1 .. Len(got) : got[k] = frames[k]

\* The reader has begun with the next frame and with nothing behind it, and
\* knows from its first block how long it is.
Within ==
    /\ Offset(Len(got)) <= pos
    /\ phase = "head" => pos + need = Offset(Len(got)) + Block
    /\ phase = "rest" =>
          /\ Len(got) < Len(frames)
          /\ head = DecodeVarint(Varint[frames[Len(got) + 1]])
          /\ pos + need = Offset(Len(got) + 1)

FramingInv == TypeOK /\ Laid /\ Prefix /\ Within

----------------------------------------------------------------------------
(* The frames.                                                             *)

\* A frame is a whole number of blocks, and at least one.
LEMMA SizeIs ==
  ASSUME NEW n \in Lengths
  PROVE  /\ Size(n) \in Nat /\ Size(n) >= Block
         /\ LET d == DecodeVarint(Varint[n]) IN
               /\ d \in [length : Nat, header : Nat]
               /\ Payload(d) = n
               /\ Rest(d) = Size(n) - Block
<1> DEFINE m == Len(Varint[n])
<1>1. n \in Nat /\ m \in Nat \ {0} /\ DecodeVarint(Varint[n]) = [length |-> n, header |-> m]
  BY VarintDecodes
<1>2. m <= 16
  BY LengthAssumption DEF Block
<1> HIDE DEF m
<1>3. (m + n + 16 - 1) \div 16 \in Nat /\ (m + n + 16 - 1) \div 16 >= 1
  BY <1>1, <1>2
<1>4. Size(n) = ((m + n + 16 - 1) \div 16) * 16
  BY DEF Size, RoundUp16, Block, m
<1> QED
  BY <1>1, <1>2, <1>3, <1>4 DEF Payload, Rest, RoundUp16, Block

----------------------------------------------------------------------------

LEMMA FramingInit == Init => FramingInv
  BY DEF Init, FramingInv, TypeOK, Laid, Prefix, Within, Total, Offset, Block

LEMMA OffsetType ==
  ASSUME ends \in Seq(Nat), NEW k \in 0 .. Len(ends)
  PROVE  Offset(k) \in Nat
  BY DEF Offset

\* The block before pos is the first of the frame that is next.
LEMMA HeadOfNext ==
  ASSUME FramingInv, phase = "head", need = 0
  PROVE  /\ Len(got) < Len(frames)
         /\ Decoded = {DecodeVarint(Varint[frames[Len(got) + 1]])}
<1> DEFINE k == Len(got) + 1
<1> USE DEF FramingInv, TypeOK
<1>1. pos = Offset(Len(got)) + Block /\ pos <= Total
  BY DEF Within, Total, Offset, Block
<1>2. Len(got) # Len(frames)
  BY <1>1 DEF Total, Offset, Block
<1>3. Len(got) < Len(frames) /\ k \in 1 .. Len(frames)
  BY <1>2 DEF Prefix
<1>4. ASSUME NEW i \in 1 .. Len(frames), Offset(i - 1) = pos - Block
      PROVE  i = k
  <2>1. Offset(i - 1) = Offset(k - 1)
    BY <1>1, <1>3, <1>4 DEF Offset, Block
  <2>2. i - 1 \in 0 .. Len(ends) /\ k - 1 \in 0 .. Len(ends)
    BY <1>3
  <2>3. Offset(i - 1) \in Nat /\ Offset(k - 1) \in Nat
    BY <2>2, OffsetType
  <2>4. ~ (i - 1 < k - 1) /\ ~ (k - 1 < i - 1)
    <3>1. \A m, l \in 0 .. Len(ends) : l < m => Offset(l) < Offset(m)
      BY Zenon DEF Laid
    <3> QED
      BY ONLY <2>1, <2>2, <2>3, <3>1
  <2> QED
    BY <1>3, <2>4
<1>5. Offset(k - 1) = pos - Block
  BY <1>1, <1>3 DEF Offset, Block
<1>6. {i \in 1 .. Len(frames) : Offset(i - 1) = pos - Block} = {k}
  BY <1>3, <1>4, <1>5
<1> QED
  BY <1>3, <1>6 DEF Decoded

LEMMA FramingStep ==
  ASSUME FramingInv, [Next]_vars
  PROVE  FramingInv'
<1> USE DEF FramingInv
<1>1. CASE \E n \in Lengths : WriteFrame(n)
  <2> PICK n \in Lengths : WriteFrame(n)
    BY <1>1
  <2> PICK k \in Nat : k = Len(frames) + 1
    BY DEF TypeOK
  <2>1. Size(n) \in Nat /\ Size(n) >= Block
    BY SizeIs
  <2>2. /\ frames' = Append(frames, n) /\ ends' = Append(ends, Total + Size(n))
        /\ UNCHANGED <<wire, link, phase, pos, need, head, got>>
    BY DEF WriteFrame, readerVars
  <2>3. Total \in Nat
    BY OffsetType DEF Total, TypeOK
  <2>4. /\ Len(frames') = k /\ Len(ends') = k
        /\ frames' \in Seq(Lengths) /\ ends' \in Seq(Nat)
        /\ ends'[k] = Total + Size(n) /\ frames'[k] = n
        /\ \A i \in 1 .. k - 1 : frames'[i] = frames[i] /\ ends'[i] = ends[i]
    BY <2>1, <2>2, <2>3 DEF TypeOK
  <2>5. Offset(k)' = Total + Size(n) /\ \A i \in 0 .. k - 1 : Offset(i)' = Offset(i)
    BY <2>4 DEF Offset, TypeOK
  <2>6. Total' = Total + Size(n)
    BY <2>4 DEF Total, Offset
  <2>7. TypeOK'
    BY <2>1, <2>2, <2>3, <2>4, <2>6 DEF TypeOK, Block
  <2>8. Laid'
    <3>1. \A i \in 1 .. Len(frames') : (ends[i] = Offset(i - 1) + Size(frames[i]))'
      <4> TAKE i \in 1 .. Len(frames')
      <4>1. CASE i \in 1 .. k - 1
        <5>1. i - 1 \in 0 .. k - 1 /\ i \in 1 .. Len(frames)
          BY <4>1, <2>4 DEF TypeOK
        <5> QED
          BY <4>1, <5>1, <2>4, <2>5 DEF Laid
      <4>2. CASE i = k
        <5>1. Offset(k - 1)' = Total
          BY <2>5 DEF Total, TypeOK
        <5> QED
          BY <4>2, <5>1, <2>4
      <4> QED
        BY <4>1, <4>2, <2>4 DEF TypeOK
    <3>2. ASSUME NEW j \in 0 .. k, NEW i \in 0 .. k, i < j
          PROVE  Offset(i)' < Offset(j)'
      <4>1. i \in 0 .. k - 1 /\ k - 1 = Len(ends)
        BY <3>2 DEF TypeOK
      <4>2. CASE j \in 0 .. k - 1
        BY <3>2, <4>1, <4>2, <2>5 DEF Laid
      <4>3. CASE j = k
        <5>1. Offset(i) \in Nat /\ Offset(k - 1) = Total
          BY <4>1, OffsetType DEF Total, TypeOK
        <5>2. i = k - 1 \/ Offset(i) < Offset(k - 1)
          BY <4>1 DEF Laid, TypeOK
        <5> QED
          BY <4>1, <4>3, <5>1, <5>2, <2>1, <2>3, <2>5 DEF Block
      <4> QED
        BY <4>2, <4>3, <3>2 DEF TypeOK
    <3> QED
      BY <3>1, <3>2, <2>4 DEF Laid
  <2>9. Prefix'
    BY <2>2, <2>4 DEF Prefix, TypeOK
  <2>10. Within'
    <3>1. Len(got) \in 0 .. k - 1
      BY DEF Prefix, TypeOK
    <3>2. Offset(Len(got))' = Offset(Len(got))
      BY <2>2, <2>5, <3>1
    <3>3. ASSUME phase = "rest"
          PROVE  /\ Len(got) + 1 \in 1 .. k - 1
                 /\ frames'[Len(got) + 1] = frames[Len(got) + 1]
                 /\ Offset(Len(got) + 1)' = Offset(Len(got) + 1)
      <4>1. Len(got) + 1 \in 1 .. k - 1
        BY <3>3, <3>1 DEF Within, TypeOK
      <4>2. Len(got) + 1 \in 0 .. k - 1
        BY <4>1
      <4> QED
        BY <4>1, <4>2, <2>2, <2>4, <2>5
    <3> QED
      BY <2>2, <2>4, <3>1, <3>2, <3>3 DEF Within, TypeOK
  <2> QED
    BY <2>7, <2>8, <2>9, <2>10
<1>2. CASE Sending \/ Break
  <2>1. PICK w \in 0 .. Total : wire' = w /\ wire <= w
    <3>1. CASE Sending
      <4> PICK b \in Pieces : SendSome(b)
        BY <3>1 DEF Sending
      <4> Total \in Nat
        BY OffsetType DEF Total, TypeOK
      <4> QED
        BY DEF SendSome, Least, TypeOK
    <3>2. CASE Break
      BY <3>2 DEF Break, TypeOK
    <3> QED
      BY <1>2, <3>1, <3>2
  <2>2. link' \in {"up", "broken"} /\ UNCHANGED <<frames, ends, phase, pos, need, head, got>>
    BY <1>2 DEF Sending, SendSome, Break, readerVars, TypeOK
  <2>3. TypeOK'
    BY <2>1, <2>2 DEF TypeOK, Total, Offset
  <2> QED
    BY <2>2, <2>3 DEF Laid, Prefix, Within, Offset
<1>3. CASE \E b \in Pieces : Recv(b)
  <2> PICK b \in Pieces : Recv(b)
    BY <1>3
  <2>1. PICK n \in Nat : n <= need /\ pos + n <= wire /\ pos' = pos + n /\ need' = need - n
    BY DEF Recv, Least, TypeOK
  <2>2. UNCHANGED <<frames, ends, wire, link, phase, head, got>>
    BY DEF Recv, writerVars
  <2>3. TypeOK'
    BY <2>1, <2>2 DEF TypeOK, Total, Offset
  <2>4. Within'
    <3>1. Offset(Len(got)) \in Nat
      BY OffsetType DEF TypeOK, Prefix
    <3> QED
      BY <2>1, <2>2, <3>1 DEF Within, Offset, TypeOK, Block
  <2> QED
    BY <2>2, <2>3, <2>4 DEF Laid, Prefix, Offset
<1>4. CASE RecvEnd
  BY <1>4 DEF RecvEnd, writerVars, TypeOK, Laid, Prefix, Within, Total, Offset
<1>5. CASE DecodeHead
  <2> PICK k \in 1 .. Len(frames) : k = Len(got) + 1
    BY <1>5, HeadOfNext DEF DecodeHead, TypeOK
  <2> PICK d : d = DecodeVarint(Varint[frames[k]])
    OBVIOUS
  <2>1. Decoded = {d}
    BY <1>5, HeadOfNext DEF DecodeHead
  <2>2. frames[k] \in Lengths
    BY DEF TypeOK
  <2>3. /\ d \in [length : Nat, header : Nat]
        /\ Payload(d) = frames[k] /\ Rest(d) = Size(frames[k]) - Block
        /\ Size(frames[k]) \in Nat /\ Size(frames[k]) >= Block
    BY <2>2, SizeIs
  <2>4. /\ Offset(k - 1) \in Nat /\ pos = Offset(k - 1) + Block
        /\ Offset(k) = Offset(k - 1) + Size(frames[k])
    <3>1. k - 1 \in 0 .. Len(ends) /\ k - 1 = Len(got)
      BY DEF TypeOK
    <3>2. Offset(k) = ends[k] /\ ends[k] = Offset(k - 1) + Size(frames[k])
      BY DEF Offset, Laid
    <3> QED
      BY <1>5, <3>1, <3>2, OffsetType DEF Within, DecodeHead, TypeOK, Block
  <2>5. UNCHANGED <<frames, ends, wire, link, pos>>
    BY <1>5 DEF DecodeHead, writerVars
  <2>6. CASE Rest(d) > 0 /\ phase' = "rest" /\ need' = Rest(d) /\ got' = got /\ head' = d
    <3>1. TypeOK'
      <4>1. need' \in Nat /\ head' \in [length : Nat, header : Nat]
        BY <2>3, <2>6 DEF Block
      <4> QED
        BY <4>1, <2>5, <2>6 DEF TypeOK, Total, Offset
    <3>2. Within'
      <4>1. Len(got') = k - 1 /\ Offset(k)' = Offset(k) /\ Offset(k - 1)' = Offset(k - 1)
        BY <2>5, <2>6 DEF Offset, TypeOK
      <4>2. Offset(Len(got))' = Offset(k - 1) /\ Offset(Len(got) + 1)' = Offset(k)
        BY <4>1, <2>5, <2>6 DEF Offset, TypeOK
      <4> QED
        BY <4>1, <4>2, <2>3, <2>4, <2>5, <2>6 DEF Within, Block
    <3>3. Laid' /\ Prefix'
      BY <2>5, <2>6 DEF Laid, Prefix, Offset
    <3> QED
      BY <3>1, <3>2, <3>3
  <2>7. CASE Rest(d) = 0 /\ phase' = "head" /\ need' = Block /\ got' = Append(got, Payload(d))
             /\ head' = d
    <3>1. TypeOK'
      BY <2>2, <2>3, <2>5, <2>7 DEF TypeOK, Total, Offset, Block
    <3>2. /\ Len(got') = k /\ got'[k] = frames[k]
          /\ \A i \in 1 .. k - 1 : got'[i] = got[i]
      BY <2>2, <2>3, <2>7 DEF TypeOK
    <3>3. Within'
      <4>1. Offset(Len(got))' = Offset(k)
        BY <3>2, <2>5 DEF Offset
      <4> QED
        BY <4>1, <2>3, <2>4, <2>5, <2>7 DEF Within, Block
    <3>4. Laid'
      BY <2>5 DEF Laid, Offset
    <3>5. Prefix'
      <4>1. k \in 1 .. Len(frames) /\ Len(frames) \in Nat /\ k \in Nat
        BY DEF TypeOK
      <4>2. \A i \in 1 .. k - 1 : got[i] = frames[i]
        BY <4>1 DEF Prefix, TypeOK
      <4>3. \A i \in 1 .. k : got'[i] = frames[i]
        <5> TAKE i \in 1 .. k
        <5>1. i = k \/ i \in 1 .. k - 1
          BY <4>1
        <5> QED
          BY <3>2, <4>2, <5>1
      <4>4. frames' = frames /\ Len(got') = k
        BY <2>5, <3>2
      <4> QED
        BY <4>1, <4>3, <4>4 DEF Prefix
    <3> QED
      BY <3>1, <3>3, <3>4, <3>5
  <2> QED
    BY <1>5, <2>1, <2>6, <2>7 DEF DecodeHead
<1>6. CASE ReturnFrame
  <2> PICK k \in 1 .. Len(frames) : k = Len(got) + 1
    BY <1>6 DEF ReturnFrame, Within, TypeOK
  <2> frames[k] \in Lengths
    BY DEF TypeOK
  <2> head = DecodeVarint(Varint[frames[k]])
    BY <1>6 DEF ReturnFrame, Within
  <2>1. frames[k] \in Lengths /\ Payload(head) = frames[k]
    BY SizeIs
  <2>2. /\ got' = Append(got, frames[k]) /\ phase' = "head" /\ need' = Block
        /\ UNCHANGED <<frames, ends, wire, link, pos, head>>
    BY <1>6, <2>1 DEF ReturnFrame, writerVars
  <2>3. TypeOK'
    BY <2>1, <2>2 DEF TypeOK, Total, Offset, Block
  <2>4. /\ Len(got') = k /\ got'[k] = frames[k]
        /\ \A i \in 1 .. k - 1 : got'[i] = got[i]
    BY <2>1, <2>2 DEF TypeOK
  <2>5. Within'
    <3>1. Offset(Len(got))' = Offset(k) /\ Offset(Len(got) + 1) = Offset(k)
      BY <2>2, <2>4 DEF Offset
    <3>2. pos + need = Offset(k) /\ need = 0
      BY <1>6, <3>1 DEF ReturnFrame, Within
    <3> QED
      BY <2>2, <3>1, <3>2 DEF Within, TypeOK, Block
  <2> QED
    BY <2>2, <2>3, <2>4, <2>5 DEF Laid, Prefix, Offset
<1>7. CASE UNCHANGED vars
  BY <1>7 DEF vars, writerVars, readerVars, TypeOK, Laid, Prefix, Within, Total, Offset
<1> QED
  BY <1>1, <1>2, <1>3, <1>4, <1>5, <1>6, <1>7 DEF Next, Reading

----------------------------------------------------------------------------
(* Theorems.                                                               *)

LEMMA Invariant == Spec => []FramingInv
<1>1. FramingInv /\ [Next]_vars => FramingInv'
  BY FramingStep
<1> QED
  BY <1>1, FramingInit, PTL DEF Spec

\* The reader takes no more from the socket than was put there, and what it
\* waits for is a number of bytes.
THEOREM TypeCorrect == Spec => []TypeOK
<1>1. FramingInv => TypeOK
  BY DEF FramingInv
<1> QED
  BY <1>1, Invariant, PTL

\* read_frame always begins where write_frame began a frame.
THEOREM ReaderInStep == Spec => []InStep
<1>1. FramingInv => InStep
  BY DEF FramingInv, InStep, Within, Prefix, TypeOK, Offset, Block
<1> QED
  BY <1>1, Invariant, PTL

\* What read_frame has returned are the payloads written, in their order, and
\* none before its last byte was sent: a connection that ends within a frame
\* yields no short one.
THEOREM FramesAreWhole == Spec => []OnlyWholeFrames
<1>1. FramingInv => OnlyWholeFrames
  BY OffsetType DEF FramingInv, OnlyWholeFrames, Within, Prefix, TypeOK
<1> QED
  BY <1>1, Invariant, PTL

LEMMA ChannelStep ==
  ASSUME FramingInv, [Next]_vars
  PROVE  [Channel!Next]_(Channel!vars)
<1> USE DEF FramingInv
<1>1. CASE \E n \in Lengths : WriteFrame(n)
  BY <1>1 DEF WriteFrame, readerVars, Channel!Next, Channel!Write
<1>2. CASE Sending
  BY <1>2 DEF Sending, SendSome, readerVars, Channel!vars
<1>3. CASE Break
  BY <1>3 DEF Break, readerVars, Channel!Next, Channel!Cut
<1>4. CASE (\E b \in Pieces : Recv(b)) \/ RecvEnd
  BY <1>4 DEF Recv, RecvEnd, writerVars, Channel!vars
<1>5. CASE DecodeHead
  <2> PICK k \in 1 .. Len(frames) : k = Len(got) + 1
    BY <1>5, HeadOfNext DEF DecodeHead, TypeOK
  <2>1. Decoded = {DecodeVarint(Varint[frames[k]])}
    BY <1>5, HeadOfNext DEF DecodeHead
  <2>2. frames[k] \in Lengths
    BY DEF TypeOK
  <2>3. got' = got \/ got' = Append(got, frames[k])
    BY <1>5, <2>1, <2>2, SizeIs DEF DecodeHead
  <2> QED
    BY <1>5, <2>3 DEF DecodeHead, writerVars, TypeOK, Channel!Next, Channel!Read, Channel!vars
<1>6. CASE ReturnFrame
  <2> PICK k \in 1 .. Len(frames) : k = Len(got) + 1
    BY <1>6 DEF ReturnFrame, Within, TypeOK
  <2> frames[k] \in Lengths
    BY DEF TypeOK
  <2> head = DecodeVarint(Varint[frames[k]])
    BY <1>6 DEF ReturnFrame, Within
  <2>1. frames[k] \in Lengths /\ Payload(head) = frames[k]
    BY SizeIs
  <2> QED
    BY <1>6, <2>1 DEF ReturnFrame, writerVars, TypeOK, Channel!Next, Channel!Read
<1>7. CASE UNCHANGED vars
  BY <1>7 DEF vars, writerVars, readerVars, Channel!vars
<1> QED
  BY <1>1, <1>2, <1>3, <1>4, <1>5, <1>6, <1>7 DEF Next, Reading

\* A ChainCipherStream is a channel: every step of its two ends writes one
\* frame, reads the next one in order, cuts the channel, or is not seen.
THEOREM FramingIsChannel == Spec => Channel!Init /\ [][Channel!Next]_(Channel!vars)
<1>1. Init => Channel!Init
  BY DEF Init, Channel!Init
<1>2. FramingInv /\ [Next]_vars => [Channel!Next]_(Channel!vars)
  BY ChannelStep
<1> QED
  BY <1>1, <1>2, Invariant, PTL DEF Spec
=============================================================================
