--------------------------- MODULE RedisSetProofs ---------------------------
(***************************************************************************)
(* Proofs about Intset, for bytes of any even number of values: an intset  *)
(* of ascending elements stays one, byte by byte, through every insertion, *)
(* removal and upgrade of its encoding, and the binary search finds every  *)
(* element.                                                                *)
(*                                                                         *)
(* Proofs about RedisSet, for any members, limits and number of handles:   *)
(* whatever the encoding of a payload, every command does to it what it    *)
(* says to a set, no payload is left empty, unordered or beyond the limits *)
(* of its encoding, and the operations on several sets and the dump give   *)
(* the set they name.                                                      *)
(***************************************************************************)
EXTENDS RedisSet, FoldLemmas, FiniteSetTheorems

-----------------------------------------------------------------------------
(* Numbers and their bytes. *)

\* The recursive equation of Values.
LEMMA ValuesIs ==
    /\ Values \in [0 .. 8 -> Nat \ {0}] /\ Values[0] = 1
    /\ \A i \in 1 .. 8 : Values[i] = Values[i - 1] * BASE
<1> DEFINE D == Nat \ {0}
           F == [p \in (1 .. 8) \X D |-> p[2] * BASE]
           Eqn(f) == f = [i \in 0 .. INTSET_ENC_INT64 |-> IF i = 0 THEN 1 ELSE f[i - 1] * BASE]
<1>1. F \in [(1 .. 8) \X D -> D]
  <2>1. \A y \in D : y * BASE \in D
    BY IntsetAssumption
  <2>2. QED
    BY <2>1
<1>2. PICK g : Accumulates(g, 8, 1, F, D)
  <2>1. 1 \in D /\ 8 \in Nat
    OBVIOUS
  <2> HIDE DEF D, F
  <2>2. QED
    BY <1>1, <2>1, RecursionExists
<1>3. Eqn(g)
  <2>1. g \in [0 .. 8 -> D] /\ g[0] = 1 /\ \A n \in 1 .. 8 : g[n] = F[<<n, g[n - 1]>>]
    BY <1>2 DEF Accumulates
  <2>2. ASSUME NEW n \in 1 .. 8 PROVE g[n] = g[n - 1] * BASE
    <3>1. n - 1 \in 0 .. 8
      OBVIOUS
    <3>2. g[n - 1] \in D
      BY <2>1, <3>1
    <3>3. QED
      BY <2>1, <3>2
  <2>3. \A i \in 0 .. 8 : g[i] = IF i = 0 THEN 1 ELSE g[i - 1] * BASE
    BY <2>1, <2>2
  <2>4. QED
    BY <2>1, <2>3 DEF INTSET_ENC_INT64
<1>4. Eqn(Values)
  <2>1. Values = CHOOSE f : Eqn(f)
    BY DEF Values
  <2> HIDE DEF Eqn
  <2>2. QED
    BY <1>3, <2>1
<1>5. DOMAIN Values = 0 .. 8 /\ Values[0] = 1 /\ \A i \in 1 .. 8 : Values[i] = Values[i - 1] * BASE
  BY <1>4 DEF INTSET_ENC_INT64
<1>6. \A i \in 0 .. 8 : Values[i] \in D
  <2> DEFINE T == {i \in 0 .. 8 : Values[i] \in D}
  <2>1. 0 \in T
    BY <1>5
  <2>2. ASSUME NEW n \in 0 .. (8 - 1), n \in T PROVE n + 1 \in T
    <3>1. n + 1 \in 1 .. 8 /\ (n + 1) - 1 = n
      OBVIOUS
    <3>2. Values[n + 1] = Values[n] * BASE
      BY <1>5, <3>1
    <3>3. QED
      BY <2>2, <3>1, <3>2, IntsetAssumption
  <2>3. \A n \in 0 .. 8 : n \in T
    <3> HIDE DEF T
    <3>1. QED
      BY <2>1, <2>2, UpTo
  <2>4. QED
    BY <2>3
<1>7. Values = [i \in 0 .. 8 |-> Values[i]]
  BY <1>4 DEF INTSET_ENC_INT64
<1>8. QED
  BY <1>5, <1>6, <1>7

\* Half of the values are negative.
LEMMA ValuesEven ==
    ASSUME NEW enc \in Encodings
    PROVE  /\ enc \in 1 .. 8 /\ Values[enc] \in Nat \ {0} /\ Values[enc] \div 2 \in Nat
           /\ Values[enc] = 2 * (Values[enc] \div 2)
<1>1. enc \in 1 .. 8 /\ enc - 1 \in 0 .. 8
  BY DEF Encodings, INTSET_ENC_INT16, INTSET_ENC_INT32, INTSET_ENC_INT64
<1>2. Values[enc] = Values[enc - 1] * BASE /\ Values[enc - 1] \in Nat \ {0} /\ Values[enc] \in Nat \ {0}
  BY <1>1, ValuesIs
<1>3. PICK h \in Nat : BASE = 2 * h
  <2>1. BASE \div 2 \in Nat /\ BASE = 2 * (BASE \div 2)
    BY IntsetAssumption
  <2>2. QED
    BY <2>1
<1> DEFINE v == Values[enc - 1]
           w == Values[enc]
<1>4. v * (2 * h) = 2 * (v * h) /\ v * h \in Nat
  BY <1>2, <1>3
<1>5. w = 2 * (v * h)
  BY <1>2, <1>3, <1>4
<1> HIDE DEF v, w
<1>6. w \div 2 = v * h
  BY <1>4, <1>5
<1>7. QED
  BY <1>1, <1>2, <1>4, <1>5, <1>6 DEF w

\* What Decode adds up.
LEMMA DecodeIs ==
    ASSUME NEW enc \in 1 .. 8, NEW b \in Seq(Nat), Len(b) = enc
    PROVE  \E low \in [0 .. enc -> Int] :
              /\ low[0] = 0 /\ \A i \in 1 .. enc : low[i] = low[i - 1] + (b[i] * Values[i - 1])
              /\ Decode(b) = Signed(low[enc], Values[enc])
<1> DEFINE F == [p \in (1 .. enc) \X Int |-> p[2] + (b[p[1]] * Values[p[1] - 1])]
           Eqn(f) == f = [i \in 0 .. Len(b) |-> IF i = 0 THEN 0 ELSE f[i - 1] + (b[i] * Values[i - 1])]
           low == CHOOSE f : Eqn(f)
<1>1. \A i \in 1 .. enc : b[i] \in Nat /\ Values[i - 1] \in Nat
  <2>1. ASSUME NEW i \in 1 .. enc PROVE b[i] \in Nat /\ Values[i - 1] \in Nat
    <3>1. i - 1 \in 0 .. 8
      OBVIOUS
    <3>2. Values[i - 1] \in Nat
      BY <3>1, ValuesIs
    <3>3. QED
      BY <3>2
  <2>2. QED
    BY <2>1
<1>2. F \in [(1 .. enc) \X Int -> Int]
  <2>1. ASSUME NEW i \in 1 .. enc, NEW y \in Int PROVE y + (b[i] * Values[i - 1]) \in Int
    <3> DEFINE v == b[i]
               w == Values[i - 1]
    <3>1. v \in Int /\ w \in Int
      BY <1>1
    <3> SUFFICES y + (v * w) \in Int
      OBVIOUS
    <3> HIDE DEF v, w
    <3>2. v * w \in Int
      BY <3>1
    <3>3. QED
      BY <3>2
  <2>2. QED
    BY <2>1
<1>3. PICK g : Accumulates(g, enc, 0, F, Int)
  <2>1. 0 \in Int /\ enc \in Nat
    OBVIOUS
  <2> HIDE DEF F
  <2>2. QED
    BY <1>2, <2>1, RecursionExists
<1>4. Eqn(g)
  <2>1. g \in [0 .. enc -> Int] /\ g[0] = 0 /\ \A n \in 1 .. enc : g[n] = F[<<n, g[n - 1]>>]
    BY <1>3 DEF Accumulates
  <2>2. ASSUME NEW n \in 1 .. enc PROVE g[n] = g[n - 1] + (b[n] * Values[n - 1])
    <3>1. n - 1 \in 0 .. enc
      OBVIOUS
    <3>2. g[n - 1] \in Int
      BY <2>1, <3>1
    <3>3. QED
      BY <2>1, <3>2
  <2> HIDE DEF F
  <2>3. QED
    BY <2>1, <2>2
<1>5. Eqn(low)
  <2> HIDE DEF Eqn
  <2>1. QED
    BY <1>4
<1>6. Decode(b) = Signed(low[enc], Values[enc])
  BY DEF Decode
<1> HIDE DEF low
<1>7. low[0] = 0 /\ \A i \in 1 .. enc : low[i] = low[i - 1] + (b[i] * Values[i - 1])
  BY <1>5
<1>8. \A i \in 0 .. enc : low[i] \in Int
  <2> DEFINE T == {i \in 0 .. enc : low[i] \in Int}
  <2>1. 0 \in T
    BY <1>7
  <2>2. ASSUME NEW n \in 0 .. (enc - 1), n \in T PROVE n + 1 \in T
    <3>1. n + 1 \in 1 .. enc /\ (n + 1) - 1 = n
      OBVIOUS
    <3>2. low[n + 1] = low[n] + (b[n + 1] * Values[n])
      BY <1>7, <3>1
    <3>3. b[n + 1] \in Nat /\ Values[n] \in Nat
      BY <1>1, <3>1
    <3>4. QED
      BY <2>2, <3>1, <3>2, <3>3
  <2>3. \A n \in 0 .. enc : n \in T
    <3> HIDE DEF T
    <3>1. enc \in Nat
      OBVIOUS
    <3>2. QED
      BY <2>1, <2>2, <3>1, UpTo
  <2>4. QED
    BY <2>3
<1>9. low \in [0 .. enc -> Int]
  BY <1>5, <1>8
<1>10. QED
  BY <1>6, <1>7, <1>9

\* One digit more: the remainder by V * B from the remainder by V.
LEMMA NextDigit ==
    ASSUME NEW v \in Int, NEW V \in Nat \ {0}, NEW B \in Nat \ {0}
    PROVE  (v - (V * (v \div V))) + (((v \div V) % B) * V) = v - ((V * B) * (v \div (V * B)))
<1> DEFINE q == v \div V
           r == q \div B
<1>1. q \in Int /\ r \in Int
  OBVIOUS
<1>2. r = v \div (V * B)
  OBVIOUS
<1>3. q % B = q - (B * r)
  OBVIOUS
<1> HIDE DEF q, r
<1>4. (q - (B * r)) * V = (V * q) - ((V * B) * r)
  BY <1>1
<1>5. (v - (V * q)) + ((q % B) * V) = v - ((V * B) * r)
  <2> DEFINE x == V * q
             y == (V * B) * r
  <2>1. x \in Int /\ y \in Int
    BY <1>1
  <2>2. (q % B) * V = x - y
    BY <1>3, <1>4
  <2> HIDE DEF x, y
  <2>3. (v - x) + (x - y) = v - y
    BY <2>1
  <2>4. QED
    BY <2>2, <2>3 DEF x, y
<1>6. QED
  BY <1>2, <1>5 DEF q

\* Division rounds down.
LEMMA DivMinusOne ==
    ASSUME NEW v \in Int, NEW V \in Nat \ {0}, -V <= v, v < 0
    PROVE  v \div V = -1
<1> DEFINE q == v \div V
           p == V * q
<1>1. q \in Int /\ p \in Int /\ p <= v /\ v < p + V
  OBVIOUS
<1>2. q >= 0 => p >= 0
  OBVIOUS
<1>3. q <= -2 => p <= -(2 * V)
  <2>1. CASE q <= -2
    <3>1. (V * (-2 - q)) \in Nat /\ V * (-2 - q) = -(2 * V) - p
      BY <1>1, <2>1
    <3>2. QED
      BY <1>1, <3>1
  <2>2. QED
    BY <2>1
<1> HIDE DEF p, q
<1>4. q = -1
  BY <1>1, <1>2, <1>3
<1>5. QED
  BY <1>4 DEF q

\* The bytes of a number.
LEMMA EncodeType ==
    ASSUME NEW v \in Int, NEW enc \in Encodings
    PROVE  /\ Encode(v, enc) \in [1 .. enc -> Bytes] /\ Encode(v, enc) \in Seq(Nat)
           /\ Len(Encode(v, enc)) = enc /\ enc \in 1 .. 8
<1>1. enc \in 1 .. 8
  BY ValuesEven
<1>2. ASSUME NEW i \in 1 .. enc PROVE (v \div Values[i - 1]) % BASE \in Bytes
  <2>1. i - 1 \in 0 .. 8
    BY <1>1
  <2>2. Values[i - 1] \in Nat \ {0}
    BY <2>1, ValuesIs
  <2>3. v \div Values[i - 1] \in Int
    BY <2>2
  <2>4. QED
    BY <2>3, IntsetAssumption DEF Bytes
<1>3. Bytes \subseteq Nat
  BY DEF Bytes
<1>4. Encode(v, enc) \in [1 .. enc -> Bytes]
  <2> DEFINE e == [i \in 1 .. enc |-> (v \div Values[i - 1]) % BASE]
  <2>1. e \in [1 .. enc -> Bytes]
    BY <1>2
  <2>2. QED
    BY <2>1 DEF Encode
<1>5. enc \in Nat
  BY <1>1
<1>6. Encode(v, enc) \in [1 .. enc -> Nat]
  BY <1>3, <1>4
<1>7. QED
  BY <1>1, <1>4, <1>5, <1>6

\* Reading back the bytes of a number gives the number.
LEMMA RoundTrip ==
    ASSUME NEW enc \in Encodings, NEW v \in Holds(enc), NEW b \in Seq(Nat), Len(b) = enc,
           \A j \in 1 .. enc : b[j] = Encode(v, enc)[j]
    PROVE  Decode(b) = v
<1> DEFINE V == Values[enc]
<1>1. enc \in 1 .. 8 /\ V \in Nat \ {0} /\ V \div 2 \in Nat /\ V = 2 * (V \div 2)
  BY ValuesEven
<1>2. v \in Int /\ -(V \div 2) <= v /\ v <= (V \div 2) - 1
  BY <1>1 DEF Holds
<1>3. PICK low \in [0 .. enc -> Int] :
         /\ low[0] = 0 /\ \A i \in 1 .. enc : low[i] = low[i - 1] + (b[i] * Values[i - 1])
         /\ Decode(b) = Signed(low[enc], V)
  BY <1>1, DecodeIs
<1>4. \A i \in 0 .. enc : low[i] = v - (Values[i] * (v \div Values[i]))
  <2> DEFINE T == {i \in 0 .. enc : low[i] = v - (Values[i] * (v \div Values[i]))}
  <2>1. 0 \in T
    <3>1. Values[0] = 1 /\ v \div 1 = v
      BY <1>2, ValuesIs
    <3>2. QED
      BY <1>2, <1>3, <3>1
  <2>2. ASSUME NEW n \in 0 .. (enc - 1), n \in T PROVE n + 1 \in T
    <3>1. n + 1 \in 1 .. enc /\ (n + 1) - 1 = n /\ n \in 0 .. 8 /\ n + 1 \in 1 .. 8
      BY <1>1
    <3>2. /\ Values[n] \in Nat \ {0} /\ Values[n + 1] = Values[n] * BASE /\ BASE \in Nat \ {0}
      BY <3>1, ValuesIs, IntsetAssumption
    <3>3. b[n + 1] = (v \div Values[n]) % BASE
      BY <3>1 DEF Encode
    <3>4. low[n + 1] = low[n] + (b[n + 1] * Values[n])
      BY <1>3, <3>1
    <3>5. (v - (Values[n] * (v \div Values[n]))) + (((v \div Values[n]) % BASE) * Values[n])
            = v - ((Values[n] * BASE) * (v \div (Values[n] * BASE)))
      BY <1>2, <3>2, NextDigit
    <3>6. low[n + 1] = v - (Values[n + 1] * (v \div Values[n + 1]))
      BY <2>2, <3>2, <3>3, <3>4, <3>5
    <3>7. QED
      BY <3>1, <3>6
  <2>3. \A n \in 0 .. enc : n \in T
    <3> HIDE DEF T
    <3>1. enc \in Nat
      BY <1>1
    <3>2. QED
      BY <2>1, <2>2, <3>1, UpTo
  <2>4. QED
    BY <2>3
<1>5. low[enc] = v - (V * (v \div V))
  BY <1>1, <1>4
<1> DEFINE h == V \div 2
<1>6. h \in Nat /\ V = 2 * h
  BY <1>1
<1> HIDE DEF V
<1>7. CASE v >= 0
  <2>1. v \div V = 0
    BY <1>1, <1>2, <1>7
  <2>2. low[enc] = v /\ v < h
    BY <1>2, <1>5, <1>6, <2>1, <1>1
  <2>3. QED
    BY <1>3, <2>2 DEF Signed
<1>8. CASE v < 0
  <2>1. v \div V = -1
    <3>1. -V <= v
      BY <1>1, <1>2, <1>6
    <3>2. QED
      BY <1>1, <1>2, <1>8, <3>1, DivMinusOne
  <2>2. low[enc] = v + V
    BY <1>1, <1>2, <1>5, <2>1
  <2>3. ~(v + V < h) /\ (v + V) - V = v
    BY <1>1, <1>2, <1>6
  <2>4. QED
    BY <1>3, <2>2, <2>3 DEF Signed
<1>9. QED
  BY <1>2, <1>7, <1>8

-----------------------------------------------------------------------------
(* Blocks of bytes. *)

\* Position pos of contents c, read with encoding enc, holds v.
Stored(c, enc, pos, v) ==
    /\ (pos * enc) + enc <= Len(c)
    /\ \A j \in 1 .. enc : c[(pos * enc) + j] = Encode(v, enc)[j]

\* Products with the size of an element.
LEMMA Times ==
    ASSUME NEW e \in Nat, NEW a \in Int, NEW b \in Int
    PROVE  /\ a * e \in Int /\ (a + 1) * e = (a * e) + e /\ (a - b) * e = (a * e) - (b * e)
           /\ (a + b) * e = (a * e) + (b * e)
           /\ a >= 0 => a * e >= 0
           /\ a <= b => a * e <= b * e
           /\ a < b => (a * e) + e <= b * e
<1>1. /\ a * e \in Int /\ (a + 1) * e = (a * e) + e /\ (a - b) * e = (a * e) - (b * e)
      /\ (a + b) * e = (a * e) + (b * e)
  OBVIOUS
<1>2. a >= 0 => a * e >= 0
  OBVIOUS
<1>3. ASSUME NEW x \in Nat, NEW y \in Nat PROVE x * y \in Nat
  OBVIOUS
<1>4. a <= b => a * e <= b * e
  <2>1. CASE a <= b
    <3>1. (b - a) * e \in Nat /\ (b - a) * e = (b * e) - (a * e)
      BY <2>1, <1>3
    <3>2. QED
      BY <3>1
  <2>2. QED
    BY <2>1
<1>5. a < b => (a * e) + e <= b * e
  <2>1. CASE a < b
    <3>1. ((b - a) - 1) * e \in Nat /\ ((b - a) - 1) * e = ((b * e) - (a * e)) - e
      BY <2>1, <1>3
    <3> DEFINE A == a * e
               B == b * e
    <3>2. A \in Int /\ B \in Int /\ (B - A) - e >= 0
      BY <3>1
    <3> HIDE DEF A, B
    <3>3. A + e <= B
      BY <3>2
    <3>4. QED
      BY <3>3 DEF A, B
  <2>2. QED
    BY <2>1
<1>6. QED
  BY <1>1, <1>2, <1>4, <1>5

\* The fields of a block.
LEMMA BlockFields ==
    ASSUME NEW is \in Blocks
    PROVE  /\ is.encoding \in Encodings /\ is.encoding \in 1 .. 8 /\ is.encoding \in Nat \ {0}
           /\ is.length \in Nat /\ is.contents \in Seq(Cell) /\ Len(is.contents) \in Nat
           /\ DOMAIN is.contents = 1 .. Len(is.contents)
<1>1. is.encoding \in Encodings /\ is.length \in Nat /\ is.contents \in Seq(Cell)
  BY DEF Blocks
<1>2. is.encoding \in 1 .. 8
  BY <1>1, ValuesEven
<1>3. QED
  BY <1>1, <1>2

\* Reading a position gives what it holds.
LEMMA GetStored ==
    ASSUME NEW c \in Seq(Cell), NEW enc \in Encodings, NEW pos \in Nat, NEW v \in Holds(enc),
           Stored(c, enc, pos, v)
    PROVE  Decode(SubSeq(c, (pos * enc) + 1, (pos + 1) * enc)) = v
<1> DEFINE x == pos * enc
           b == SubSeq(c, x + 1, x + enc)
<1>1. enc \in 1 .. 8
  BY ValuesEven
<1>2. x \in Nat /\ (pos + 1) * enc = x + enc
  BY <1>1, Times
<1>3. x + enc <= Len(c) /\ \A j \in 1 .. enc : c[x + j] = Encode(v, enc)[j]
  BY DEF Stored
<1> HIDE DEF x
<1>4. \A i \in (x + 1) .. (x + enc) : c[i] \in Nat
  <2>1. ASSUME NEW i \in (x + 1) .. (x + enc) PROVE c[i] \in Nat
    <3>1. i \in 1 .. Len(c)
      BY <1>1, <1>2, <1>3
    <3>2. c[i] \in Cell
      BY <3>1, ElementOfSeq
    <3>3. QED
      BY <3>2, IntsetAssumption DEF Cell
  <2>2. QED
    BY <2>1
<1>5. /\ b \in Seq(Nat)
      /\ Len(b) = IF x + 1 <= x + enc THEN (x + enc) - (x + 1) + 1 ELSE 0
      /\ \A i \in 1 .. ((x + enc) - (x + 1) + 1) : b[i] = c[(x + 1) + i - 1]
  BY <1>1, <1>2, <1>4, SubSeqProperties
<1>6. Len(b) = enc
  BY <1>1, <1>2, <1>5
<1>7. \A j \in 1 .. enc : b[j] = Encode(v, enc)[j]
  <2>1. ASSUME NEW j \in 1 .. enc PROVE b[j] = Encode(v, enc)[j]
    <3>1. j \in 1 .. ((x + enc) - (x + 1) + 1) /\ (x + 1) + j - 1 = x + j
      BY <1>1, <1>2
    <3>2. QED
      BY <1>3, <1>5, <3>1
  <2>2. QED
    BY <2>1
<1>8. Decode(b) = v
  <2> HIDE DEF b
  <2>1. QED
    BY <1>5, <1>6, <1>7, RoundTrip
<1>9. QED
  BY <1>2, <1>8 DEF x

\* A position whose bytes are kept holds what it held.
LEMMA StoredSame ==
    ASSUME NEW c, NEW d, NEW enc \in Nat, NEW pos \in Int, NEW q \in Int, NEW v,
           Stored(c, enc, pos, v), (q * enc) + enc <= Len(d),
           \A j \in 1 .. enc : d[(q * enc) + j] = c[(pos * enc) + j]
    PROVE  Stored(d, enc, q, v)
BY DEF Stored

\* What intsetSet does.
SetEffect(new, is, pos, v) ==
    /\ new \in Blocks /\ new.encoding = is.encoding /\ new.length = is.length
    /\ Len(new.contents) = Len(is.contents)
    /\ Stored(new.contents, is.encoding, pos, v)
    /\ \A k \in 1 .. Len(is.contents) :
          k <= pos * is.encoding \/ k > (pos * is.encoding) + is.encoding =>
              new.contents[k] = is.contents[k]

\* intsetSet writes the bytes of one position and no other.
LEMMA SetIs ==
    ASSUME NEW is \in Blocks, NEW pos \in Nat, NEW v \in Int,
           (pos * is.encoding) + is.encoding <= Len(is.contents)
    PROVE  SetEffect(intsetSet(is, pos, v), is, pos, v)
<1> DEFINE enc == is.encoding
           x == pos * enc
           n == Len(is.contents)
           e == Encode(v, enc)
           c == [k \in 1 .. n |-> IF k - x \in 1 .. enc THEN e[k - x] ELSE is.contents[k]]
           new == [is EXCEPT !.contents = c]
<1>1. /\ enc \in Encodings /\ enc \in 1 .. 8 /\ is.contents \in Seq(Cell) /\ n \in Nat
      /\ DOMAIN is.contents = 1 .. n
  BY BlockFields
<1>2. x \in Nat /\ x + enc <= n
  BY <1>1, Times
<1>3. e \in [1 .. enc -> Bytes] /\ DOMAIN e = 1 .. enc
  BY <1>1, EncodeType
<1>4. intsetSet(is, pos, v) = new
  BY <1>1, <1>3 DEF intsetSet
<1> HIDE DEF x, e, n
<1>5. ASSUME NEW k \in 1 .. n
      PROVE  (IF k - x \in 1 .. enc THEN e[k - x] ELSE is.contents[k]) \in Cell
  <2>1. Bytes \subseteq Cell
    BY IntsetAssumption DEF Bytes, Cell
  <2>2. is.contents[k] \in Cell
    BY <1>1, ElementOfSeq DEF n
  <2>3. QED
    BY <1>3, <2>1, <2>2
<1>6. c \in [1 .. n -> Cell]
  BY <1>5
<1>7. c \in Seq(Cell) /\ Len(c) = n
  BY <1>1, <1>6
<1>8. new \in Blocks /\ new.encoding = enc /\ new.length = is.length /\ new.contents = c
  <2> HIDE DEF c
  <2>1. QED
    BY <1>7 DEF Blocks
<1>9. Stored(c, enc, pos, v)
  <2>1. ASSUME NEW j \in 1 .. enc PROVE c[x + j] = e[j]
    <3>1. x + j \in 1 .. n /\ (x + j) - x = j
      BY <1>1, <1>2
    <3>2. QED
      BY <3>1
  <2> HIDE DEF c
  <2>2. QED
    BY <1>2, <1>7, <2>1 DEF Stored, x, e
<1>10. ASSUME NEW k \in 1 .. n, k <= x \/ k > x + enc PROVE c[k] = is.contents[k]
  <2>1. k - x \notin 1 .. enc
    BY <1>1, <1>2, <1>10
  <2>2. QED
    BY <2>1
<1> HIDE DEF c, new
<1>11. SetEffect(new, is, pos, v)
  BY <1>7, <1>8, <1>9, <1>10 DEF SetEffect, n, x
<1>12. QED
  BY <1>4, <1>11

\* What intsetResize does.
ResizeEffect(new, is, len) ==
    /\ new \in Blocks /\ new.encoding = is.encoding /\ new.length = is.length
    /\ Len(new.contents) = len * is.encoding
    /\ \A k \in 1 .. (len * is.encoding) : k <= Len(is.contents) => new.contents[k] = is.contents[k]

\* A resize keeps the bytes that stay.
LEMMA ResizeIs ==
    ASSUME NEW is \in Blocks, NEW len \in Nat
    PROVE  ResizeEffect(intsetResize(is, len), is, len)
<1> DEFINE enc == is.encoding
           m == len * enc
           n == Len(is.contents)
           c == [k \in 1 .. m |-> IF k \in 1 .. n THEN is.contents[k] ELSE Uninitialized]
           new == [is EXCEPT !.contents = c]
<1>1. /\ enc \in Encodings /\ enc \in 1 .. 8 /\ is.contents \in Seq(Cell) /\ n \in Nat
      /\ DOMAIN is.contents = 1 .. n
  BY BlockFields
<1>2. m \in Nat
  BY <1>1, Times
<1>3. intsetResize(is, len) = new
  BY <1>1 DEF intsetResize
<1> HIDE DEF m, n
<1>4. ASSUME NEW k \in 1 .. m
      PROVE  (IF k \in 1 .. n THEN is.contents[k] ELSE Uninitialized) \in Cell
  <2>1. Uninitialized \in Cell
    BY IntsetAssumption DEF Uninitialized, Cell
  <2>2. k \in 1 .. n => is.contents[k] \in Cell
    BY <1>1, ElementOfSeq DEF n
  <2>3. QED
    BY <2>1, <2>2
<1>5. c \in [1 .. m -> Cell]
  BY <1>4
<1>6. c \in Seq(Cell) /\ Len(c) = m
  BY <1>2, <1>5
<1>7. new \in Blocks /\ new.encoding = enc /\ new.length = is.length /\ new.contents = c
  <2> HIDE DEF c
  <2>1. QED
    BY <1>6 DEF Blocks
<1>8. ASSUME NEW k \in 1 .. m, k <= n PROVE c[k] = is.contents[k]
  <2>1. k \in 1 .. n
    BY <1>1, <1>2, <1>8
  <2>2. QED
    BY <2>1
<1> HIDE DEF c, new
<1>9. ResizeEffect(new, is, len)
  BY <1>6, <1>7, <1>8 DEF ResizeEffect, n, m
<1>10. QED
  BY <1>3, <1>9

\* What intsetMoveTail does: s bytes at y are now at z.
MoveEffect(new, is, y, z, s) ==
    /\ new \in Blocks /\ new.encoding = is.encoding /\ new.length = is.length
    /\ Len(new.contents) = Len(is.contents)
    /\ \A k \in 1 .. Len(is.contents) :
          /\ k <= z \/ k > z + s => new.contents[k] = is.contents[k]
          /\ k > z /\ k <= z + s => new.contents[k] = is.contents[y + (k - z)]

\* The tail is moved, the bytes around its new place stay.
LEMMA MoveIs ==
    ASSUME NEW is \in Blocks, NEW from \in Nat, NEW to \in Nat, from <= is.length,
           is.length * is.encoding <= Len(is.contents)
    PROVE  MoveEffect(intsetMoveTail(is, from, to), is, from * is.encoding, to * is.encoding,
                      (is.length - from) * is.encoding)
<1> DEFINE enc == is.encoding
           y == from * enc
           z == to * enc
           t == is.length * enc
           s == t - y
           n == Len(is.contents)
           moved == SubSeq(is.contents, y + 1, t)
           c == [k \in 1 .. n |-> IF k - z \in DOMAIN moved THEN moved[k - z] ELSE is.contents[k]]
           new == [is EXCEPT !.contents = c]
<1>1. /\ enc \in Encodings /\ enc \in Nat /\ is.contents \in Seq(Cell) /\ n \in Nat
      /\ DOMAIN is.contents = 1 .. n /\ is.length \in Nat
  BY BlockFields
<1>2. /\ y \in Nat /\ z \in Nat /\ t \in Nat /\ s \in Nat /\ y + s = t /\ t <= n
      /\ (is.length - from) * enc = s
  <2>1. y \in Int /\ y >= 0
    <3>1. from \in Int /\ from >= 0 /\ to \in Int
      OBVIOUS
    <3>2. from * enc \in Int /\ from * enc >= 0
      BY <1>1, <3>1, Times, Zenon
    <3>3. QED
      BY <3>2
  <2>2. z \in Int /\ z >= 0
    BY <1>1, Times
  <2>3. t \in Int /\ y <= t /\ (is.length - from) * enc = t - y
    BY <1>1, Times
  <2> HIDE DEF y, z, t
  <2>4. QED
    BY <2>1, <2>2, <2>3 DEF t
<1>3. intsetMoveTail(is, from, to) = new
  BY <1>1 DEF intsetMoveTail
<1> HIDE DEF y, z, t, n
<1>4. \A i \in (y + 1) .. t : is.contents[i] \in Cell
  <2>1. ASSUME NEW i \in (y + 1) .. t PROVE is.contents[i] \in Cell
    <3>1. i \in 1 .. n
      BY <1>1, <1>2
    <3>2. QED
      BY <1>1, <3>1, ElementOfSeq DEF n
  <2>2. QED
    BY <2>1
<1>5. /\ moved \in Seq(Cell)
      /\ Len(moved) = IF y + 1 <= t THEN t - (y + 1) + 1 ELSE 0
      /\ \A i \in 1 .. (t - (y + 1) + 1) : moved[i] = is.contents[(y + 1) + i - 1]
  <2>1. y + 1 \in Int /\ t \in Int
    BY <1>2
  <2>2. QED
    BY <1>4, <2>1, SubSeqProperties
<1>6. Len(moved) = s /\ DOMAIN moved = 1 .. s
  BY <1>2, <1>5
<1>7. \A i \in 1 .. s : moved[i] = is.contents[y + i]
  <2>1. ASSUME NEW i \in 1 .. s PROVE moved[i] = is.contents[y + i]
    <3>1. i \in 1 .. (t - (y + 1) + 1) /\ (y + 1) + i - 1 = y + i
      BY <1>2
    <3>2. QED
      BY <1>5, <3>1
  <2>2. QED
    BY <2>1
<1> HIDE DEF moved, s
<1>8. ASSUME NEW k \in 1 .. n
      PROVE  (IF k - z \in DOMAIN moved THEN moved[k - z] ELSE is.contents[k]) \in Cell
  <2>1. is.contents[k] \in Cell
    BY <1>1, ElementOfSeq DEF n
  <2>2. k - z \in 1 .. s => moved[k - z] \in Cell
    BY <1>5, <1>6, ElementOfSeq
  <2>3. QED
    BY <1>6, <2>1, <2>2
<1>9. c \in [1 .. n -> Cell]
  BY <1>8
<1>10. c \in Seq(Cell) /\ Len(c) = n
  BY <1>1, <1>9
<1>11. new \in Blocks /\ new.encoding = enc /\ new.length = is.length /\ new.contents = c
  <2> HIDE DEF c
  <2>1. QED
    BY <1>10 DEF Blocks
<1>12. ASSUME NEW k \in 1 .. n, k <= z \/ k > z + s PROVE c[k] = is.contents[k]
  <2>1. k - z \notin 1 .. s
    BY <1>2, <1>12
  <2>2. QED
    BY <1>6, <2>1
<1>13. ASSUME NEW k \in 1 .. n, k > z, k <= z + s PROVE c[k] = is.contents[y + (k - z)]
  <2>1. k - z \in 1 .. s
    BY <1>2, <1>13
  <2>2. QED
    BY <1>6, <1>7, <2>1
<1> HIDE DEF c, new
<1>14. MoveEffect(new, is, y, z, s)
  BY <1>10, <1>11, <1>12, <1>13 DEF MoveEffect, n
<1>15. QED
  BY <1>2, <1>3, <1>14 DEF y, z

-----------------------------------------------------------------------------
(* An intset and the sequence of its elements. *)

Holding(is, e) ==
    /\ is \in Blocks /\ e \in Seq(Holds(is.encoding)) /\ is.length = Len(e)
    /\ Len(is.contents) = Len(e) * is.encoding
    /\ \A i \in 1 .. Len(e) : Stored(is.contents, is.encoding, i - 1, e[i])

\* A new intset has no elements.
LEMMA NewHolding == Holding(intsetNew, <<>>)
<1>1. intsetNew \in Blocks
  BY DEF intsetNew, Blocks, Encodings
<1>2. Len(intsetNew.contents) = 0 * intsetNew.encoding
  BY DEF intsetNew, INTSET_ENC_INT16
<1>3. QED
  BY <1>1, <1>2 DEF Holding, intsetNew

\* Reading by position gives the elements.
LEMMA GetHolding ==
    ASSUME NEW is, NEW e, Holding(is, e), NEW p \in 0 .. (Len(e) - 1)
    PROVE  intsetGetAt(is, p) = e[p + 1]
<1>1. /\ is \in Blocks /\ e \in Seq(Holds(is.encoding)) /\ is.encoding \in Encodings
      /\ is.contents \in Seq(Cell)
  BY BlockFields DEF Holding
<1>2. p + 1 \in 1 .. Len(e) /\ (p + 1) - 1 = p /\ p \in Nat
  BY <1>1
<1>3. e[p + 1] \in Holds(is.encoding)
  BY <1>1, <1>2, ElementOfSeq
<1>4. Stored(is.contents, is.encoding, p, e[p + 1])
  BY <1>2 DEF Holding
<1>5. QED
  BY <1>1, <1>2, <1>3, <1>4, GetStored DEF intsetGetAt, intsetGetEncoded

\* The walk by position.
LEMMA ElementsHolding ==
    ASSUME NEW is, NEW e, Holding(is, e)
    PROVE  intsetElements(is) = e
<1>1. e \in Seq(Holds(is.encoding)) /\ is.length = Len(e) /\ Len(e) \in Nat
  BY DEF Holding
<1>2. ASSUME NEW i \in 1 .. Len(e) PROVE intsetGetAt(is, i - 1) = e[i]
  <2>1. i - 1 \in 0 .. (Len(e) - 1) /\ (i - 1) + 1 = i
    BY <1>1
  <2>2. QED
    BY <2>1, GetHolding
<1>3. intsetElements(is) = [i \in 1 .. Len(e) |-> e[i]]
  BY <1>1, <1>2 DEF intsetElements
<1>4. QED
  BY <1>1, <1>3

\* Which element a byte belongs to.
LEMMA Locate ==
    ASSUME NEW enc \in Encodings, NEW n \in Nat, NEW k \in 1 .. (n * enc)
    PROVE  \E i \in 1 .. n : \E j \in 1 .. enc : k = ((i - 1) * enc) + j
<1>1. enc = 2 \/ enc = 4 \/ enc = 8
  BY DEF Encodings, INTSET_ENC_INT16, INTSET_ENC_INT32, INTSET_ENC_INT64
<1> DEFINE i == ((k - 1) \div enc) + 1
           j == k - ((i - 1) * enc)
<1>2. CASE enc = 2
  <2>1. k \in 1 .. (n * 2)
    BY <1>2
  <2>2. i = ((k - 1) \div 2) + 1
    BY <1>2
  <2> HIDE DEF i
  <2>3. i \in 1 .. n /\ k - ((i - 1) * 2) \in 1 .. 2
    BY <2>1, <2>2
  <2>4. i \in 1 .. n /\ j \in 1 .. enc /\ k = ((i - 1) * enc) + j
    BY <1>2, <2>1, <2>3
  <2>5. QED
    BY <2>4
<1>3. CASE enc = 4
  <2>1. k \in 1 .. (n * 4)
    BY <1>3
  <2>2. i = ((k - 1) \div 4) + 1
    BY <1>3
  <2> HIDE DEF i
  <2>3. i \in 1 .. n /\ k - ((i - 1) * 4) \in 1 .. 4
    BY <2>1, <2>2
  <2>4. i \in 1 .. n /\ j \in 1 .. enc /\ k = ((i - 1) * enc) + j
    BY <1>3, <2>1, <2>3
  <2>5. QED
    BY <2>4
<1>4. CASE enc = 8
  <2>1. k \in 1 .. (n * 8)
    BY <1>4
  <2>2. i = ((k - 1) \div 8) + 1
    BY <1>4
  <2> HIDE DEF i
  <2>3. i \in 1 .. n /\ k - ((i - 1) * 8) \in 1 .. 8
    BY <2>1, <2>2
  <2>4. i \in 1 .. n /\ j \in 1 .. enc /\ k = ((i - 1) * enc) + j
    BY <1>4, <2>1, <2>3
  <2>5. QED
    BY <2>4
<1>5. QED
  BY <1>1, <1>2, <1>3, <1>4

\* Every byte of the block has been written.
LEMMA BytesWritten ==
    ASSUME NEW is, NEW e, Holding(is, e)
    PROVE  ToSet(is.contents) \subseteq Bytes
<1>1. /\ is.encoding \in Encodings /\ is.contents \in Seq(Cell) /\ Len(e) \in Nat
      /\ e \in Seq(Holds(is.encoding))
      /\ DOMAIN is.contents = 1 .. (Len(e) * is.encoding)
  BY BlockFields DEF Holding
<1>2. ASSUME NEW k \in 1 .. (Len(e) * is.encoding) PROVE is.contents[k] \in Bytes
  <2>1. PICK i \in 1 .. Len(e) : \E j \in 1 .. is.encoding : k = ((i - 1) * is.encoding) + j
    BY <1>1, Locate
  <2>2. PICK j \in 1 .. is.encoding : k = ((i - 1) * is.encoding) + j
    BY <2>1
  <2>3. is.contents[k] = Encode(e[i], is.encoding)[j]
    BY <2>2 DEF Holding, Stored
  <2>4. e[i] \in Int
    <3>1. e[i] \in Holds(is.encoding)
      BY <1>1, ElementOfSeq
    <3>2. Holds(is.encoding) \subseteq Int
      BY <1>1, ValuesEven DEF Holds
    <3>3. QED
      BY <3>1, <3>2
  <2>5. Encode(e[i], is.encoding) \in [1 .. is.encoding -> Bytes]
    BY <1>1, <2>4, EncodeType
  <2>6. QED
    BY <2>3, <2>5
<1>3. QED
  BY <1>1, <1>2 DEF ToSet

-----------------------------------------------------------------------------
(* Inserting and deleting by position. *)

\* A block with another length.
LEMMA Lengthen ==
    ASSUME NEW b \in Blocks, NEW n \in Nat
    PROVE  /\ [b EXCEPT !.length = n] \in Blocks /\ [b EXCEPT !.length = n].length = n
           /\ [b EXCEPT !.length = n].encoding = b.encoding
           /\ [b EXCEPT !.length = n].contents = b.contents
BY DEF Blocks

\* A block holds elements when every position does.
LEMMA HoldingIs ==
    ASSUME NEW new \in Blocks, NEW f \in Seq(Holds(new.encoding)), new.length = Len(f),
           Len(new.contents) = Len(f) * new.encoding,
           \A i \in 1 .. Len(f) : Stored(new.contents, new.encoding, i - 1, f[i])
    PROVE  Holding(new, f)
BY DEF Holding

\* A gap is opened and the value put there: no other element is lost.
LEMMA InsertHolding ==
    ASSUME NEW is, NEW e, Holding(is, e), NEW v \in Holds(is.encoding), NEW pos \in 0 .. Len(e)
    PROVE  /\ Holding(InsertValue(is, v, pos), InsertedAt(e, pos, v))
           /\ InsertValue(is, v, pos).encoding = is.encoding
<1> DEFINE enc == is.encoding
           len == Len(e)
           x == pos * enc
           L == len * enc
           f == InsertedAt(e, pos, v)
           R == intsetResize(is, len + 1)
           M == IF pos < len THEN intsetMoveTail(R, pos, pos + 1) ELSE R
           W == intsetSet(M, pos, v)
           N == [W EXCEPT !.length = len + 1]
<1>1. /\ is \in Blocks /\ enc \in Encodings /\ enc \in Nat \ {0} /\ len \in Nat /\ pos \in Nat
      /\ e \in Seq(Holds(enc)) /\ is.length = len /\ Len(is.contents) = L
      /\ \A i \in 1 .. len : Stored(is.contents, enc, i - 1, e[i])
  BY BlockFields DEF Holding
<1>2. /\ x \in Nat /\ L \in Nat /\ x <= L /\ (pos + 1) * enc = x + enc
      /\ (len + 1) * enc = L + enc /\ (len - pos) * enc = L - x
  <2>1. x \in Int /\ x >= 0 /\ (pos + 1) * enc = x + enc
    BY <1>1, Times
  <2>2. L \in Int /\ L >= 0 /\ (len + 1) * enc = L + enc
    BY <1>1, Times
  <2>3. x <= L /\ (len - pos) * enc = L - x
    BY <1>1, Times
  <2> HIDE DEF x, L
  <2>4. QED
    BY <2>1, <2>2, <2>3
<1>3. f \in Seq(Holds(enc)) /\ Len(f) = len + 1
  BY <1>1, InsertedType
<1>4. v \in Int
  BY <1>1, ValuesEven DEF Holds
<1> HIDE DEF x, L, f, enc, len
<1>5. /\ R \in Blocks /\ R.encoding = enc /\ R.length = len /\ Len(R.contents) = L + enc
      /\ \A k \in 1 .. L : R.contents[k] = is.contents[k]
  <2>1. len + 1 \in Nat
    BY <1>1
  <2>2. ResizeEffect(R, is, len + 1)
    BY <1>1, <2>1, ResizeIs
  <2> HIDE DEF R
  <2>3. \A k \in 1 .. L : k \in 1 .. (L + enc)
    BY <1>1, <1>2
  <2>4. QED
    BY <1>1, <1>2, <2>2, <2>3 DEF ResizeEffect, enc
<1> HIDE DEF R
<1>6. /\ M \in Blocks /\ M.encoding = enc /\ M.length = len /\ Len(M.contents) = L + enc
      /\ \A k \in 1 .. x : M.contents[k] = is.contents[k]
      /\ \A k \in (x + 1) .. L : M.contents[k + enc] = is.contents[k]
  <2>1. CASE pos < len
    <3> DEFINE T == intsetMoveTail(R, pos, pos + 1)
    <3>1. M = T
      BY <2>1
    <3>2. R.length * R.encoding = L
      BY <1>5 DEF L, len, enc
    <3>3. pos + 1 \in Nat /\ pos <= R.length /\ L <= Len(R.contents)
      BY <1>1, <1>2, <1>5, <2>1
    <3>4. MoveEffect(T, R, pos * R.encoding, (pos + 1) * R.encoding, (R.length - pos) * R.encoding)
      BY <1>1, <1>5, <3>2, <3>3, MoveIs
    <3>5. pos * R.encoding = x /\ (pos + 1) * R.encoding = x + enc /\ (R.length - pos) * R.encoding = L - x
      BY <1>2, <1>5 DEF x
    <3>6. MoveEffect(T, R, x, x + enc, L - x)
      BY <3>4, <3>5
    <3> HIDE DEF T, M
    <3>7. ASSUME NEW k \in 1 .. x PROVE T.contents[k] = is.contents[k]
      <4>1. k \in 1 .. (L + enc) /\ k <= x + enc /\ k \in 1 .. L
        BY <1>1, <1>2
      <4>2. T.contents[k] = R.contents[k]
        BY <1>5, <3>6, <4>1 DEF MoveEffect
      <4>3. QED
        BY <1>5, <4>1, <4>2
    <3>8. ASSUME NEW k \in (x + 1) .. L PROVE T.contents[k + enc] = is.contents[k]
      <4>1. /\ k + enc \in 1 .. (L + enc) /\ k + enc > x + enc /\ k + enc <= (x + enc) + (L - x)
            /\ k \in 1 .. L /\ x + ((k + enc) - (x + enc)) = k
        BY <1>1, <1>2
      <4>2. T.contents[k + enc] = R.contents[k]
        BY <1>5, <3>6, <4>1 DEF MoveEffect
      <4>3. QED
        BY <1>5, <4>1, <4>2
    <3>9. T \in Blocks /\ T.encoding = enc /\ T.length = len /\ Len(T.contents) = L + enc
      BY <1>5, <3>6 DEF MoveEffect
    <3>10. QED
      BY <3>1, <3>7, <3>8, <3>9
  <2>2. CASE ~ (pos < len)
    <3>1. M = R
      BY <2>2
    <3>2. pos = len
      BY <1>1, <2>2 DEF len
    <3>3. x = L
      BY <3>2 DEF x, L
    <3> HIDE DEF M
    <3>4. \A k \in 1 .. x : k \in 1 .. L
      BY <3>3
    <3>5. \A k \in (x + 1) .. L : FALSE
      BY <1>2, <3>3
    <3>6. QED
      BY <1>5, <3>1, <3>4, <3>5
  <2>3. QED
    BY <2>1, <2>2
<1> HIDE DEF M
<1>7. /\ W \in Blocks /\ W.encoding = enc /\ W.length = len /\ Len(W.contents) = L + enc
      /\ Stored(W.contents, enc, pos, v)
      /\ \A k \in 1 .. x : W.contents[k] = is.contents[k]
      /\ \A k \in (x + 1) .. L : W.contents[k + enc] = is.contents[k]
  <2>1. pos * M.encoding = x /\ x + enc <= L + enc
    BY <1>1, <1>2, <1>6 DEF x
  <2>2. SetEffect(W, M, pos, v)
    BY <1>1, <1>4, <1>6, <2>1, SetIs
  <2> HIDE DEF W
  <2>3. ASSUME NEW k \in 1 .. x PROVE W.contents[k] = is.contents[k]
    <3>1. k \in 1 .. (L + enc) /\ k <= x
      BY <1>1, <1>2
    <3>2. QED
      BY <1>6, <2>1, <2>2, <3>1 DEF SetEffect
  <2>4. ASSUME NEW k \in (x + 1) .. L PROVE W.contents[k + enc] = is.contents[k]
    <3>1. k + enc \in 1 .. (L + enc) /\ k + enc > x + enc
      BY <1>1, <1>2
    <3>2. QED
      BY <1>6, <2>1, <2>2, <3>1 DEF SetEffect
  <2>5. QED
    BY <1>6, <2>2, <2>3, <2>4 DEF SetEffect
<1>8. InsertValue(is, v, pos) = N
  <2>1. W.length + 1 = len + 1 /\ is.length = len
    BY <1>1, <1>7
  <2>2. InsertValue(is, v, pos) = [W EXCEPT !.length = W.length + 1]
    BY <2>1 DEF InsertValue, W, M, R
  <2>3. QED
    BY <2>1, <2>2
<1> HIDE DEF W
<1>9. N \in Blocks /\ N.length = len + 1 /\ N.encoding = enc /\ N.contents = W.contents
  <2>1. len + 1 \in Nat
    BY <1>1
  <2>2. QED
    BY <1>7, <2>1, Lengthen
<1> HIDE DEF N
<1>10. ASSUME NEW i \in 1 .. (len + 1) PROVE Stored(W.contents, enc, i - 1, f[i])
  <2>1. CASE i <= pos
    <3>1. f[i] = e[i] /\ i \in 1 .. len
      BY <1>1, <2>1 DEF f, InsertedAt, len
    <3>2. Stored(is.contents, enc, i - 1, e[i])
      BY <1>1, <3>1
    <3> DEFINE y == (i - 1) * enc
    <3>3. y \in Int /\ y >= 0 /\ y + enc <= x
      <4>1. i - 1 \in Int /\ i - 1 >= 0 /\ i - 1 < pos /\ enc \in Nat /\ pos \in Int
        BY <1>1, <2>1
      <4>2. QED
        BY <4>1, Times DEF x
    <3> HIDE DEF y
    <3>4. y + enc <= Len(W.contents) /\ \A j \in 1 .. enc : y + j \in 1 .. x
      BY <1>1, <1>2, <1>7, <3>3
    <3>5. \A j \in 1 .. enc : W.contents[y + j] = is.contents[y + j]
      BY <1>7, <3>4
    <3>6. i - 1 \in Int /\ enc \in Nat
      BY <1>1
    <3>7. QED
      BY <3>1, <3>2, <3>4, <3>5, <3>6, StoredSame DEF y
  <2>2. CASE i = pos + 1
    <3>1. f[i] = v /\ i - 1 = pos
      BY <1>1, <2>2 DEF f, InsertedAt, len
    <3>2. QED
      BY <1>7, <3>1
  <2>3. CASE i > pos + 1
    <3>1. f[i] = e[i - 1] /\ i - 1 \in 1 .. len
      BY <1>1, <2>3 DEF f, InsertedAt, len
    <3>2. Stored(is.contents, enc, (i - 1) - 1, e[i - 1])
      BY <1>1, <3>1
    <3> DEFINE y == ((i - 1) - 1) * enc
    <3>3. y \in Int /\ x <= y /\ y + enc <= L /\ (i - 1) * enc = y + enc
      <4>1. /\ (i - 1) - 1 \in Int /\ pos <= (i - 1) - 1 /\ enc \in Nat /\ pos \in Int
            /\ (i - 1) - 1 < len /\ len \in Int /\ ((i - 1) - 1) + 1 = i - 1
        BY <1>1, <2>3, <3>1
      <4>2. y \in Int /\ y + enc <= L /\ (i - 1) * enc = y + enc
        BY <4>1, Times DEF L
      <4>3. x <= y
        BY <4>1, Times DEF x
      <4>4. QED
        BY <4>2, <4>3
    <3> HIDE DEF y
    <3>4. /\ (y + enc) + enc <= Len(W.contents)
          /\ \A j \in 1 .. enc : y + j \in (x + 1) .. L /\ (y + enc) + j = (y + j) + enc
      <4>1. x \in Int /\ enc \in Nat /\ L \in Int /\ Len(W.contents) = L + enc
        BY <1>1, <1>2, <1>7
      <4>2. (y + enc) + enc <= Len(W.contents)
        BY <3>3, <4>1
      <4>3. \A j \in 1 .. enc : y + j \in (x + 1) .. L /\ (y + enc) + j = (y + j) + enc
        BY <3>3, <4>1
      <4>4. QED
        BY <4>2, <4>3
    <3>5. \A j \in 1 .. enc : W.contents[(y + enc) + j] = is.contents[y + j]
      BY <1>7, <3>4
    <3>6. i - 1 \in Int /\ enc \in Nat /\ (i - 1) - 1 \in Int
      BY <1>1
    <3>7. /\ ((i - 1) * enc) + enc <= Len(W.contents)
          /\ \A j \in 1 .. enc : W.contents[((i - 1) * enc) + j] = is.contents[(((i - 1) - 1) * enc) + j]
      BY <3>3, <3>4, <3>5 DEF y
    <3>8. QED
      BY <3>1, <3>2, <3>6, <3>7, StoredSame
  <2>4. i <= pos \/ i = pos + 1 \/ i > pos + 1
    BY <1>1
  <2>5. QED
    BY <2>1, <2>2, <2>3, <2>4
<1>11. Len(N.contents) = Len(f) * N.encoding
  BY <1>2, <1>3, <1>7, <1>9
<1>12. Holding(N, f)
  BY <1>3, <1>9, <1>10, <1>11, HoldingIs
<1>13. QED
  BY <1>8, <1>9, <1>12 DEF f, enc

\* Position q of d has the bytes of position pos of c.
SameBytes(c, d, enc, pos, q) ==
    /\ (q * enc) + enc <= Len(d)
    /\ \A j \in 1 .. enc : d[(q * enc) + j] = c[(pos * enc) + j]

\* A position with the bytes of another one holds what that one holds.
LEMMA StoredMoved ==
    ASSUME NEW c, NEW d, NEW enc, NEW pos, NEW q, NEW v,
           Stored(c, enc, pos, v), SameBytes(c, d, enc, pos, q)
    PROVE  Stored(d, enc, q, v)
BY DEF Stored, SameBytes

\* The tail is moved over the deleted element: no other element is lost.
LEMMA DeleteHolding ==
    ASSUME NEW is, NEW e, Holding(is, e), NEW pos \in 0 .. (Len(e) - 1)
    PROVE  /\ Holding(DeleteAt(is, pos), DeletedAt(e, pos))
           /\ DeleteAt(is, pos).encoding = is.encoding
<1> DEFINE enc == is.encoding
           len == Len(e)
           x == pos * enc
           L == len * enc
           f == DeletedAt(e, pos)
           M == IF pos < len - 1 THEN intsetMoveTail(is, pos + 1, pos) ELSE is
           R == intsetResize(M, len - 1)
           N == [R EXCEPT !.length = len - 1]
<1>1. /\ is \in Blocks /\ enc \in Encodings /\ enc \in Nat \ {0} /\ len \in Nat /\ pos \in Nat
      /\ e \in Seq(Holds(enc)) /\ is.length = len /\ Len(is.contents) = L
      /\ \A i \in 1 .. len : Stored(is.contents, enc, i - 1, e[i])
      /\ pos <= len - 1 /\ len - 1 \in Nat
  BY BlockFields DEF Holding
<1>2. /\ x \in Nat /\ L \in Nat /\ x + enc <= L /\ (pos + 1) * enc = x + enc
      /\ (len - 1) * enc = L - enc /\ (len - (pos + 1)) * enc = L - (x + enc)
  <2>1. x \in Int /\ x >= 0 /\ (pos + 1) * enc = x + enc
    BY <1>1, Times
  <2>2. L \in Int /\ L >= 0
    BY <1>1, Times
  <2>3. pos \in Int /\ len \in Int /\ pos < len /\ enc \in Nat
    BY <1>1
  <2>4. x + enc <= L
    BY <2>3, Times
  <2>5. (len - (pos + 1)) * enc = L - ((pos + 1) * enc)
    BY <1>1, Times
  <2>6. (len - 1) * enc = L - enc
    BY <1>1
  <2> HIDE DEF x, L
  <2>7. QED
    BY <2>1, <2>2, <2>4, <2>5, <2>6
<1>3. f \in Seq(Holds(enc)) /\ Len(f) = len - 1
  BY <1>1, DeletedType
<1> HIDE DEF x, L, f, enc, len
<1>4. /\ M \in Blocks /\ M.encoding = enc /\ M.length = len /\ Len(M.contents) = L
      /\ \A k \in 1 .. x : M.contents[k] = is.contents[k]
      /\ \A k \in (x + 1) .. (L - enc) : M.contents[k] = is.contents[k + enc]
  <2>1. CASE pos < len - 1
    <3> DEFINE T == intsetMoveTail(is, pos + 1, pos)
    <3>1. M = T
      BY <2>1
    <3>2. is.length * is.encoding = L
      BY <1>1 DEF L, len, enc
    <3>3. pos + 1 \in Nat /\ pos + 1 <= is.length /\ L <= Len(is.contents)
      BY <1>1, <1>2, <2>1
    <3>4. MoveEffect(T, is, (pos + 1) * is.encoding, pos * is.encoding, (is.length - (pos + 1)) * is.encoding)
      BY <1>1, <3>2, <3>3, MoveIs
    <3>5. MoveEffect(T, is, x + enc, x, L - (x + enc))
      BY <1>1, <1>2, <3>4 DEF x, enc
    <3> HIDE DEF T, M
    <3>6. ASSUME NEW k \in 1 .. x PROVE T.contents[k] = is.contents[k]
      <4>1. k \in 1 .. L /\ k <= x
        BY <1>1, <1>2
      <4>2. QED
        BY <1>1, <3>5, <4>1 DEF MoveEffect
    <3>7. ASSUME NEW k \in (x + 1) .. (L - enc) PROVE T.contents[k] = is.contents[k + enc]
      <4>1. k \in 1 .. L /\ k > x /\ k <= x + (L - (x + enc)) /\ (x + enc) + (k - x) = k + enc
        BY <1>1, <1>2
      <4>2. QED
        BY <1>1, <3>5, <4>1 DEF MoveEffect
    <3>8. T \in Blocks /\ T.encoding = enc /\ T.length = len /\ Len(T.contents) = L
      BY <1>1, <3>5 DEF MoveEffect, enc
    <3>9. QED
      BY <3>1, <3>6, <3>7, <3>8
  <2>2. CASE ~ (pos < len - 1)
    <3>1. M = is /\ pos + 1 = len
      BY <1>1, <2>2
    <3>2. x + enc = L
      BY <1>2, <3>1 DEF L
    <3>3. \A k \in (x + 1) .. (L - enc) : FALSE
      BY <1>1, <1>2, <3>2
    <3> HIDE DEF M
    <3>4. QED
      BY <1>1, <3>1, <3>3 DEF enc
  <2>3. QED
    BY <2>1, <2>2
<1> HIDE DEF M
<1>5. /\ R \in Blocks /\ R.encoding = enc /\ R.length = len /\ Len(R.contents) = L - enc
      /\ \A k \in 1 .. (L - enc) : R.contents[k] = M.contents[k]
  <2>1. ResizeEffect(R, M, len - 1)
    BY <1>1, <1>4, ResizeIs
  <2> HIDE DEF R
  <2>2. \A k \in 1 .. (L - enc) : k <= L
    BY <1>1, <1>2
  <2>3. QED
    BY <1>2, <1>4, <2>1, <2>2 DEF ResizeEffect
<1>6. DeleteAt(is, pos) = N
  <2>1. R.length - 1 = len - 1 /\ is.length = len
    BY <1>1, <1>5
  <2>2. DeleteAt(is, pos) = [R EXCEPT !.length = R.length - 1]
    BY <2>1 DEF DeleteAt, M, R
  <2>3. QED
    BY <2>1, <2>2
<1> HIDE DEF R
<1>7. N \in Blocks /\ N.length = len - 1 /\ N.encoding = enc /\ N.contents = R.contents
  BY <1>1, <1>5, Lengthen
<1> HIDE DEF N
<1>8. ASSUME NEW i \in 1 .. (len - 1) PROVE Stored(R.contents, enc, i - 1, f[i])
  <2> DEFINE y == (i - 1) * enc
  <2>1. CASE i <= pos
    <3>1. f[i] = e[i] /\ i \in 1 .. len
      BY <1>1, <2>1 DEF f, DeletedAt, len
    <3>2. Stored(is.contents, enc, i - 1, e[i])
      BY <1>1, <3>1
    <3>3. y \in Int /\ y >= 0 /\ y + enc <= x
      <4>1. i - 1 \in Int /\ i - 1 >= 0 /\ i - 1 < pos /\ enc \in Nat /\ pos \in Int
        BY <1>1, <2>1
      <4>2. QED
        BY <4>1, Times DEF x
    <3> HIDE DEF y
    <3>4. /\ y + enc <= Len(R.contents)
          /\ \A j \in 1 .. enc : y + j \in 1 .. x /\ y + j \in 1 .. (L - enc)
      BY <1>1, <1>2, <1>5, <3>3
    <3>5. \A j \in 1 .. enc : R.contents[y + j] = is.contents[y + j]
      BY <1>4, <1>5, <3>4
    <3>6. i - 1 \in Int /\ enc \in Nat
      BY <1>1
    <3>7. QED
      BY <3>1, <3>2, <3>4, <3>5, <3>6, StoredSame DEF y
  <2>2. CASE i > pos
    <3>1. f[i] = e[i + 1] /\ i + 1 \in 1 .. len /\ (i + 1) - 1 = i
      BY <1>1, <2>2 DEF f, DeletedAt, len
    <3>2. Stored(is.contents, enc, i, e[i + 1])
      BY <1>1, <3>1
    <3>3. y \in Int /\ x <= y /\ (y + enc) + enc <= L /\ i * enc = y + enc
      <4>1. /\ i - 1 \in Int /\ pos <= i - 1 /\ enc \in Nat /\ pos \in Int /\ i \in Int
            /\ i < len /\ len \in Int /\ (i - 1) + 1 = i
        BY <1>1, <2>2
      <4>2. y \in Int /\ i * enc = y + enc
        BY <4>1, Times
      <4>3. x <= y
        BY <4>1, Times DEF x
      <4>4. (i * enc) + enc <= L
        BY <4>1, Times DEF L
      <4>5. QED
        BY <4>2, <4>3, <4>4
    <3> HIDE DEF y
    <3>4. /\ y + enc <= Len(R.contents)
          /\ \A j \in 1 .. enc : /\ y + j \in (x + 1) .. (L - enc) /\ y + j \in 1 .. (L - enc)
                                 /\ (y + enc) + j = (y + j) + enc
      BY <1>1, <1>2, <1>5, <3>3
    <3>5. \A j \in 1 .. enc : R.contents[y + j] = is.contents[(y + enc) + j]
      BY <1>4, <1>5, <3>4
    <3>6. i - 1 \in Int /\ enc \in Nat /\ i \in Int
      BY <1>1
    <3>7. /\ ((i - 1) * enc) + enc <= Len(R.contents)
          /\ \A j \in 1 .. enc : R.contents[((i - 1) * enc) + j] = is.contents[(i * enc) + j]
      BY <3>3, <3>4, <3>5 DEF y
    <3>8. SameBytes(is.contents, R.contents, enc, i, i - 1)
      BY <3>7 DEF SameBytes
    <3>9. Stored(R.contents, enc, i - 1, e[i + 1])
      BY <3>2, <3>8, StoredMoved, Zenon
    <3>10. QED
      BY <3>1, <3>9
  <2>3. QED
    BY <1>1, <2>1, <2>2
<1>9. Len(N.contents) = Len(f) * N.encoding
  BY <1>2, <1>3, <1>5, <1>7
<1>10. Holding(N, f)
  BY <1>3, <1>7, <1>8, <1>9, HoldingIs
<1>11. QED
  BY <1>6, <1>7, <1>10 DEF f, enc

-----------------------------------------------------------------------------
(* Upgrading the encoding. *)

\* More bytes have at least as many values.
LEMMA ValuesGrow ==
    ASSUME NEW i \in 1 .. 8
    PROVE  Values[i - 1] \in Nat /\ Values[i] \in Nat /\ Values[i - 1] <= Values[i]
<1>1. i - 1 \in 0 .. 8 /\ i \in 0 .. 8
  OBVIOUS
<1> DEFINE a == Values[i - 1]
<1>2. a \in Nat /\ Values[i] = a * BASE /\ Values[i] \in Nat
  BY <1>1, ValuesIs
<1>3. BASE \in Nat \ {0}
  BY IntsetAssumption
<1> HIDE DEF a
<1>4. (BASE - 1) * a \in Nat /\ (a * BASE) - a = (BASE - 1) * a
  BY <1>2, <1>3
<1>5. a <= a * BASE
  BY <1>2, <1>3, <1>4
<1>6. QED
  BY <1>2, <1>5 DEF a

\* A wider encoding holds what a narrower one holds.
LEMMA HoldsWider ==
    ASSUME NEW a \in Encodings, NEW b \in Encodings, a <= b
    PROVE  Holds(a) \subseteq Holds(b) /\ Holds(b) \subseteq Int
<1>1. Values[2] <= Values[4] /\ Values[4] <= Values[8] /\ Values[2] \in Nat /\ Values[4] \in Nat /\ Values[8] \in Nat
  <2>1. /\ Values[2] \in Nat /\ Values[3] \in Nat /\ Values[4] \in Nat /\ Values[2] <= Values[3]
        /\ Values[3] <= Values[4]
    <3>1. 3 \in 1 .. 8 /\ 4 \in 1 .. 8 /\ 3 - 1 = 2 /\ 4 - 1 = 3
      OBVIOUS
    <3>2. QED
      BY <3>1, ValuesGrow
  <2>2. /\ Values[5] \in Nat /\ Values[6] \in Nat /\ Values[4] <= Values[5] /\ Values[5] <= Values[6]
    <3>1. 5 \in 1 .. 8 /\ 6 \in 1 .. 8 /\ 5 - 1 = 4 /\ 6 - 1 = 5
      OBVIOUS
    <3>2. QED
      BY <3>1, ValuesGrow
  <2>3. /\ Values[7] \in Nat /\ Values[8] \in Nat /\ Values[6] <= Values[7] /\ Values[7] <= Values[8]
    <3>1. 7 \in 1 .. 8 /\ 8 \in 1 .. 8 /\ 7 - 1 = 6 /\ 8 - 1 = 7
      OBVIOUS
    <3>2. QED
      BY <3>1, ValuesGrow
  <2>4. QED
    BY <2>1, <2>2, <2>3
<1>2. a \in {2, 4, 8} /\ b \in {2, 4, 8}
  BY DEF Encodings, INTSET_ENC_INT16, INTSET_ENC_INT32, INTSET_ENC_INT64
<1>3. Values[a] <= Values[b] /\ Values[a] \in Nat /\ Values[b] \in Nat
  BY <1>1, <1>2
<1> DEFINE x == Values[a]
           y == Values[b]
<1>4. x \in Nat /\ y \in Nat /\ x <= y
  BY <1>3
<1> HIDE DEF x, y
<1>5. x \div 2 \in Nat /\ y \div 2 \in Nat /\ x \div 2 <= y \div 2
  BY <1>4
<1>6. QED
  BY <1>5 DEF Holds, x, y

\* The encoding of a value is the narrowest that holds it.
ValueFits(v, n) ==
    /\ n \in Encodings /\ v \in Holds(n)
    /\ \A a \in Encodings : v \in Holds(a) <=> n <= a

\* intsetValueEncoding finds it.
LEMMA ValueEncodingIs ==
    ASSUME NEW v \in Holds(INTSET_ENC_INT64)
    PROVE  ValueFits(v, intsetValueEncoding(v))
<1>1. /\ INTSET_ENC_INT16 = 2 /\ INTSET_ENC_INT32 = 4 /\ INTSET_ENC_INT64 = 8 /\ Encodings = {2, 4, 8}
  BY DEF Encodings, INTSET_ENC_INT16, INTSET_ENC_INT32, INTSET_ENC_INT64
<1>2. Holds(2) \subseteq Holds(4) /\ Holds(4) \subseteq Holds(8)
  BY <1>1, HoldsWider
<1>3. CASE v \notin Holds(4)
  <2>1. intsetValueEncoding(v) = 8
    BY <1>1, <1>3 DEF intsetValueEncoding
  <2>2. QED
    BY <1>1, <1>2, <1>3, <2>1 DEF ValueFits
<1>4. CASE v \in Holds(4) /\ v \notin Holds(2)
  <2>1. intsetValueEncoding(v) = 4
    BY <1>1, <1>4 DEF intsetValueEncoding
  <2>2. QED
    BY <1>1, <1>2, <1>4, <2>1 DEF ValueFits
<1>5. CASE v \in Holds(2)
  <2>1. intsetValueEncoding(v) = 2
    BY <1>1, <1>2, <1>5 DEF intsetValueEncoding
  <2>2. QED
    BY <1>1, <1>2, <1>5, <2>1 DEF ValueFits
<1>6. QED
  BY <1>3, <1>4, <1>5

\* Any bytes decode to a number.
LEMMA GetInt ==
    ASSUME NEW is \in Blocks, NEW i \in Nat, NEW enc \in Encodings, (i * enc) + enc <= Len(is.contents)
    PROVE  intsetGetEncoded(is, i, enc) \in Int
<1> DEFINE x == i * enc
           c == is.contents
           b == SubSeq(c, x + 1, x + enc)
<1>1. c \in Seq(Cell) /\ Len(c) \in Nat /\ enc \in 1 .. 8 /\ enc \in Nat /\ Values[enc] \in Nat
  BY BlockFields, ValuesEven
<1>2. x \in Nat /\ (i + 1) * enc = x + enc
  BY <1>1, Times
<1>3. x + enc <= Len(c)
  OBVIOUS
<1> HIDE DEF x, c
<1>4. \A k \in (x + 1) .. (x + enc) : c[k] \in Nat
  <2>1. ASSUME NEW k \in (x + 1) .. (x + enc) PROVE c[k] \in Nat
    <3>1. k \in 1 .. Len(c)
      BY <1>1, <1>2, <1>3
    <3>2. c[k] \in Cell
      BY <1>1, <3>1, ElementOfSeq
    <3>3. QED
      BY <3>2, IntsetAssumption DEF Cell
  <2>2. QED
    BY <2>1
<1>5. /\ b \in Seq(Nat)
      /\ Len(b) = IF x + 1 <= x + enc THEN (x + enc) - (x + 1) + 1 ELSE 0
  BY <1>1, <1>2, <1>4, SubSeqProperties
<1>6. Len(b) = enc
  BY <1>1, <1>2, <1>5
<1> HIDE DEF b
<1>7. PICK low \in [0 .. enc -> Int] : Decode(b) = Signed(low[enc], Values[enc])
  BY <1>1, <1>5, <1>6, DecodeIs
<1>8. low[enc] \in Int
  BY <1>1
<1>9. Decode(b) \in Int
  BY <1>1, <1>7, <1>8 DEF Signed
<1>10. intsetGetEncoded(is, i, enc) = Decode(b)
  BY <1>2 DEF intsetGetEncoded, b, x, c
<1>11. QED
  BY <1>9, <1>10

\* The blocks an upgrade of is to the encoding new goes through.
Widening(is, new) ==
    {b \in Blocks : b.encoding = new /\ b.length = is.length
                    /\ Len(b.contents) = (is.length * new) + new}

\* One step of the upgrade.
WidenStep(is, new, p) ==
    [q \in (1 .. is.length) \X Widening(is, new) |->
        intsetSet(q[2], (is.length - q[1]) + p,
                  intsetGetEncoded(q[2], is.length - q[1], is.encoding))]

WideBlock(is, new) == intsetResize([is EXCEPT !.encoding = new], is.length + 1)

\* Widening one element leaves a block of the same size.
LEMMA WidenStepType ==
    ASSUME NEW is \in Blocks, NEW new \in Encodings, is.encoding <= new, NEW p \in {0, 1}
    PROVE  WidenStep(is, new, p) \in [(1 .. is.length) \X Widening(is, new) -> Widening(is, new)]
<1> DEFINE len == is.length
           old == is.encoding
           D == Widening(is, new)
<1>1. len \in Nat /\ old \in Encodings /\ old \in Nat /\ new \in Nat \ {0}
  <2>1. new \in 1 .. 8
    BY ValuesEven
  <2>2. QED
    BY <2>1, BlockFields
<1>2. ASSUME NEW k \in 1 .. len, NEW b \in D
      PROVE  intsetSet(b, (len - k) + p, intsetGetEncoded(b, len - k, old)) \in D
  <2> DEFINE i == len - k
  <2>1. b \in Blocks /\ b.encoding = new /\ b.length = len /\ Len(b.contents) = (len * new) + new
    BY DEF Widening
  <2>2. i \in Nat /\ i + p \in Nat /\ i + p <= len /\ i < len
    BY <1>1
  <2> HIDE DEF i, len, old, D
  <2>3. (i * old) + old <= (len * new) + new
    <3>1. (i * old) + old <= len * old
      BY <1>1, <2>2, Times
    <3>2. len * old <= len * new
      <4>1. len * old = old * len /\ len * new = new * len
        BY <1>1
      <4>2. old * len <= new * len
        BY <1>1, Times DEF old
      <4>3. QED
        BY <4>1, <4>2
    <3>3. i * old \in Int /\ len * old \in Int /\ len * new \in Int
      BY <1>1, <2>2
    <3> DEFINE X == i * old
               Y == len * old
               Z == len * new
    <3> HIDE DEF X, Y, Z
    <3>4. QED
      BY <1>1, <3>1, <3>2, <3>3 DEF X, Y, Z
  <2>4. intsetGetEncoded(b, i, old) \in Int
    BY <1>1, <2>1, <2>2, <2>3, GetInt
  <2>5. ((i + p) * new) + new <= (len * new) + new
    <3>1. (i + p) * new <= len * new
      BY <1>1, <2>2, Times
    <3>2. (i + p) * new \in Int /\ len * new \in Int
      BY <1>1, <2>2
    <3>3. QED
      BY <1>1, <3>1, <3>2
  <2> DEFINE v == intsetGetEncoded(b, i, old)
             b2 == intsetSet(b, i + p, v)
  <2>6. SetEffect(b2, b, i + p, v)
    BY <2>1, <2>2, <2>4, <2>5, SetIs
  <2> HIDE DEF b2, v
  <2>7. b2 \in D
    BY <2>1, <2>6 DEF D, Widening, SetEffect, len
  <2>8. QED
    BY <2>7 DEF b2, v, i
<1>3. QED
  BY <1>2 DEF WidenStep

\* g holds the values of the accumulator of an upgrade.
UpgradesThrough(g, is, v, new, p) ==
    /\ Accumulates(g, is.length, WideBlock(is, new), WidenStep(is, new, p), Widening(is, new))
    /\ Upgrade(is, v, p, [k \in 1 .. is.length |-> is.length - k]) =
          [intsetSet(g[is.length], IF p = 1 THEN 0 ELSE is.length, v) EXCEPT !.length = @ + 1]

\* The upgrade as the values of its accumulator.
LEMMA UpgradeFold ==
    ASSUME NEW is \in Blocks, NEW v, NEW new \in Encodings, new = intsetValueEncoding(v),
           is.encoding <= new, NEW p \in {0, 1}, WideBlock(is, new) \in Widening(is, new)
    PROVE  \E g : UpgradesThrough(g, is, v, new, p)
<1> DEFINE N == is.length
           D == Widening(is, new)
           b == WideBlock(is, new)
           F == WidenStep(is, new, p)
           Eqn(it) == it = [S \in SUBSET (1 .. N) |->
                        IF S = {} THEN b
                        ELSE intsetSet(it[S \ {Max(S)}], (N - Max(S)) + p,
                                       intsetGetEncoded(it[S \ {Max(S)}], N - Max(S), is.encoding))]
           it == CHOOSE it : Eqn(it)
           order == [k \in 1 .. N |-> N - k]
<1>1. N \in Nat /\ b \in D
  BY BlockFields
<1>2. F \in [(1 .. N) \X D -> D]
  BY WidenStepType
<1>3. \A S \in SUBSET (1 .. N) : S # {} => Max(S) \in 1 .. N /\ S \ {Max(S)} \in SUBSET (1 .. N)
  BY <1>1, MaxOfPart
<1>4. \E jt : Eqn(jt)
  <2>1. PICK jt \in [SUBSET (1 .. N) -> D] : Iterates(jt, N, b, F)
    <3> HIDE DEF F, N, D, b
    <3>1. QED
      BY <1>1, <1>2, IteratorExists
  <2>2. ASSUME NEW S \in SUBSET (1 .. N), S # {}
        PROVE  F[<<Max(S), jt[S \ {Max(S)}]>>] =
                  intsetSet(jt[S \ {Max(S)}], (N - Max(S)) + p,
                            intsetGetEncoded(jt[S \ {Max(S)}], N - Max(S), is.encoding))
    <3>1. Max(S) \in 1 .. N /\ S \ {Max(S)} \in SUBSET (1 .. N)
      BY <1>3, <2>2
    <3>2. jt[S \ {Max(S)}] \in D
      BY <3>1
    <3>3. QED
      BY <3>1, <3>2 DEF WidenStep
  <2>3. Eqn(jt)
    <3> HIDE DEF F, N, D, b
    <3>1. QED
      BY <2>1, <2>2 DEF Iterates
  <2>4. QED
    BY <2>3
<1>5. Eqn(it)
  <2> HIDE DEF Eqn
  <2>1. QED
    BY <1>4
<1>6. Upgrade(is, v, p, order) = [intsetSet(it[1 .. N], IF p = 1 THEN 0 ELSE N, v) EXCEPT !.length = @ + 1]
  <2>1. DOMAIN order = 1 .. N
    OBVIOUS
  <2>2. ASSUME NEW jt
        PROVE  Eqn(jt) <=> jt = [S \in SUBSET (1 .. N) |->
                        IF S = {} THEN b
                        ELSE intsetSet(jt[S \ {Max(S)}], order[Max(S)] + p,
                                       intsetGetEncoded(jt[S \ {Max(S)}], order[Max(S)], is.encoding))]
    <3>1. \A S \in SUBSET (1 .. N) : S # {} => order[Max(S)] = N - Max(S)
      BY <1>3
    <3> HIDE DEF order
    <3>2. QED
      BY <3>1
  <2> DEFINE Raw(jt) == jt = [S \in SUBSET (1 .. N) |->
                        IF S = {} THEN b
                        ELSE intsetSet(jt[S \ {Max(S)}], order[Max(S)] + p,
                                       intsetGetEncoded(jt[S \ {Max(S)}], order[Max(S)], is.encoding))]
  <2>3. it = CHOOSE jt : Raw(jt)
    <3> HIDE DEF Eqn
    <3>1. \A jt : Eqn(jt) <=> Raw(jt)
      BY <2>2
    <3> HIDE DEF Raw
    <3>2. QED
      BY <3>1
  <2> HIDE DEF it, order, Eqn
  <2>4. Upgrade(is, v, p, order) =
            [intsetSet((CHOOSE jt : Raw(jt))[DOMAIN order], IF p = 1 THEN 0 ELSE N, v) EXCEPT !.length = @ + 1]
    BY <2>1 DEF Upgrade, FoldLeft, MapThenFoldSet, WideBlock
  <2> HIDE DEF Raw
  <2>5. QED
    BY <2>1, <2>3, <2>4
<1> HIDE DEF it
<1>7. it[{}] = b
  BY <1>5
<1>8. ASSUME NEW n \in 1 .. N, it[1 .. (n - 1)] \in D
      PROVE  it[1 .. n] = F[<<n, it[1 .. (n - 1)]>>]
  <2>1. /\ 1 .. n \in SUBSET (1 .. N) /\ 1 .. n # {}
        /\ Max(1 .. n) = n /\ (1 .. n) \ {n} = 1 .. (n - 1)
    BY <1>1, MaxOfInitial
  <2>2. it[1 .. n] = intsetSet(it[(1 .. n) \ {Max(1 .. n)}], (N - Max(1 .. n)) + p,
                               intsetGetEncoded(it[(1 .. n) \ {Max(1 .. n)}], N - Max(1 .. n), is.encoding))
    BY <1>5, <2>1
  <2>3. it[1 .. n] = intsetSet(it[1 .. (n - 1)], (N - n) + p,
                               intsetGetEncoded(it[1 .. (n - 1)], N - n, is.encoding))
    BY <2>1, <2>2
  <2>4. QED
    BY <1>8, <2>3 DEF WidenStep
<1>9. Accumulates([n \in 0 .. N |-> it[1 .. n]], N, b, F, D)
  <2> HIDE DEF F, N, D, b, Eqn
  <2>1. QED
    BY <1>1, <1>2, <1>7, <1>8, AccumulatorOf
<1>10. [n \in 0 .. N |-> it[1 .. n]][N] = it[1 .. N]
  BY <1>1
<1> DEFINE g == [n \in 0 .. N |-> it[1 .. n]]
<1>11. Accumulates(g, N, b, F, D) /\
       Upgrade(is, v, p, order) = [intsetSet(g[N], IF p = 1 THEN 0 ELSE N, v) EXCEPT !.length = @ + 1]
  <2> HIDE DEF F, D, b, Eqn, order
  <2>1. QED
    BY <1>6, <1>9, <1>10
<1>12. QED
  <2> HIDE DEF g
  <2>1. UpgradesThrough(g, is, v, new, p)
    BY <1>11 DEF UpgradesThrough
  <2>2. QED
    BY <2>1

\* What k steps of the upgrade have done: the first elements are as they were, the last k
\* have their new place and width.
Widened(b, is, e, new, p, k) ==
    /\ \A j \in 1 .. ((is.length - k) * is.encoding) : b.contents[j] = is.contents[j]
    /\ \A i \in (is.length - k) .. (is.length - 1) : Stored(b.contents, new, i + p, e[i + 1])

\* A step reads an element no earlier step has overwritten.
LEMMA WidenOne ==
    ASSUME NEW is, NEW e, Holding(is, e), NEW new \in Encodings, is.encoding <= new, NEW p \in {0, 1},
           NEW b \in Widening(is, new), NEW k \in 1 .. is.length, Widened(b, is, e, new, p, k - 1)
    PROVE  Widened(WidenStep(is, new, p)[<<k, b>>], is, e, new, p, k)
<1> DEFINE len == is.length
           old == is.encoding
           i == len - k
           v == intsetGetEncoded(b, i, old)
           c == intsetSet(b, i + p, v)
<1>1. /\ is \in Blocks /\ e \in Seq(Holds(old)) /\ len = Len(e) /\ old \in Encodings /\ len \in Nat
      /\ old \in Nat \ {0}
  BY BlockFields DEF Holding
<1>2. new \in Nat \ {0} /\ k \in 1 .. len
  <2>1. new \in 1 .. 8
    BY ValuesEven
  <2>2. QED
    BY <2>1
<1>3. /\ b \in Blocks /\ b.encoding = new /\ b.length = len /\ Len(b.contents) = (len * new) + new
      /\ b.contents \in Seq(Cell)
  BY BlockFields DEF Widening
<1>4. /\ i \in Nat /\ i + 1 \in 1 .. len /\ i + p \in Nat /\ i + p <= len /\ len - (k - 1) = i + 1
      /\ (i + 1) - 1 = i /\ i < len /\ i <= i + p
  BY <1>1, <1>2
<1> HIDE DEF i, len, old
<1>5. /\ i * old \in Nat /\ (i + 1) * old = (i * old) + old /\ (i + p) * new \in Nat
      /\ i * old <= (i + p) * new /\ ((i + p) * new) + new <= (len * new) + new
      /\ (i * old) + old <= (len * new) + new /\ len * new \in Nat
  <2>1. /\ i * old \in Int /\ i * old >= 0 /\ (i + 1) * old = (i * old) + old
        /\ (i * old) + old <= len * old
    BY <1>1, <1>4, Times
  <2>2. (i + p) * new \in Int /\ (i + p) * new >= 0 /\ (i + p) * new <= len * new /\ len * new \in Int
    BY <1>1, <1>2, <1>4, Times
  <2>3. i * new \in Int /\ i * new <= (i + p) * new
    BY <1>2, <1>4, Times
  <2>4. ASSUME NEW n \in Nat PROVE n * old <= n * new
    <3>1. n * old = old * n /\ n * new = new * n
      BY <1>1, <1>2
    <3>2. old * n <= new * n
      BY <1>1, <1>2, Times DEF old
    <3>3. QED
      BY <3>1, <3>2
  <2>5. i * old <= i * new /\ len * old <= len * new
    BY <1>1, <1>4, <2>4
  <2>6. len * old \in Int /\ len * new >= 0
    BY <1>1, <1>2
  <2> DEFINE A == i * old
             B == (i + p) * new
             C == len * new
             E == len * old
             G == i * new
  <2>7. /\ A \in Int /\ A >= 0 /\ A + old <= E /\ B \in Int /\ B >= 0 /\ B <= C /\ C \in Int /\ C >= 0
        /\ G \in Int /\ G <= B /\ A <= G /\ E <= C /\ E \in Int /\ (i + 1) * old = A + old
    BY <2>1, <2>2, <2>3, <2>5, <2>6
  <2> HIDE DEF A, B, C, E, G
  <2>8. A \in Nat /\ B \in Nat /\ C \in Nat /\ A <= B /\ B + new <= C + new /\ A + old <= C + new
    BY <1>1, <1>2, <2>7
  <2>9. QED
    BY <2>7, <2>8 DEF A, B, C
<1>6. \A j \in 1 .. ((i * old) + old) : b.contents[j] = is.contents[j]
  BY <1>4, <1>5 DEF Widened, len, old
<1>7. Stored(is.contents, old, i, e[i + 1]) /\ e[i + 1] \in Holds(old)
  <2>1. e[i + 1] \in Holds(old)
    BY <1>1, <1>4, ElementOfSeq
  <2>2. QED
    BY <1>1, <1>4, <2>1 DEF Holding, old, len
<1>8. Stored(b.contents, old, i, e[i + 1])
  <2>1. \A j \in 1 .. old : (i * old) + j \in 1 .. ((i * old) + old)
    BY <1>1, <1>5
  <2>2. SameBytes(is.contents, b.contents, old, i, i)
    BY <1>3, <1>5, <1>6, <2>1 DEF SameBytes
  <2>3. QED
    BY <1>7, <2>2, StoredMoved, Zenon
<1>9. v = e[i + 1] /\ v \in Int
  <2>1. v = e[i + 1]
    BY <1>1, <1>3, <1>4, <1>7, <1>8, GetStored DEF intsetGetEncoded
  <2>2. Holds(old) \subseteq Int
    BY <1>1, HoldsWider DEF old
  <2> HIDE DEF v
  <2>3. QED
    BY <1>7, <2>1, <2>2
<1> HIDE DEF v
<1>10. SetEffect(c, b, i + p, v)
  BY <1>3, <1>4, <1>5, <1>9, SetIs
<1> HIDE DEF c
<1>11. WidenStep(is, new, p)[<<k, b>>] = c
  BY DEF WidenStep, c, v, i, len, old
<1>12. ASSUME NEW j \in 1 .. (i * old) PROVE c.contents[j] = is.contents[j]
  <2>1. j \in 1 .. ((i * old) + old) /\ j \in 1 .. ((len * new) + new) /\ j <= (i + p) * new
    BY <1>1, <1>2, <1>5
  <2>2. c.contents[j] = b.contents[j]
    BY <1>3, <1>10, <2>1 DEF SetEffect
  <2>3. QED
    BY <1>6, <2>1, <2>2
<1>13. ASSUME NEW n \in i .. (len - 1) PROVE Stored(c.contents, new, n + p, e[n + 1])
  <2>1. CASE n = i
    BY <1>3, <1>9, <1>10, <2>1 DEF SetEffect
  <2>2. CASE n > i
    <3>1. n \in (i + 1) .. (len - 1) /\ n \in Int /\ n + p \in Int /\ i + p < n + p /\ n + p <= len
      BY <1>1, <1>4, <2>2
    <3>2. Stored(b.contents, new, n + p, e[n + 1])
      BY <1>4, <3>1 DEF Widened, len
    <3> DEFINE y == (n + p) * new
               x == (i + p) * new
    <3>3. y \in Int /\ x + new <= y /\ y <= len * new /\ x \in Nat
      <4>1. y \in Int /\ y <= len * new
        BY <1>1, <1>2, <3>1, Times
      <4>2. i + p \in Int /\ new \in Nat
        BY <1>2, <1>4
      <4>3. x + new <= y
        BY <3>1, <4>2, Times
      <4>4. QED
        BY <1>5, <4>1, <4>3
    <3> HIDE DEF x, y
    <3>4. /\ y + new <= Len(c.contents)
          /\ \A j \in 1 .. new : y + j \in 1 .. ((len * new) + new) /\ y + j > x + new
      BY <1>2, <1>3, <1>5, <1>10, <3>3 DEF SetEffect
    <3>5. \A j \in 1 .. new : c.contents[y + j] = b.contents[y + j]
      BY <1>3, <1>10, <3>4 DEF SetEffect, x
    <3>6. SameBytes(b.contents, c.contents, new, n + p, n + p)
      BY <3>4, <3>5 DEF SameBytes, y
    <3>7. QED
      BY <3>2, <3>6, StoredMoved, Zenon
  <2>3. n = i \/ n > i
    BY <1>4
  <2>4. QED
    BY <2>1, <2>2, <2>3
<1>14. Widened(c, is, e, new, p, k)
  BY <1>12, <1>13 DEF Widened, i, len, old
<1>15. QED
  BY <1>11, <1>14

\* A longer block of the new encoding still has the bytes of the old elements.
LEMMA WideBlockIs ==
    ASSUME NEW is, NEW e, Holding(is, e), NEW new \in Encodings, is.encoding <= new, NEW p \in {0, 1}
    PROVE  /\ WideBlock(is, new) \in Widening(is, new)
           /\ Widened(WideBlock(is, new), is, e, new, p, 0)
<1> DEFINE len == is.length
           old == is.encoding
           b == [is EXCEPT !.encoding = new]
           w == WideBlock(is, new)
<1>1. /\ is \in Blocks /\ len = Len(e) /\ old \in Nat /\ len \in Nat /\ Len(is.contents) = len * old
  BY BlockFields DEF Holding
<1>2. new \in Nat /\ old <= new
  <2>1. new \in 1 .. 8
    BY ValuesEven
  <2>2. QED
    BY <2>1
<1>3. b \in Blocks /\ b.encoding = new /\ b.length = len /\ b.contents = is.contents
  BY <1>1 DEF Blocks
<1>4. len + 1 \in Nat /\ len - 0 = len
  BY <1>1
<1> HIDE DEF b, old, len
<1>5. ResizeEffect(intsetResize(b, len + 1), b, len + 1)
  BY <1>3, <1>4, ResizeIs
<1>6. intsetResize(b, len + 1) = w
  BY DEF WideBlock, b, len
<1> HIDE DEF w
<1>7. /\ (len + 1) * new = (len * new) + new /\ len * new \in Nat /\ len * old \in Nat
      /\ len * old <= len * new
  <2>1. (len + 1) * new = (len * new) + new /\ len * new \in Int /\ len * new >= 0
    BY <1>1, <1>2, Times
  <2>2. len * old = old * len /\ len * new = new * len
    BY <1>1, <1>2
  <2>3. old * len <= new * len
    BY <1>1, <1>2, Times
  <2>4. len * old \in Int /\ len * old >= 0
    BY <1>1, Times
  <2> DEFINE A == len * old
             B == len * new
  <2>5. A \in Int /\ A >= 0 /\ B \in Int /\ B >= 0 /\ A <= B
    BY <2>1, <2>2, <2>3, <2>4
  <2> HIDE DEF A, B
  <2>6. A \in Nat /\ B \in Nat
    BY <2>5
  <2>7. QED
    BY <2>1, <2>5, <2>6 DEF A, B
<1>8. w \in Blocks /\ w.encoding = new /\ w.length = len /\ Len(w.contents) = (len * new) + new
  BY <1>3, <1>5, <1>6, <1>7 DEF ResizeEffect
<1>9. ASSUME NEW j \in 1 .. (len * old) PROVE w.contents[j] = is.contents[j]
  <2>1. j \in 1 .. ((len * new) + new) /\ j <= len * old
    BY <1>2, <1>7
  <2>2. QED
    BY <1>1, <1>3, <1>5, <1>6, <1>7, <2>1 DEF ResizeEffect
<1>10. \A i \in len .. (len - 1) : FALSE
  BY <1>1
<1>11. Widened(w, is, e, new, p, 0)
  BY <1>4, <1>9, <1>10 DEF Widened, len, old
<1>12. QED
  BY <1>8, <1>11 DEF Widening, w, len

\* A value the encoding cannot hold is put in front of the others or behind them, and every
\* element keeps its value.
LEMMA UpgradeHolding ==
    ASSUME NEW is, NEW e, Holding(is, e), NEW v \in Holds(INTSET_ENC_INT64),
           is.encoding <= intsetValueEncoding(v)
    PROVE  LET pos == IF v < 0 THEN 0 ELSE Len(e)
           IN  /\ Holding(intsetUpgradeAndAdd(is, v), InsertedAt(e, pos, v))
               /\ intsetUpgradeAndAdd(is, v).encoding = intsetValueEncoding(v)
<1> DEFINE len == is.length
           new == intsetValueEncoding(v)
           p == IF v < 0 THEN 1 ELSE 0
           at == IF p = 1 THEN 0 ELSE len
           pos == IF v < 0 THEN 0 ELSE Len(e)
           f == InsertedAt(e, pos, v)
           D == Widening(is, new)
           F == WidenStep(is, new, p)
<1>1. new \in Encodings /\ v \in Holds(new)
  BY ValueEncodingIs DEF ValueFits
<1>2. /\ is \in Blocks /\ e \in Seq(Holds(is.encoding)) /\ len = Len(e) /\ len \in Nat
      /\ is.encoding \in Encodings
  BY BlockFields DEF Holding
<1>3. e \in Seq(Holds(new)) /\ v \in Int
  <2>1. Holds(is.encoding) \subseteq Holds(new) /\ Holds(new) \subseteq Int
    BY <1>1, <1>2, HoldsWider
  <2> HIDE DEF new
  <2>2. QED
    BY <1>1, <1>2, <2>1
<1>4. p \in {0, 1} /\ at = pos /\ pos \in 0 .. Len(e) /\ is.encoding <= new
  BY <1>2
<1>5. f \in Seq(Holds(new)) /\ Len(f) = len + 1
  <2> HIDE DEF new, pos
  <2>1. QED
    BY <1>1, <1>2, <1>3, <1>4, InsertedType
<1>6. new \in Nat \ {0}
  <2>1. new \in 1 .. 8
    BY <1>1, ValuesEven
  <2>2. QED
    BY <2>1
<1>7. intsetUpgradeAndAdd(is, v) = Upgrade(is, v, p, [k \in 1 .. len |-> len - k])
  BY DEF intsetUpgradeAndAdd
<1> HIDE DEF new, p, f, at, pos
<1>8. WideBlock(is, new) \in D /\ Widened(WideBlock(is, new), is, e, new, p, 0)
  BY <1>1, <1>4, WideBlockIs
<1>9. PICK g : /\ Accumulates(g, len, WideBlock(is, new), F, D)
               /\ Upgrade(is, v, p, [k \in 1 .. len |-> len - k]) =
                        [intsetSet(g[len], IF p = 1 THEN 0 ELSE len, v) EXCEPT !.length = @ + 1]
  <2>1. \E g : UpgradesThrough(g, is, v, new, p)
    <3>1. new = intsetValueEncoding(v)
      BY DEF new
    <3>2. QED
      BY ONLY <1>1, <1>2, <1>4, <1>8, <3>1, UpgradeFold, Zenon
  <2>2. QED
    BY <2>1 DEF UpgradesThrough
<1> HIDE DEF D, F, len
<1>10. Widened(g[len], is, e, new, p, len) /\ g[len] \in D
  <2> DEFINE T == {k \in 0 .. len : g[k] \in D /\ Widened(g[k], is, e, new, p, k)}
  <2>1. 0 \in T
    BY <1>2, <1>8, <1>9 DEF Accumulates
  <2>2. ASSUME NEW k \in 0 .. (len - 1), k \in T PROVE k + 1 \in T
    <3>1. k + 1 \in 1 .. len /\ (k + 1) - 1 = k /\ k + 1 \in 0 .. len
      BY <1>2
    <3>2. g[k + 1] = F[<<k + 1, g[k]>>] /\ g[k + 1] \in D
      BY <1>9, <3>1 DEF Accumulates
    <3>3. g[k] \in Widening(is, new) /\ Widened(g[k], is, e, new, p, (k + 1) - 1) /\ k + 1 \in 1 .. is.length
      BY <2>2, <3>1 DEF D, len
    <3>4. Widened(F[<<k + 1, g[k]>>], is, e, new, p, k + 1)
      BY <1>1, <1>4, <3>3, WidenOne DEF F
    <3>5. QED
      BY <3>1, <3>2, <3>4
  <2>3. \A k \in 0 .. len : k \in T
    <3> HIDE DEF T
    <3>1. QED
      BY <1>2, <2>1, <2>2, UpTo
  <2>4. QED
    BY <1>2, <2>3
<1> DEFINE b == g[len]
           w == intsetSet(b, at, v)
           N == [w EXCEPT !.length = len + 1]
<1>11. /\ b \in Blocks /\ b.encoding = new /\ b.length = len /\ Len(b.contents) = (len * new) + new
       /\ \A i \in 0 .. (len - 1) : Stored(b.contents, new, i + p, e[i + 1])
  <2>1. len - len = 0
    BY <1>2
  <2>2. QED
    BY <1>10, <2>1 DEF Widening, Widened, D, len
<1> HIDE DEF b
<1>12. at \in Nat /\ at <= len /\ len * new \in Nat /\ at * new \in Nat /\ at * new <= len * new
  <2>1. at \in Nat /\ at <= len
    BY <1>2, <1>4 DEF at
  <2>2. /\ len * new \in Int /\ len * new >= 0
    BY <1>2, <1>6, Times
  <2>3. at * new \in Int /\ at * new >= 0 /\ at * new <= len * new
    BY <1>2, <1>6, <2>1, Times
  <2> DEFINE A == at * new
             B == len * new
  <2>4. A \in Int /\ A >= 0 /\ B \in Int /\ B >= 0 /\ A <= B
    BY <2>2, <2>3
  <2> HIDE DEF A, B
  <2>5. A \in Nat /\ B \in Nat
    BY <2>4
  <2>6. QED
    BY <2>1, <2>3, <2>5 DEF A, B
<1>13. SetEffect(w, b, at, v)
  <2>1. (at * new) + new <= (len * new) + new
    <3> DEFINE A == at * new
               B == len * new
    <3>1. A \in Nat /\ B \in Nat /\ A <= B
      BY <1>12
    <3> HIDE DEF A, B
    <3>2. A + new <= B + new
      BY <1>6, <3>1
    <3>3. QED
      BY <3>2 DEF A, B
  <2>2. QED
    BY <1>3, <1>11, <1>12, <2>1, SetIs
<1>14. intsetUpgradeAndAdd(is, v) = N
  <2>1. w.length = len
    BY <1>11, <1>13 DEF SetEffect
  <2>2. intsetUpgradeAndAdd(is, v) = [w EXCEPT !.length = w.length + 1]
    BY <1>7, <1>9 DEF at, b
  <2>3. QED
    BY <2>1, <2>2
<1> HIDE DEF w
<1>15. N \in Blocks /\ N.length = len + 1 /\ N.encoding = new /\ N.contents = w.contents
  <2>1. len + 1 \in Nat /\ w \in Blocks /\ w.encoding = new
    BY <1>2, <1>11, <1>13 DEF SetEffect
  <2>2. QED
    BY <2>1, Lengthen
<1> HIDE DEF N
<1>16. ASSUME NEW n \in 0 .. (len - 1) PROVE Stored(w.contents, new, n + p, e[n + 1]) /\ n + p # at
  <2>1. n + p \in Nat /\ n \in Nat /\ (n + p < at \/ at < n + p) /\ n + p <= len
    BY <1>2, <1>4 DEF at
  <2> DEFINE y == (n + p) * new
             x == at * new
             L == len * new
  <2>2. y \in Int /\ y >= 0 /\ y <= L
    BY <1>2, <1>6, <2>1, Times
  <2>3. n + p < at => y + new <= x
    BY <1>6, <1>12, <2>1, Times
  <2>4. at < n + p => x + new <= y
    BY <1>6, <1>12, <2>1, Times
  <2>5. x \in Nat /\ L \in Nat
    BY <1>12
  <2>6. Len(b.contents) = L + new
    BY <1>11
  <2> HIDE DEF x, y, L
  <2>7. /\ y + new <= Len(w.contents)
        /\ \A j \in 1 .. new : y + j \in 1 .. (L + new) /\ (y + j <= x \/ y + j > x + new)
    BY <1>6, <1>13, <2>1, <2>2, <2>3, <2>4, <2>5, <2>6 DEF SetEffect
  <2>8. \A j \in 1 .. new : w.contents[y + j] = b.contents[y + j]
    BY <1>11, <1>13, <2>6, <2>7 DEF SetEffect, x
  <2>9. SameBytes(b.contents, w.contents, new, n + p, n + p)
    BY <2>7, <2>8 DEF SameBytes, y
  <2>10. Stored(b.contents, new, n + p, e[n + 1])
    BY <1>11
  <2>11. Stored(w.contents, new, n + p, e[n + 1])
    BY <2>9, <2>10, StoredMoved, Zenon
  <2>12. QED
    BY <1>12, <2>1, <2>11
<1>17. ASSUME NEW i \in 1 .. (len + 1) PROVE Stored(w.contents, new, i - 1, f[i])
  <2>1. CASE i - 1 = at
    <3>1. f[i] = v
      BY <1>2, <1>4, <2>1 DEF f, InsertedAt
    <3>2. Stored(w.contents, new, at, v)
      BY <1>11, <1>13 DEF SetEffect
    <3>3. QED
      BY <2>1, <3>1, <3>2
  <2>2. CASE i - 1 # at
    <3> DEFINE n == (i - 1) - p
    <3>1. n \in 0 .. (len - 1) /\ n + p = i - 1 /\ n + 1 \in 1 .. len
      BY <1>2, <1>4, <2>2 DEF at
    <3>2. f[i] = e[n + 1]
      <4>1. CASE p = 1
        <5>1. pos = 0 /\ n + 1 = i - 1 /\ i # 1
          BY <1>4, <2>2, <4>1 DEF at
        <5>2. QED
          BY <1>2, <5>1 DEF f, InsertedAt
      <4>2. CASE p = 0
        <5>1. pos = len /\ n + 1 = i /\ i <= len
          BY <1>2, <1>4, <2>2, <4>2 DEF at
        <5>2. QED
          BY <1>2, <5>1 DEF f, InsertedAt
      <4>3. QED
        BY <1>4, <4>1, <4>2
    <3> HIDE DEF n
    <3>3. Stored(w.contents, new, n + p, e[n + 1])
      BY <1>16, <3>1
    <3>4. QED
      BY <3>1, <3>2, <3>3
  <2>3. QED
    BY <2>1, <2>2
<1>18. Len(N.contents) = Len(f) * N.encoding
  <2>1. (len + 1) * new = (len * new) + new
    BY <1>2, <1>6, Times
  <2>2. QED
    BY <1>5, <1>11, <1>13, <1>15, <2>1 DEF SetEffect
<1>19. Holding(N, f)
  BY <1>5, <1>15, <1>17, <1>18, HoldingIs
<1>20. QED
  BY <1>14, <1>15, <1>19 DEF f, pos, new

-----------------------------------------------------------------------------
(* The binary search. *)

Ascending(e) == \A i, j \in 1 .. Len(e) : i < j => e[i] < e[j]

\* r elements are below v.
Rank(e, v, r) ==
    /\ r \in 0 .. Len(e)
    /\ \A i \in 1 .. r : e[i] < v
    /\ \A i \in (r + 1) .. Len(e) : e[i] >= v

\* Every value has its rank among ascending elements.
LEMMA RankExists ==
    ASSUME NEW e \in Seq(Int), Ascending(e), NEW v \in Int
    PROVE  \E r : Rank(e, v, r)
<1> DEFINE n == Len(e)
           T == {k \in 0 .. n : \E r \in 0 .. k : /\ \A i \in 1 .. r : e[i] < v
                                                  /\ \A i \in (r + 1) .. k : e[i] >= v}
<1>1. n \in Nat
  OBVIOUS
<1>2. 0 \in T
  BY <1>1
<1>3. ASSUME NEW k \in 0 .. (n - 1), k \in T PROVE k + 1 \in T
  <2>1. k + 1 \in 1 .. n /\ k + 1 \in 0 .. n /\ e[k + 1] \in Int
    BY <1>1, ElementOfSeq
  <2>2. CASE e[k + 1] < v
    <3>1. \A i \in 1 .. (k + 1) : e[i] < v
      <4>1. ASSUME NEW i \in 1 .. (k + 1) PROVE e[i] < v
        <5>1. i \in 1 .. n /\ e[i] \in Int
          BY <1>1, ElementOfSeq
        <5>2. CASE i = k + 1
          BY <2>2, <5>2
        <5>3. CASE i < k + 1
          <6>1. e[i] < e[k + 1]
            BY <2>1, <5>1, <5>3 DEF Ascending
          <6>2. QED
            BY <2>1, <2>2, <5>1, <6>1
        <5>4. QED
          BY <5>2, <5>3
      <4>2. QED
        BY <4>1
    <3>2. \A i \in ((k + 1) + 1) .. (k + 1) : e[i] >= v
      BY <1>1
    <3>3. k + 1 \in 0 .. (k + 1)
      BY <1>1
    <3>4. QED
      BY <2>1, <3>1, <3>2, <3>3
  <2>3. CASE ~ (e[k + 1] < v)
    <3>1. PICK r \in 0 .. k : /\ \A i \in 1 .. r : e[i] < v
                              /\ \A i \in (r + 1) .. k : e[i] >= v
      BY <1>3
    <3>2. r \in 0 .. (k + 1)
      BY <1>1
    <3>3. \A i \in (r + 1) .. (k + 1) : e[i] >= v
      <4>1. e[k + 1] >= v
        BY <2>1, <2>3
      <4>2. \A i \in (r + 1) .. (k + 1) : i \in (r + 1) .. k \/ i = k + 1
        BY <1>1
      <4>3. QED
        BY <3>1, <4>1, <4>2
    <3>4. QED
      BY <2>1, <3>1, <3>2, <3>3
  <2>4. QED
    BY <2>2, <2>3
<1>4. \A k \in 0 .. n : k \in T
  <2> HIDE DEF T, n
  <2>1. QED
    BY <1>1, <1>2, <1>3, UpTo
<1>5. n \in T
  <2> HIDE DEF T
  <2>1. QED
    BY <1>1, <1>4
<1>6. QED
  BY <1>5 DEF Rank

\* The numbers of an encoding are integers.
LEMMA HoldsInt ==
    ASSUME NEW a \in Encodings
    PROVE  Holds(a) \subseteq Int
<1>1. a \in Nat
  <2>1. a \in 1 .. 8
    BY ValuesEven
  <2>2. QED
    BY <2>1
<1>2. QED
  BY <1>1, HoldsWider

\* What the search of the positions min .. max answers.
Clamp(r, min, max) == IF max < min \/ r < min THEN min ELSE IF r > max THEN max + 1 ELSE r

Bisected(e, v, r, min, max) ==
    [found |-> min <= r /\ r <= max /\ e[r + 1] = v, pos |-> Clamp(r, min, max)]

\* An interval and its half that has the rank answer the same.
LEMMA ClampHalf ==
    ASSUME NEW r \in Int, NEW min \in Int, NEW max \in Int, NEW mid \in min .. max
    PROVE  /\ r > mid => Clamp(r, mid + 1, max) = Clamp(r, min, max)
           /\ r <= mid => Clamp(r, min, mid - 1) = Clamp(r, min, max)
<1>1. ASSUME r > mid PROVE Clamp(r, mid + 1, max) = Clamp(r, min, max)
  <2>1. ~ (max < min \/ r < min) /\ ~ (r < mid + 1) /\ (max < mid + 1 => max = mid)
    BY <1>1
  <2>2. CASE max < mid + 1
    <3>1. Clamp(r, mid + 1, max) = mid + 1 /\ r > max /\ max = mid
      BY <1>1, <2>1, <2>2 DEF Clamp
    <3>2. QED
      BY <2>1, <3>1 DEF Clamp
  <2>3. CASE ~ (max < mid + 1)
    BY <2>1, <2>3 DEF Clamp
  <2>4. QED
    BY <2>2, <2>3
<1>2. ASSUME r <= mid PROVE Clamp(r, min, mid - 1) = Clamp(r, min, max)
  <2>1. ~ (max < min) /\ ~ (r > max) /\ (mid - 1 < min => mid = min)
    BY <1>2
  <2>2. CASE r < min
    BY <2>2 DEF Clamp
  <2>3. CASE ~ (r < min) /\ mid - 1 < min
    <3>1. r = min /\ mid - 1 < min
      BY <1>2, <2>1, <2>3
    <3>2. QED
      BY <2>1, <3>1 DEF Clamp
  <2>4. CASE ~ (r < min) /\ ~ (mid - 1 < min)
    <3>1. Clamp(r, min, mid - 1) = IF r > mid - 1 THEN (mid - 1) + 1 ELSE r
      BY <2>4 DEF Clamp
    <3>2. Clamp(r, min, max) = r
      BY <2>1, <2>4 DEF Clamp
    <3>3. QED
      BY <1>2, <3>1, <3>2
  <2>5. QED
    BY <2>2, <2>3, <2>4
<1>3. QED
  BY <1>1, <1>2

Intervals(n) == (0 .. n) \X (-1 .. n - 1)

\* One step of the search.
Bisect(f, is, v, min, max) ==
    LET mid == (min + max) \div 2
        cur == intsetGetAt(is, mid)
    IN  IF max < min THEN [found |-> FALSE, pos |-> min]
        ELSE IF v > cur THEN f[<<mid + 1, max>>]
        ELSE IF v < cur THEN f[<<min, mid - 1>>]
        ELSE [found |-> TRUE, pos |-> mid]

\* The answer for an interval follows from the answers for its halves.
LEMMA BisectStep ==
    ASSUME NEW is, NEW e, Holding(is, e), Ascending(e), NEW v \in Int, NEW r, Rank(e, v, r),
           NEW min \in 0 .. Len(e), NEW max \in -1 .. (Len(e) - 1), NEW f,
           min <= max =>
             LET mid == (min + max) \div 2
             IN  /\ f[<<mid + 1, max>>] = Bisected(e, v, r, mid + 1, max)
                 /\ f[<<min, mid - 1>>] = Bisected(e, v, r, min, mid - 1)
    PROVE  Bisect(f, is, v, min, max) = Bisected(e, v, r, min, max)
<1> DEFINE n == Len(e)
           mid == (min + max) \div 2
           cur == intsetGetAt(is, mid)
<1>1. n \in Nat /\ e \in Seq(Holds(is.encoding)) /\ is.encoding \in Encodings
  BY BlockFields DEF Holding
<1>2. \A i \in 1 .. n : e[i] \in Int
  <2>1. Holds(is.encoding) \subseteq Int
    BY <1>1, HoldsInt
  <2>2. ASSUME NEW i \in 1 .. n PROVE e[i] \in Holds(is.encoding)
    BY <1>1, ElementOfSeq
  <2>3. QED
    BY <2>1, <2>2
<1>3. r \in 0 .. n /\ (\A i \in 1 .. r : e[i] < v) /\ \A i \in (r + 1) .. n : e[i] >= v
  BY DEF Rank
<1>4. CASE max < min
  <2>1. (min <= r /\ r <= max /\ e[r + 1] = v) = FALSE
    BY <1>1, <1>3, <1>4
  <2>2. QED
    BY <1>4, <2>1 DEF Bisect, Bisected, Clamp
<1>5. CASE min <= max
  <2>1. mid \in min .. max /\ mid \in 0 .. (n - 1) /\ mid + 1 \in 1 .. n
    BY <1>1, <1>5
  <2>2. cur = e[mid + 1] /\ cur \in Int
    BY <1>2, <2>1, GetHolding
  <2>3. /\ f[<<mid + 1, max>>] = Bisected(e, v, r, mid + 1, max)
        /\ f[<<min, mid - 1>>] = Bisected(e, v, r, min, mid - 1)
    BY <1>5
  <2>4. ~ (max < min)
    BY <1>5
  <2>5. Bisect(f, is, v, min, max) = IF v > cur THEN f[<<mid + 1, max>>]
                                     ELSE IF v < cur THEN f[<<min, mid - 1>>]
                                     ELSE [found |-> TRUE, pos |-> mid]
    BY <2>4 DEF Bisect
  <2> HIDE DEF cur, mid
  <2>6. CASE v > cur
    <3>1. ~ (mid + 1 \in (r + 1) .. n)
      BY <1>1, <1>3, <2>1, <2>2, <2>6
    <3>2. r > mid
      BY <1>1, <1>3, <2>1, <3>1
    <3>3. Bisected(e, v, r, mid + 1, max) = Bisected(e, v, r, min, max)
      <4>1. Clamp(r, mid + 1, max) = Clamp(r, min, max)
        BY <1>1, <1>3, <2>1, <3>2, ClampHalf
      <4>2. (mid + 1 <= r /\ r <= max /\ e[r + 1] = v) = (min <= r /\ r <= max /\ e[r + 1] = v)
        BY <1>1, <1>3, <2>1, <3>2
      <4>3. QED
        BY <4>1, <4>2 DEF Bisected
    <3>4. QED
      BY <2>3, <2>5, <2>6, <3>3
  <2>7. CASE v < cur
    <3>1. ~ (mid + 1 \in 1 .. r)
      BY <1>1, <1>3, <2>1, <2>2, <2>7
    <3>2. r <= mid
      BY <1>1, <1>3, <2>1, <3>1
    <3>3. r = mid => e[r + 1] # v
      BY <2>2, <2>7
    <3>4. Bisected(e, v, r, min, mid - 1) = Bisected(e, v, r, min, max)
      <4>1. Clamp(r, min, mid - 1) = Clamp(r, min, max)
        BY <1>1, <1>3, <2>1, <3>2, ClampHalf
      <4>2. (min <= r /\ r <= mid - 1 /\ e[r + 1] = v) = (min <= r /\ r <= max /\ e[r + 1] = v)
        BY <1>1, <1>3, <2>1, <3>2, <3>3
      <4>3. QED
        BY <4>1, <4>2 DEF Bisected
    <3>5. ~ (v > cur)
      BY <2>2, <2>7
    <3>6. QED
      BY <2>3, <2>5, <2>7, <3>4, <3>5
  <2>8. CASE v = cur
    <3>1. ~ (mid + 1 \in 1 .. r)
      BY <1>1, <1>3, <2>1, <2>2, <2>8
    <3>2. r <= mid
      BY <1>1, <1>3, <2>1, <3>1
    <3>3. r = mid
      <4>1. CASE r < mid
        <5>1. r + 1 \in 1 .. n /\ r + 1 < mid + 1 /\ r + 1 \in (r + 1) .. n
          BY <1>1, <1>3, <2>1, <4>1
        <5>2. e[r + 1] < e[mid + 1] /\ e[r + 1] >= v /\ e[r + 1] \in Int
          BY <1>2, <1>3, <2>1, <5>1 DEF Ascending
        <5>3. QED
          BY <2>2, <2>8, <5>2
      <4>2. QED
        BY <1>3, <2>1, <3>2, <4>1
    <3>4. Bisected(e, v, r, min, max) = [found |-> TRUE, pos |-> mid]
      <4>1. (min <= r /\ r <= max /\ e[r + 1] = v) = TRUE
        BY <2>1, <2>2, <2>8, <3>3
      <4>2. Clamp(r, min, max) = mid
        BY <2>1, <2>4, <3>3 DEF Clamp
      <4>3. QED
        BY <4>1, <4>2 DEF Bisected
    <3>5. ~ (v > cur) /\ ~ (v < cur)
      BY <2>2, <2>8
    <3>6. QED
      BY <2>5, <3>4, <3>5
  <2>9. v > cur \/ v < cur \/ v = cur
    BY <2>2
  <2>10. QED
    BY <2>6, <2>7, <2>8, <2>9
<1>6. QED
  BY <1>1, <1>4, <1>5

\* The search finds the rank of the value and whether the value is there.
LEMMA SearchIs ==
    ASSUME NEW is, NEW e, Holding(is, e), Ascending(e), NEW v \in Int, NEW r, Rank(e, v, r)
    PROVE  intsetSearch(is, v) = [found |-> r < Len(e) /\ e[r + 1] = v, pos |-> r]
<1> DEFINE n == Len(e)
           Eqn(f) == f = [q \in Intervals(n) |-> Bisect(f, is, v, q[1], q[2])]
           b == CHOOSE f : Eqn(f)
           w == [q \in Intervals(n) |-> Bisected(e, v, r, q[1], q[2])]
<1>1. n \in Nat /\ is.length = n /\ e \in Seq(Holds(is.encoding)) /\ is.encoding \in Encodings
  BY BlockFields DEF Holding
<1>2. r \in 0 .. n /\ (\A i \in 1 .. r : e[i] < v) /\ \A i \in (r + 1) .. n : e[i] >= v
  BY DEF Rank
<1>3. ASSUME NEW min \in 0 .. n, NEW max \in -1 .. (n - 1), min <= max
      PROVE  LET mid == (min + max) \div 2
             IN  /\ mid + 1 \in 0 .. n /\ mid - 1 \in -1 .. (n - 1) /\ mid \in min .. max
                 /\ <<mid + 1, max>> \in Intervals(n) /\ <<min, mid - 1>> \in Intervals(n)
  BY <1>1, <1>3 DEF Intervals
<1>4. Eqn(w)
  <2>1. ASSUME NEW min \in 0 .. n, NEW max \in -1 .. (n - 1)
        PROVE  Bisect(w, is, v, min, max) = Bisected(e, v, r, min, max)
    <3> DEFINE mid == (min + max) \div 2
    <3>1. ASSUME min <= max
          PROVE  /\ w[<<mid + 1, max>>] = Bisected(e, v, r, mid + 1, max)
                 /\ w[<<min, mid - 1>>] = Bisected(e, v, r, min, mid - 1)
      BY <1>3, <3>1
    <3> HIDE DEF w
    <3>2. QED
      BY <3>1, BisectStep
  <2>2. \A q \in Intervals(n) : q[1] \in 0 .. n /\ q[2] \in -1 .. (n - 1)
    BY DEF Intervals
  <2>3. \A q \in Intervals(n) : Bisect(w, is, v, q[1], q[2]) = Bisected(e, v, r, q[1], q[2])
    BY <2>1, <2>2
  <2>4. QED
    BY <2>3
<1>5. Eqn(b)
  <2> HIDE DEF Eqn
  <2>1. QED
    BY <1>4
<1>6. intsetSearch(is, v) =
        IF n = 0 THEN [found |-> FALSE, pos |-> 0]
        ELSE IF v > intsetGetAt(is, n - 1) THEN [found |-> FALSE, pos |-> n]
        ELSE IF v < intsetGetAt(is, 0) THEN [found |-> FALSE, pos |-> 0]
        ELSE b[<<0, n - 1>>]
  BY <1>1 DEF intsetSearch, Bisect, Intervals
<1> HIDE DEF b
<1>7. b[<<0, n - 1>>] = Bisected(e, v, r, 0, n - 1) \/ n = 0
  <2> DEFINE T == {d \in 0 .. n : \A min \in 0 .. n : \A max \in -1 .. (n - 1) :
                        (max - min) + 1 <= d => b[<<min, max>>] = Bisected(e, v, r, min, max)}
  <2>1. ASSUME NEW min \in 0 .. n, NEW max \in -1 .. (n - 1)
        PROVE  b[<<min, max>>] = Bisect(b, is, v, min, max)
    <3>1. <<min, max>> \in Intervals(n)
      BY DEF Intervals
    <3>2. QED
      BY <1>5, <3>1
  <2>2. 0 \in T
    <3>1. ASSUME NEW min \in 0 .. n, NEW max \in -1 .. (n - 1), (max - min) + 1 <= 0
          PROVE  b[<<min, max>>] = Bisected(e, v, r, min, max)
      <4> DEFINE mid == (min + max) \div 2
      <4>1. ASSUME min <= max
            PROVE  /\ b[<<mid + 1, max>>] = Bisected(e, v, r, mid + 1, max)
                   /\ b[<<min, mid - 1>>] = Bisected(e, v, r, min, mid - 1)
        BY <1>1, <3>1, <4>1
      <4>2. Bisect(b, is, v, min, max) = Bisected(e, v, r, min, max)
        BY <4>1, BisectStep
      <4>3. QED
        BY <2>1, <4>2
    <3>2. QED
      BY <1>1, <3>1
  <2>3. ASSUME NEW d \in 0 .. (n - 1), d \in T PROVE d + 1 \in T
    <3>1. ASSUME NEW min \in 0 .. n, NEW max \in -1 .. (n - 1), (max - min) + 1 <= d + 1
          PROVE  b[<<min, max>>] = Bisected(e, v, r, min, max)
      <4> DEFINE mid == (min + max) \div 2
      <4>1. ASSUME min <= max
            PROVE  /\ b[<<mid + 1, max>>] = Bisected(e, v, r, mid + 1, max)
                   /\ b[<<min, mid - 1>>] = Bisected(e, v, r, min, mid - 1)
        <5>1. mid + 1 \in 0 .. n /\ mid - 1 \in -1 .. (n - 1) /\ mid \in min .. max
          BY <1>3, <4>1
        <5> HIDE DEF mid
        <5>2. (max - (mid + 1)) + 1 <= d /\ ((mid - 1) - min) + 1 <= d
          BY <1>1, <3>1, <5>1
        <5>3. QED
          BY <2>3, <5>1, <5>2
      <4>2. Bisect(b, is, v, min, max) = Bisected(e, v, r, min, max)
        BY <4>1, BisectStep
      <4>3. QED
        BY <2>1, <4>2
    <3>2. d + 1 \in 0 .. n
      BY <1>1
    <3>3. QED
      BY <3>1, <3>2
  <2>4. \A d \in 0 .. n : d \in T
    <3> HIDE DEF T, n
    <3>1. QED
      BY <1>1, <2>2, <2>3, UpTo
  <2>5. n \in T
    <3> HIDE DEF T
    <3>1. QED
      BY <1>1, <2>4
  <2>6. CASE n # 0
    <3>1. 0 \in 0 .. n /\ n - 1 \in -1 .. (n - 1) /\ ((n - 1) - 0) + 1 <= n
      BY <1>1, <2>6
    <3>2. QED
      BY <2>5, <3>1
  <2>7. QED
    BY <2>6
<1> HIDE DEF n
<1>8. CASE n = 0
  <2>1. r = 0 /\ (r < n /\ e[r + 1] = v) = FALSE
    BY <1>2, <1>8
  <2>2. QED
    BY <1>6, <1>8, <2>1 DEF n
<1>9. CASE n # 0
  <2>1. \A i \in 1 .. n : e[i] \in Int
    <3>1. Holds(is.encoding) \subseteq Int
      BY <1>1, HoldsInt
    <3>2. ASSUME NEW i \in 1 .. n PROVE e[i] \in Holds(is.encoding)
      BY <1>1, ElementOfSeq DEF n
    <3>3. QED
      BY <3>1, <3>2
  <2>2. intsetGetAt(is, n - 1) = e[n] /\ intsetGetAt(is, 0) = e[1] /\ 1 \in 1 .. n /\ n \in 1 .. n
    <3>1. n - 1 \in 0 .. (n - 1) /\ 0 \in 0 .. (n - 1) /\ (n - 1) + 1 = n /\ 0 + 1 = 1
      BY <1>1, <1>9
    <3>2. intsetGetAt(is, n - 1) = e[(n - 1) + 1] /\ intsetGetAt(is, 0) = e[0 + 1]
      BY <3>1, GetHolding DEF n
    <3>3. QED
      BY <1>1, <1>9, <3>1, <3>2
  <2>3. CASE v > e[n]
    <3>1. ~ (n \in (r + 1) .. n)
      BY <1>2, <2>1, <2>2, <2>3
    <3>2. r = n
      BY <1>1, <1>2, <3>1
    <3>3. (r < n /\ e[r + 1] = v) = FALSE
      BY <1>1, <3>2
    <3>4. intsetSearch(is, v) = [found |-> FALSE, pos |-> n]
      BY <1>6, <1>9, <2>2, <2>3
    <3>5. QED
      BY <3>2, <3>3, <3>4 DEF n
  <2>4. CASE ~ (v > e[n]) /\ v < e[1]
    <3>1. ~ (1 \in 1 .. r)
      BY <1>2, <2>1, <2>2, <2>4
    <3>2. r = 0
      BY <1>1, <1>2, <3>1
    <3>3. (r < n /\ e[r + 1] = v) = FALSE
      BY <2>1, <2>2, <2>4, <3>2
    <3>4. intsetSearch(is, v) = [found |-> FALSE, pos |-> 0]
      BY <1>6, <1>9, <2>2, <2>4
    <3>5. QED
      BY <3>2, <3>3, <3>4 DEF n
  <2>5. CASE ~ (v > e[n]) /\ ~ (v < e[1])
    <3>1. intsetSearch(is, v) = Bisected(e, v, r, 0, n - 1)
      BY <1>6, <1>7, <1>9, <2>2, <2>5
    <3>2. Clamp(r, 0, n - 1) = r
      BY <1>1, <1>2, <1>9 DEF Clamp
    <3>3. (0 <= r /\ r <= n - 1 /\ e[r + 1] = v) = (r < n /\ e[r + 1] = v)
      BY <1>1, <1>2
    <3>4. QED
      BY <3>1, <3>2, <3>3 DEF Bisected, n
  <2>6. QED
    BY <2>3, <2>4, <2>5
<1>10. QED
  BY <1>8, <1>9

-----------------------------------------------------------------------------
(* An intset as a set of integers. *)

\* Ascending elements with one more at its rank.
LEMMA InsertedAscending ==
    ASSUME NEW e \in Seq(Int), Ascending(e), NEW v \in Int, NEW r, Rank(e, v, r),
           ~ (r < Len(e) /\ e[r + 1] = v)
    PROVE  Ascending(InsertedAt(e, r, v))
<1> DEFINE n == Len(e)
           f == InsertedAt(e, r, v)
<1>1. n \in Nat /\ r \in 0 .. n
  BY DEF Rank
<1>2. \A i \in 1 .. n : e[i] \in Int
  BY ElementOfSeq
<1>3. Len(f) = n + 1
  BY <1>1, InsertedType
<1>4. \A i \in (r + 1) .. n : e[i] > v
  <2>1. ASSUME NEW i \in (r + 1) .. n PROVE e[i] > v
    <3>1. i \in 1 .. n /\ r + 1 \in 1 .. n /\ r < n /\ r + 1 \in (r + 1) .. n
      BY <1>1
    <3>2. e[r + 1] > v
      BY <1>2, <3>1 DEF Rank
    <3>3. i = r + 1 \/ e[r + 1] < e[i]
      BY <1>1, <3>1 DEF Ascending
    <3>4. QED
      BY <1>2, <3>1, <3>2, <3>3
  <2>2. QED
    BY <2>1
<1>5. ASSUME NEW i \in 1 .. (n + 1), NEW j \in 1 .. (n + 1), i < j PROVE f[i] < f[j]
  <2>1. CASE j <= r
    <3>1. f[i] = e[i] /\ f[j] = e[j] /\ i \in 1 .. n /\ j \in 1 .. n
      BY <1>1, <1>5, <2>1 DEF InsertedAt
    <3>2. QED
      BY <1>5, <3>1 DEF Ascending
  <2>2. CASE j = r + 1
    <3>1. f[i] = e[i] /\ f[j] = v /\ i \in 1 .. r
      BY <1>1, <1>5, <2>2 DEF InsertedAt
    <3>2. QED
      BY <3>1 DEF Rank
  <2>3. CASE j > r + 1 /\ i <= r
    <3>1. f[i] = e[i] /\ f[j] = e[j - 1] /\ i \in 1 .. n /\ j - 1 \in 1 .. n /\ i < j - 1
      BY <1>1, <1>5, <2>3 DEF InsertedAt
    <3>2. QED
      BY <3>1 DEF Ascending
  <2>4. CASE j > r + 1 /\ i = r + 1
    <3>1. f[i] = v /\ f[j] = e[j - 1] /\ j - 1 \in (r + 1) .. n /\ j - 1 \in 1 .. n
      BY <1>1, <1>5, <2>4 DEF InsertedAt
    <3>2. QED
      BY <1>2, <1>4, <3>1
  <2>5. CASE i > r + 1
    <3>1. f[i] = e[i - 1] /\ f[j] = e[j - 1] /\ i - 1 \in 1 .. n /\ j - 1 \in 1 .. n /\ i - 1 < j - 1
      BY <1>1, <1>5, <2>5 DEF InsertedAt
    <3>2. QED
      BY <3>1 DEF Ascending
  <2>6. j <= r \/ j = r + 1 \/ (j > r + 1 /\ i <= r) \/ (j > r + 1 /\ i = r + 1) \/ i > r + 1
    BY <1>1
  <2>7. QED
    BY <2>1, <2>2, <2>3, <2>4, <2>5, <2>6
<1>6. QED
  BY <1>3, <1>5 DEF Ascending

\* Ascending elements without one of them.
LEMMA DeletedAscending ==
    ASSUME NEW e \in Seq(Int), Ascending(e), NEW pos \in 0 .. (Len(e) - 1)
    PROVE  /\ Ascending(DeletedAt(e, pos))
           /\ ToSet(DeletedAt(e, pos)) = ToSet(e) \ {e[pos + 1]}
<1> DEFINE n == Len(e)
           f == DeletedAt(e, pos)
           at == [i \in 1 .. (n - 1) |-> IF i <= pos THEN i ELSE i + 1]
<1>1. n \in Nat /\ DOMAIN e = 1 .. n /\ DOMAIN f = 1 .. (n - 1) /\ Len(f) = n - 1 /\ pos + 1 \in 1 .. n
  BY DeletedType DEF DeletedAt
<1>2. ASSUME NEW i \in 1 .. (n - 1) PROVE f[i] = e[at[i]] /\ at[i] \in 1 .. n /\ at[i] # pos + 1
  BY <1>1 DEF DeletedAt
<1>3. ASSUME NEW i \in 1 .. (n - 1), NEW j \in 1 .. (n - 1), i < j PROVE f[i] < f[j]
  <2>1. at[i] < at[j]
    BY <1>1, <1>3
  <2> HIDE DEF at, f
  <2>2. QED
    BY <1>2, <2>1 DEF Ascending
<1>4. ASSUME NEW k \in 1 .. n, k # pos + 1 PROVE \E i \in 1 .. (n - 1) : at[i] = k
  <2>1. CASE k <= pos
    <3>1. k \in 1 .. (n - 1) /\ at[k] = k
      BY <1>1, <2>1
    <3>2. QED
      BY <3>1
  <2>2. CASE k > pos + 1
    <3>1. k - 1 \in 1 .. (n - 1) /\ at[k - 1] = k
      BY <1>1, <2>2
    <3>2. QED
      BY <3>1
  <2>3. QED
    BY <1>1, <1>4, <2>1, <2>2
<1>5. \A i, j \in 1 .. n : i # j => e[i] # e[j]
  <2>1. \A i \in 1 .. n : e[i] \in Int
    BY ElementOfSeq
  <2>2. ASSUME NEW i \in 1 .. n, NEW j \in 1 .. n, i < j PROVE e[i] # e[j]
    BY <2>1, <2>2 DEF Ascending
  <2>3. QED
    BY <1>1, <2>2
<1> HIDE DEF at, f
<1>6. ToSet(f) = ToSet(e) \ {e[pos + 1]}
  <2>1. ToSet(f) = {f[j] : j \in 1 .. (n - 1)} /\ ToSet(e) = {e[i] : i \in 1 .. n}
    BY <1>1 DEF ToSet
  <2>2. ASSUME NEW j \in 1 .. (n - 1) PROVE f[j] \in ToSet(e) \ {e[pos + 1]}
    BY <1>1, <1>2, <1>5, <2>1
  <2>3. ASSUME NEW k \in 1 .. n, e[k] # e[pos + 1] PROVE e[k] \in ToSet(f)
    <3>1. PICK i \in 1 .. (n - 1) : at[i] = k
      BY <1>4, <2>3
    <3>2. f[i] = e[k]
      BY <1>2, <3>1
    <3>3. QED
      BY <2>1, <3>2
  <2>4. ToSet(f) \subseteq ToSet(e) \ {e[pos + 1]}
    BY <2>1, <2>2
  <2>5. ToSet(e) \ {e[pos + 1]} \subseteq ToSet(f)
    BY <2>1, <2>3
  <2>6. QED
    BY <2>4, <2>5
<1>7. Ascending(f)
  BY <1>1, <1>3 DEF Ascending
<1>8. QED
  BY <1>6, <1>7 DEF f

\* The value is there exactly if it is the element at its rank.
LEMMA RankFound ==
    ASSUME NEW e \in Seq(Int), NEW v \in Int, NEW r, Rank(e, v, r), Ascending(e)
    PROVE  (r < Len(e) /\ e[r + 1] = v) <=> v \in ToSet(e)
<1> DEFINE n == Len(e)
<1>1. n \in Nat /\ r \in 0 .. n /\ DOMAIN e = 1 .. n /\ \A i \in 1 .. n : e[i] \in Int
  BY ElementOfSeq DEF Rank
<1>2. ASSUME r < n, e[r + 1] = v PROVE v \in ToSet(e)
  <2>1. r + 1 \in 1 .. n
    BY <1>1, <1>2
  <2>2. QED
    BY <1>1, <1>2, <2>1 DEF ToSet
<1>3. ASSUME v \in ToSet(e) PROVE r < n /\ e[r + 1] = v
  <2>1. PICK i \in 1 .. n : e[i] = v
    BY <1>1, <1>3 DEF ToSet
  <2>2. ~ (i \in 1 .. r)
    BY <1>1, <2>1 DEF Rank
  <2>3. i > r /\ r < n /\ r + 1 \in 1 .. n /\ r + 1 \in (r + 1) .. n
    BY <1>1, <2>2
  <2>4. e[r + 1] >= v
    BY <2>3 DEF Rank
  <2>5. i = r + 1 \/ e[r + 1] < e[i]
    BY <1>1, <2>3 DEF Ascending
  <2>6. QED
    BY <1>1, <2>1, <2>3, <2>4, <2>5
<1>4. QED
  BY <1>2, <1>3

\* An intset the binary search can rely on.
GoodIntset(is) == Holding(is, intsetElements(is)) /\ Ascending(intsetElements(is))

Contents(is) == ToSet(intsetElements(is))

\* Elements in order, however they are found, make a good intset.
LEMMA GoodIs ==
    ASSUME NEW is, NEW e, Holding(is, e), Ascending(e)
    PROVE  GoodIntset(is) /\ intsetElements(is) = e
BY ElementsHolding DEF GoodIntset

\* What a good intset is made of.
GoodFacts(is, e) ==
    /\ e = intsetElements(is) /\ Holding(is, e) /\ Ascending(e) /\ e \in Seq(Holds(is.encoding))
    /\ is.encoding \in Encodings /\ Holds(is.encoding) \subseteq Int /\ e \in Seq(Int)
    /\ is.length = Len(e) /\ is.length \in Nat

\* A good intset is made of these.
LEMMA GoodParts ==
    ASSUME NEW is, GoodIntset(is)
    PROVE  GoodFacts(is, intsetElements(is))
<1> DEFINE e == intsetElements(is)
<1>1. Holding(is, e) /\ Ascending(e)
  BY DEF GoodIntset
<1> HIDE DEF e
<1>2. /\ e \in Seq(Holds(is.encoding)) /\ is.encoding \in Encodings /\ is.length = Len(e) /\ is.length \in Nat
  BY <1>1, BlockFields DEF Holding
<1>3. Holds(is.encoding) \subseteq Int
  BY <1>2, HoldsInt
<1>4. e \in Seq(Int)
  BY <1>2, <1>3
<1>5. QED
  BY <1>1, <1>2, <1>3, <1>4 DEF GoodFacts, e

\* A new intset is the empty set.
LEMMA NewGood == GoodIntset(intsetNew) /\ intsetElements(intsetNew) = <<>>
<1>1. Ascending(<<>>)
  BY DEF Ascending
<1>2. QED
  BY <1>1, NewHolding, GoodIs

\* No element comes twice.
LEMMA GoodInjective ==
    ASSUME NEW is, GoodIntset(is)
    PROVE  \A i, j \in 1 .. is.length : intsetElements(is)[i] = intsetElements(is)[j] => i = j
<1> DEFINE e == intsetElements(is)
<1>1. GoodFacts(is, e)
  BY GoodParts
<1> HIDE DEF e
<1>2. Ascending(e) /\ e \in Seq(Int) /\ is.length = Len(e) /\ Len(e) \in Nat
  BY <1>1 DEF GoodFacts
<1>3. \A i \in 1 .. Len(e) : e[i] \in Int
  BY <1>2, ElementOfSeq
<1>4. ASSUME NEW i \in 1 .. Len(e), NEW j \in 1 .. Len(e), i < j PROVE e[i] # e[j]
  BY <1>2, <1>3, <1>4 DEF Ascending
<1>5. ASSUME NEW i \in 1 .. Len(e), NEW j \in 1 .. Len(e), e[i] = e[j] PROVE i = j
  <2>1. ~ (i < j) /\ ~ (j < i)
    BY <1>4, <1>5
  <2>2. QED
    BY <1>2, <2>1
<1>6. QED
  BY <1>2, <1>5 DEF e

\* A value wider than the encoding is none of the elements.
LEMMA TooWide ==
    ASSUME NEW is, GoodIntset(is), NEW v \in Holds(INTSET_ENC_INT64)
    PROVE  /\ intsetValueEncoding(v) > is.encoding => v \notin Contents(is) /\ v \notin Holds(is.encoding)
           /\ ~ (intsetValueEncoding(v) > is.encoding) => v \in Holds(is.encoding)
           /\ v \in Int
           /\ intsetValueEncoding(v) <= is.encoding <=> ~ (intsetValueEncoding(v) > is.encoding)
<1> DEFINE e == intsetElements(is)
           n == intsetValueEncoding(v)
<1>1. GoodFacts(is, e)
  BY GoodParts
<1>2. n \in Encodings /\ v \in Holds(n) /\ \A a \in Encodings : v \in Holds(a) <=> n <= a
  BY ValueEncodingIs DEF ValueFits
<1> HIDE DEF e, n
<1>3. is.encoding \in Encodings /\ e \in Seq(Holds(is.encoding))
  BY <1>1 DEF GoodFacts
<1>4. n \in Int /\ is.encoding \in Int
  BY <1>2, <1>3 DEF Encodings, INTSET_ENC_INT16, INTSET_ENC_INT32, INTSET_ENC_INT64
<1>5. n > is.encoding <=> ~ (n <= is.encoding)
  BY <1>4
<1>6. v \in Holds(is.encoding) <=> n <= is.encoding
  BY <1>2, <1>3
<1>7. ToSet(e) \subseteq Holds(is.encoding)
  BY <1>3, ElementOfSeq DEF ToSet
<1>8. v \in Int
  BY <1>2, HoldsInt
<1>9. QED
  BY <1>5, <1>6, <1>7, <1>8 DEF Contents, e, n

\* The search of a good intset.
LEMMA SearchGood ==
    ASSUME NEW is, GoodIntset(is), NEW v \in Int
    PROVE  \E r : /\ Rank(intsetElements(is), v, r)
                  /\ intsetSearch(is, v) = [found |-> v \in Contents(is), pos |-> r]
<1> DEFINE e == intsetElements(is)
<1>1. GoodFacts(is, e)
  BY GoodParts
<1> HIDE DEF e
<1>2. Holding(is, e) /\ Ascending(e) /\ e \in Seq(Int)
  BY <1>1 DEF GoodFacts
<1>3. PICK r : Rank(e, v, r)
  BY <1>2, RankExists
<1>4. intsetSearch(is, v) = [found |-> r < Len(e) /\ e[r + 1] = v, pos |-> r]
  BY <1>2, <1>3, SearchIs
<1>5. (r < Len(e) /\ e[r + 1] = v) = (v \in ToSet(e))
  BY <1>2, <1>3, RankFound
<1>6. intsetSearch(is, v) = [found |-> v \in ToSet(e), pos |-> r]
  BY <1>4, <1>5
<1>7. QED
  BY <1>3, <1>6 DEF Contents, e

\* intsetFind is membership.
THEOREM IntsetFindIs ==
    ASSUME NEW is, GoodIntset(is), NEW v \in Holds(INTSET_ENC_INT64)
    PROVE  intsetFind(is, v) <=> v \in Contents(is)
<1>1. v \in Int
  BY TooWide
<1>2. PICK r : intsetSearch(is, v) = [found |-> v \in Contents(is), pos |-> r]
  BY <1>1, SearchGood
<1>3. intsetSearch(is, v).found <=> v \in Contents(is)
  <2> DEFINE in == v \in Contents(is)
  <2>1. intsetSearch(is, v) = [found |-> in, pos |-> r]
    BY <1>2
  <2> HIDE DEF in
  <2>2. intsetSearch(is, v).found = in
    BY <2>1
  <2>3. QED
    BY <2>2, Zenon DEF in
<1>4. CASE intsetValueEncoding(v) <= is.encoding
  BY <1>3, <1>4 DEF intsetFind
<1>5. CASE ~ (intsetValueEncoding(v) <= is.encoding)
  BY <1>5, TooWide DEF intsetFind
<1>6. QED
  BY <1>4, <1>5

\* What adding v to an intset does.
AddEffect(r, is, v) ==
    /\ GoodIntset(r.is) /\ Contents(r.is) = Contents(is) \cup {v}
    /\ r.success = IF v \in Contents(is) THEN 0 ELSE 1
    /\ r.success = 0 => r.is = is
    /\ r.is.length = is.length + r.success

\* intsetAdd adds a value once, widening the encoding if it must.
THEOREM IntsetAddIs ==
    ASSUME NEW is, GoodIntset(is), NEW v \in Holds(INTSET_ENC_INT64)
    PROVE  AddEffect(intsetAdd(is, v), is, v)
<1> DEFINE e == intsetElements(is)
           R == intsetAdd(is, v)
<1> SUFFICES AddEffect(R, is, v)
  OBVIOUS
<1>1. GoodFacts(is, e)
  BY GoodParts
<1>2. v \in Int
  BY TooWide
<1>3. ASSUME NEW new, NEW pos, Rank(e, v, pos), v \notin Contents(is),
             Holding(new, InsertedAt(e, pos, v)), R = [is |-> new, success |-> 1]
      PROVE  AddEffect(R, is, v)
  <2> DEFINE f == InsertedAt(e, pos, v)
  <2> HIDE DEF e
  <2>1. e \in Seq(Int) /\ Ascending(e) /\ is.length = Len(e) /\ is.length \in Nat
    BY <1>1 DEF GoodFacts
  <2>2. pos \in 0 .. Len(e) /\ ~ (pos < Len(e) /\ e[pos + 1] = v)
    <3>1. v \notin ToSet(e)
      BY <1>3 DEF Contents, e
    <3>2. QED
      BY <1>2, <1>3, <2>1, <3>1, RankFound DEF Rank
  <2>3. Ascending(f)
    BY <1>2, <1>3, <2>1, <2>2, InsertedAscending
  <2>4. ToSet(f) = ToSet(e) \cup {v} /\ Len(f) = Len(e) + 1
    <3>1. ToSet(f) = ToSet(e) \cup {v}
      BY <1>2, <2>1, <2>2, InsertedToSet
    <3>2. Len(f) = Len(e) + 1
      BY <1>2, <2>1, <2>2, InsertedType
    <3>3. QED
      BY <3>1, <3>2
  <2> HIDE DEF f
  <2>5. GoodIntset(new) /\ intsetElements(new) = f
    BY <1>3, <2>3, GoodIs DEF f
  <2>6. new.length = Len(f)
    BY <1>3 DEF Holding, f
  <2>7. R.is = new /\ R.success = 1
    BY <1>3
  <2> HIDE DEF R
  <2>8. Contents(R.is) = Contents(is) \cup {v}
    BY <2>4, <2>5, <2>7 DEF Contents, e
  <2>9. R.is.length = is.length + R.success
    BY <2>1, <2>4, <2>6, <2>7
  <2>10. R.success = IF v \in Contents(is) THEN 0 ELSE 1
    BY <1>3, <2>7
  <2>11. R.success # 0
    BY <2>7
  <2>12. QED
    BY <2>5, <2>7, <2>8, <2>9, <2>10, <2>11 DEF AddEffect
<1>4. CASE intsetValueEncoding(v) > is.encoding
  <2> DEFINE pos == IF v < 0 THEN 0 ELSE Len(e)
             new == intsetUpgradeAndAdd(is, v)
             h == Values[is.encoding] \div 2
  <2>1. R = [is |-> new, success |-> 1]
    BY <1>4 DEF intsetAdd
  <2>2. v \notin Contents(is) /\ v \notin Holds(is.encoding)
    BY <1>4, TooWide
  <2>3. is.encoding <= intsetValueEncoding(v)
    <3>1. intsetValueEncoding(v) \in Encodings /\ is.encoding \in Encodings
      BY <1>1, ValueEncodingIs DEF ValueFits, GoodFacts
    <3>2. QED
      BY <1>4, <3>1 DEF Encodings, INTSET_ENC_INT16, INTSET_ENC_INT32, INTSET_ENC_INT64
  <2>4. Holding(is, e)
    BY <1>1 DEF GoodFacts
  <2> HIDE DEF e
  <2>5. Holding(new, InsertedAt(e, pos, v))
    BY <2>3, <2>4, UpgradeHolding
  <2>6. h \in Nat
    BY <1>1, ValuesEven DEF GoodFacts
  <2>7. Holds(is.encoding) = -h .. (h - 1)
    BY DEF Holds
  <2> HIDE DEF h
  <2>8. \A i \in 1 .. Len(e) : e[i] \in -h .. (h - 1)
    BY <1>1, <2>7, ElementOfSeq DEF GoodFacts
  <2>9. v < -h \/ v > h - 1
    BY <1>2, <2>2, <2>6, <2>7
  <2>10. Len(e) \in Nat
    BY <1>1 DEF GoodFacts
  <2>11. Rank(e, v, pos)
    <3>1. CASE v < 0
      <4>1. pos = 0 /\ v < -h
        BY <1>2, <2>6, <2>9, <3>1
      <4>2. \A i \in 1 .. Len(e) : e[i] >= v
        BY <1>2, <2>6, <2>8, <4>1
      <4>3. QED
        BY <2>10, <4>1, <4>2 DEF Rank
    <3>2. CASE ~ (v < 0)
      <4>1. pos = Len(e) /\ v > h - 1
        BY <1>2, <2>6, <2>9, <3>2
      <4>2. \A i \in 1 .. Len(e) : e[i] < v
        BY <1>2, <2>6, <2>8, <4>1
      <4>3. QED
        BY <2>10, <4>1, <4>2 DEF Rank
    <3>3. QED
      BY <3>1, <3>2
  <2> HIDE DEF pos, new, R
  <2>12. QED
    BY <1>3, <2>1, <2>2, <2>5, <2>11
<1>5. CASE ~ (intsetValueEncoding(v) > is.encoding)
  <2>1. v \in Holds(is.encoding)
    BY <1>5, TooWide
  <2>2. PICK r : Rank(e, v, r) /\ intsetSearch(is, v) = [found |-> v \in Contents(is), pos |-> r]
    BY <1>2, SearchGood
  <2>3. R = AddUnlessFound(is, v, [found |-> v \in Contents(is), pos |-> r])
    BY <1>5, <2>2 DEF intsetAdd
  <2>4. CASE v \in Contents(is)
    <3>1. R = [is |-> is, success |-> 0]
      BY <2>3, <2>4 DEF AddUnlessFound
    <3>2. is.length \in Nat
      BY <1>1 DEF GoodFacts
    <3> HIDE DEF R
    <3>3. R.is = is /\ R.success = 0
      BY <3>1
    <3>4. QED
      BY <2>4, <3>2, <3>3 DEF AddEffect
  <2>5. CASE v \notin Contents(is)
    <3>1. R = [is |-> InsertValue(is, v, r), success |-> 1]
      BY <2>3, <2>5 DEF AddUnlessFound
    <3>2. r \in 0 .. Len(e) /\ Holding(is, e)
      BY <1>1, <2>2 DEF GoodFacts, Rank
    <3> HIDE DEF R, e
    <3>3. Holding(InsertValue(is, v, r), InsertedAt(e, r, v))
      BY <2>1, <3>2, InsertHolding
    <3>4. QED
      BY <1>3, <2>2, <2>5, <3>1, <3>3
  <2>6. QED
    BY <2>4, <2>5
<1>6. QED
  BY <1>4, <1>5

\* What removing v from an intset does.
RemoveEffect(r, is, v) ==
    /\ GoodIntset(r.is) /\ Contents(r.is) = Contents(is) \ {v}
    /\ r.success = IF v \in Contents(is) THEN 1 ELSE 0
    /\ r.success = 0 => r.is = is
    /\ r.is.length = is.length - r.success

\* intsetRemove removes a value and nothing else.
THEOREM IntsetRemoveIs ==
    ASSUME NEW is, GoodIntset(is), NEW v \in Holds(INTSET_ENC_INT64)
    PROVE  RemoveEffect(intsetRemove(is, v), is, v)
<1> DEFINE e == intsetElements(is)
           R == intsetRemove(is, v)
<1> SUFFICES RemoveEffect(R, is, v)
  OBVIOUS
<1>1. GoodFacts(is, e)
  BY GoodParts
<1>2. v \in Int
  BY TooWide
<1>3. ASSUME v \notin Contents(is), R = [is |-> is, success |-> 0] PROVE RemoveEffect(R, is, v)
  <2>1. is.length \in Nat
    BY <1>1 DEF GoodFacts
  <2> HIDE DEF R
  <2>2. R.is = is /\ R.success = 0
    BY <1>3
  <2>3. Contents(is) = Contents(is) \ {v}
    BY <1>3
  <2>4. QED
    BY <1>3, <2>1, <2>2, <2>3 DEF RemoveEffect
<1>4. CASE intsetValueEncoding(v) > is.encoding
  <2>1. R = [is |-> is, success |-> 0] /\ v \notin Contents(is)
    BY <1>4, TooWide DEF intsetRemove
  <2>2. QED
    BY <1>3, <2>1
<1>5. CASE ~ (intsetValueEncoding(v) > is.encoding)
  <2>1. PICK r : Rank(e, v, r) /\ intsetSearch(is, v) = [found |-> v \in Contents(is), pos |-> r]
    BY <1>2, SearchGood
  <2>2. R = RemoveIfFound(is, [found |-> v \in Contents(is), pos |-> r])
    BY <1>5, <2>1 DEF intsetRemove
  <2>3. CASE v \notin Contents(is)
    <3>1. R = [is |-> is, success |-> 0]
      BY <2>2, <2>3 DEF RemoveIfFound
    <3>2. QED
      BY <1>3, <2>3, <3>1
  <2>4. CASE v \in Contents(is)
    <3> DEFINE new == DeleteAt(is, r)
               f == DeletedAt(e, r)
    <3>1. R = [is |-> new, success |-> 1]
      BY <2>2, <2>4 DEF RemoveIfFound
    <3>2. v \in ToSet(e)
      BY <2>4 DEF Contents
    <3>3. e \in Seq(Int) /\ Ascending(e) /\ Holding(is, e) /\ is.length = Len(e) /\ Len(e) \in Nat
      BY <1>1 DEF GoodFacts
    <3> HIDE DEF R, e
    <3>4. r < Len(e) /\ e[r + 1] = v
      BY <1>2, <2>1, <3>2, <3>3, RankFound
    <3>5. r \in 0 .. (Len(e) - 1)
      BY <2>1, <3>3, <3>4 DEF Rank
    <3>6. Holding(new, f)
      BY <3>3, <3>5, DeleteHolding
    <3>7. Ascending(f) /\ ToSet(f) = ToSet(e) \ {v}
      BY <3>3, <3>4, <3>5, DeletedAscending
    <3>8. Len(f) = Len(e) - 1
      BY <3>3, <3>5, DeletedType
    <3> HIDE DEF f, new
    <3>9. GoodIntset(new) /\ intsetElements(new) = f
      BY <3>6, <3>7, GoodIs
    <3>10. R.is = new /\ R.success = 1
      BY <3>1
    <3>11. Contents(R.is) = Contents(is) \ {v}
      BY <3>7, <3>9, <3>10 DEF Contents, e
    <3>12. R.is.length = is.length - R.success
      BY <3>3, <3>6, <3>8, <3>10 DEF Holding
    <3>13. R.success = IF v \in Contents(is) THEN 1 ELSE 0
      BY <2>4, <3>10
    <3>14. R.success # 0
      BY <3>10
    <3>15. QED
      BY <3>9, <3>10, <3>11, <3>12, <3>13, <3>14 DEF RemoveEffect
  <2>5. QED
    BY <2>3, <2>4
<1>6. QED
  BY <1>4, <1>5

-----------------------------------------------------------------------------
(* The loops as folds. *)

\* One step of Select and the values of its accumulator.
SelectStep(R, acc, x) == IF x \in R THEN Append(acc, x) ELSE acc

SelectRun(g, R, b, s, D) ==
    /\ g \in [0 .. Len(s) -> D] /\ g[0] = b
    /\ \A n \in 1 .. Len(s) : g[n] = SelectStep(R, g[n - 1], s[n])

\* Select as the values of its accumulator.
LEMMA SelectFold ==
    ASSUME NEW R, NEW S, NEW s \in Seq(S), NEW D, <<>> \in D,
           \A x \in S : \A y \in D : SelectStep(R, y, x) \in D
    PROVE  \E g : SelectRun(g, R, <<>>, s, D) /\ Select(s, R) = g[Len(s)]
<1> DEFINE N == Len(s)
           F == [p \in (1 .. N) \X D |-> SelectStep(R, p[2], s[p[1]])]
           Eqn(it) == it = [V \in SUBSET (1 .. N) |->
                        IF V = {} THEN <<>> ELSE SelectStep(R, it[V \ {Max(V)}], s[Max(V)])]
           it == CHOOSE it : Eqn(it)
<1>1. N \in Nat /\ DOMAIN s = 1 .. N
  OBVIOUS
<1>2. \A i \in 1 .. N : s[i] \in S
  BY ElementOfSeq
<1>3. F \in [(1 .. N) \X D -> D]
  BY <1>2
<1>4. \E jt : Eqn(jt)
  <2>1. PICK jt \in [SUBSET (1 .. N) -> D] : Iterates(jt, N, <<>>, F)
    <3> HIDE DEF F, N
    <3>1. QED
      BY <1>1, <1>3, IteratorExists
  <2>2. ASSUME NEW V \in SUBSET (1 .. N), V # {}
        PROVE  F[<<Max(V), jt[V \ {Max(V)}]>>] = SelectStep(R, jt[V \ {Max(V)}], s[Max(V)])
    <3>1. Max(V) \in 1 .. N /\ V \ {Max(V)} \in SUBSET (1 .. N)
      BY <2>2, <1>1, MaxOfPart
    <3>2. jt[V \ {Max(V)}] \in D
      BY <3>1
    <3>3. QED
      BY <3>1, <3>2
  <2>3. Eqn(jt)
    <3> HIDE DEF F, N
    <3>1. QED
      BY <2>1, <2>2 DEF Iterates
  <2>4. QED
    BY <2>3
<1>5. Eqn(it)
  <2> HIDE DEF Eqn
  <2>1. QED
    BY <1>4
<1>6. Select(s, R) = it[1 .. N]
  BY <1>1 DEF Select, FoldLeft, MapThenFoldSet, SelectStep
<1> HIDE DEF it
<1>7. it[{}] = <<>>
  BY <1>5
<1>8. ASSUME NEW n \in 1 .. N
      PROVE  it[1 .. n] = SelectStep(R, it[1 .. (n - 1)], s[n])
  <2>1. /\ 1 .. n \in SUBSET (1 .. N) /\ 1 .. n # {}
        /\ Max(1 .. n) = n /\ (1 .. n) \ {n} = 1 .. (n - 1)
    BY <1>1, MaxOfInitial
  <2>2. it[1 .. n] = SelectStep(R, it[(1 .. n) \ {Max(1 .. n)}], s[Max(1 .. n)])
    BY <1>5, <2>1
  <2>3. QED
    BY <2>1, <2>2
<1>9. ASSUME NEW n \in 1 .. N, it[1 .. (n - 1)] \in D
      PROVE  it[1 .. n] = F[<<n, it[1 .. (n - 1)]>>]
  BY <1>8, <1>9
<1> DEFINE g == [n \in 0 .. N |-> it[1 .. n]]
<1>10. Accumulates(g, N, <<>>, F, D)
  <2> HIDE DEF F, N, Eqn
  <2>1. QED
    BY <1>1, <1>3, <1>7, <1>9, AccumulatorOf
<1>11. g[N] = it[1 .. N]
  BY <1>1
<1>12. ASSUME NEW n \in 1 .. N PROVE g[n] = SelectStep(R, g[n - 1], s[n])
  <2>1. n \in 0 .. N /\ n - 1 \in 0 .. N
    BY <1>1
  <2>2. QED
    BY <1>8, <2>1
<1>13. SelectRun(g, R, <<>>, s, D)
  <2> HIDE DEF g, F, Eqn
  <2>1. QED
    BY <1>10, <1>12 DEF SelectRun, Accumulates
<1>14. QED
  <2> HIDE DEF g
  <2>1. QED
    BY <1>6, <1>11, <1>13

\* One step of SortBy and the values of its accumulator.
SortStep(key, acc, x) == Insert(acc, x, key)

SortRun(g, key, b, s, D) ==
    /\ g \in [0 .. Len(s) -> D] /\ g[0] = b
    /\ \A n \in 1 .. Len(s) : g[n] = SortStep(key, g[n - 1], s[n])

\* SortBy as the values of its accumulator.
LEMMA SortFold ==
    ASSUME NEW key, NEW S, NEW s \in Seq(S), NEW D, <<>> \in D,
           \A x \in S : \A y \in D : SortStep(key, y, x) \in D
    PROVE  \E g : SortRun(g, key, <<>>, s, D) /\ SortBy(s, key) = g[Len(s)]
<1> DEFINE N == Len(s)
           F == [p \in (1 .. N) \X D |-> SortStep(key, p[2], s[p[1]])]
           Eqn(it) == it = [V \in SUBSET (1 .. N) |->
                        IF V = {} THEN <<>> ELSE SortStep(key, it[V \ {Max(V)}], s[Max(V)])]
           it == CHOOSE it : Eqn(it)
<1>1. N \in Nat /\ DOMAIN s = 1 .. N
  OBVIOUS
<1>2. \A i \in 1 .. N : s[i] \in S
  BY ElementOfSeq
<1>3. F \in [(1 .. N) \X D -> D]
  BY <1>2
<1>4. \E jt : Eqn(jt)
  <2>1. PICK jt \in [SUBSET (1 .. N) -> D] : Iterates(jt, N, <<>>, F)
    <3> HIDE DEF F, N
    <3>1. QED
      BY <1>1, <1>3, IteratorExists
  <2>2. ASSUME NEW V \in SUBSET (1 .. N), V # {}
        PROVE  F[<<Max(V), jt[V \ {Max(V)}]>>] = SortStep(key, jt[V \ {Max(V)}], s[Max(V)])
    <3>1. Max(V) \in 1 .. N /\ V \ {Max(V)} \in SUBSET (1 .. N)
      BY <2>2, <1>1, MaxOfPart
    <3>2. jt[V \ {Max(V)}] \in D
      BY <3>1
    <3>3. QED
      BY <3>1, <3>2
  <2>3. Eqn(jt)
    <3> HIDE DEF F, N
    <3>1. QED
      BY <2>1, <2>2 DEF Iterates
  <2>4. QED
    BY <2>3
<1>5. Eqn(it)
  <2> HIDE DEF Eqn
  <2>1. QED
    BY <1>4
<1>6. SortBy(s, key) = it[1 .. N]
  BY <1>1 DEF SortBy, FoldLeft, MapThenFoldSet, SortStep
<1> HIDE DEF it
<1>7. it[{}] = <<>>
  BY <1>5
<1>8. ASSUME NEW n \in 1 .. N
      PROVE  it[1 .. n] = SortStep(key, it[1 .. (n - 1)], s[n])
  <2>1. /\ 1 .. n \in SUBSET (1 .. N) /\ 1 .. n # {}
        /\ Max(1 .. n) = n /\ (1 .. n) \ {n} = 1 .. (n - 1)
    BY <1>1, MaxOfInitial
  <2>2. it[1 .. n] = SortStep(key, it[(1 .. n) \ {Max(1 .. n)}], s[Max(1 .. n)])
    BY <1>5, <2>1
  <2>3. QED
    BY <2>1, <2>2
<1>9. ASSUME NEW n \in 1 .. N, it[1 .. (n - 1)] \in D
      PROVE  it[1 .. n] = F[<<n, it[1 .. (n - 1)]>>]
  BY <1>8, <1>9
<1> DEFINE g == [n \in 0 .. N |-> it[1 .. n]]
<1>10. Accumulates(g, N, <<>>, F, D)
  <2> HIDE DEF F, N, Eqn
  <2>1. QED
    BY <1>1, <1>3, <1>7, <1>9, AccumulatorOf
<1>11. g[N] = it[1 .. N]
  BY <1>1
<1>12. ASSUME NEW n \in 1 .. N PROVE g[n] = SortStep(key, g[n - 1], s[n])
  <2>1. n \in 0 .. N /\ n - 1 \in 0 .. N
    BY <1>1
  <2>2. QED
    BY <1>8, <2>1
<1>13. SortRun(g, key, <<>>, s, D)
  <2> HIDE DEF g, F, Eqn
  <2>1. QED
    BY <1>10, <1>12 DEF SortRun, Accumulates
<1>14. QED
  <2> HIDE DEF g
  <2>1. QED
    BY <1>6, <1>11, <1>13

\* One step of AddAll and the values of its accumulator.
AddStep(acc, x) == Counted(acc.n, setTypeAdd(acc.set, x))

AddRun(g, b, s, D) ==
    /\ g \in [0 .. Len(s) -> D] /\ g[0] = b
    /\ \A n \in 1 .. Len(s) : g[n] = AddStep(g[n - 1], s[n])

\* AddAll as the values of its accumulator.
LEMMA AddFold ==
    ASSUME NEW set, NEW S, NEW s \in Seq(S), NEW D, [set |-> set, n |-> 0] \in D,
           \A x \in S : \A y \in D : AddStep(y, x) \in D
    PROVE  \E g : AddRun(g, [set |-> set, n |-> 0], s, D) /\ AddAll(set, s) = g[Len(s)]
<1> DEFINE N == Len(s)
           F == [p \in (1 .. N) \X D |-> AddStep(p[2], s[p[1]])]
           Eqn(it) == it = [V \in SUBSET (1 .. N) |->
                        IF V = {} THEN [set |-> set, n |-> 0] ELSE AddStep(it[V \ {Max(V)}], s[Max(V)])]
           it == CHOOSE it : Eqn(it)
<1>1. N \in Nat /\ DOMAIN s = 1 .. N
  OBVIOUS
<1>2. \A i \in 1 .. N : s[i] \in S
  BY ElementOfSeq
<1>3. F \in [(1 .. N) \X D -> D]
  BY <1>2
<1>4. \E jt : Eqn(jt)
  <2>1. PICK jt \in [SUBSET (1 .. N) -> D] : Iterates(jt, N, [set |-> set, n |-> 0], F)
    <3> HIDE DEF F, N
    <3>1. QED
      BY <1>1, <1>3, IteratorExists
  <2>2. ASSUME NEW V \in SUBSET (1 .. N), V # {}
        PROVE  F[<<Max(V), jt[V \ {Max(V)}]>>] = AddStep(jt[V \ {Max(V)}], s[Max(V)])
    <3>1. Max(V) \in 1 .. N /\ V \ {Max(V)} \in SUBSET (1 .. N)
      BY <2>2, <1>1, MaxOfPart
    <3>2. jt[V \ {Max(V)}] \in D
      BY <3>1
    <3>3. QED
      BY <3>1, <3>2
  <2>3. Eqn(jt)
    <3> HIDE DEF F, N
    <3>1. QED
      BY <2>1, <2>2 DEF Iterates
  <2>4. QED
    BY <2>3
<1>5. Eqn(it)
  <2> HIDE DEF Eqn
  <2>1. QED
    BY <1>4
<1>6. AddAll(set, s) = it[1 .. N]
  BY <1>1 DEF AddAll, Unchanged, FoldLeft, MapThenFoldSet, AddStep
<1> HIDE DEF it
<1>7. it[{}] = [set |-> set, n |-> 0]
  BY <1>5
<1>8. ASSUME NEW n \in 1 .. N
      PROVE  it[1 .. n] = AddStep(it[1 .. (n - 1)], s[n])
  <2>1. /\ 1 .. n \in SUBSET (1 .. N) /\ 1 .. n # {}
        /\ Max(1 .. n) = n /\ (1 .. n) \ {n} = 1 .. (n - 1)
    BY <1>1, MaxOfInitial
  <2>2. it[1 .. n] = AddStep(it[(1 .. n) \ {Max(1 .. n)}], s[Max(1 .. n)])
    BY <1>5, <2>1
  <2>3. QED
    BY <2>1, <2>2
<1>9. ASSUME NEW n \in 1 .. N, it[1 .. (n - 1)] \in D
      PROVE  it[1 .. n] = F[<<n, it[1 .. (n - 1)]>>]
  BY <1>8, <1>9
<1> DEFINE g == [n \in 0 .. N |-> it[1 .. n]]
<1>10. Accumulates(g, N, [set |-> set, n |-> 0], F, D)
  <2> HIDE DEF F, N, Eqn
  <2>1. QED
    BY <1>1, <1>3, <1>7, <1>9, AccumulatorOf
<1>11. g[N] = it[1 .. N]
  BY <1>1
<1>12. ASSUME NEW n \in 1 .. N PROVE g[n] = AddStep(g[n - 1], s[n])
  <2>1. n \in 0 .. N /\ n - 1 \in 0 .. N
    BY <1>1
  <2>2. QED
    BY <1>8, <2>1
<1>13. AddRun(g, [set |-> set, n |-> 0], s, D)
  <2> HIDE DEF g, F, Eqn
  <2>1. QED
    BY <1>10, <1>12 DEF AddRun, Accumulates
<1>14. QED
  <2> HIDE DEF g
  <2>1. QED
    BY <1>6, <1>11, <1>13

\* One step of RemoveAll and the values of its accumulator.
TakeStep(acc, x) == Counted(acc.n, setTypeRemove(acc.set, x))

TakeRun(g, b, s, D) ==
    /\ g \in [0 .. Len(s) -> D] /\ g[0] = b
    /\ \A n \in 1 .. Len(s) : g[n] = TakeStep(g[n - 1], s[n])

\* RemoveAll as the values of its accumulator.
LEMMA TakeFold ==
    ASSUME NEW set, NEW S, NEW s \in Seq(S), NEW D, [set |-> set, n |-> 0] \in D,
           \A x \in S : \A y \in D : TakeStep(y, x) \in D
    PROVE  \E g : TakeRun(g, [set |-> set, n |-> 0], s, D) /\ RemoveAll(set, s) = g[Len(s)]
<1> DEFINE N == Len(s)
           F == [p \in (1 .. N) \X D |-> TakeStep(p[2], s[p[1]])]
           Eqn(it) == it = [V \in SUBSET (1 .. N) |->
                        IF V = {} THEN [set |-> set, n |-> 0] ELSE TakeStep(it[V \ {Max(V)}], s[Max(V)])]
           it == CHOOSE it : Eqn(it)
<1>1. N \in Nat /\ DOMAIN s = 1 .. N
  OBVIOUS
<1>2. \A i \in 1 .. N : s[i] \in S
  BY ElementOfSeq
<1>3. F \in [(1 .. N) \X D -> D]
  BY <1>2
<1>4. \E jt : Eqn(jt)
  <2>1. PICK jt \in [SUBSET (1 .. N) -> D] : Iterates(jt, N, [set |-> set, n |-> 0], F)
    <3> HIDE DEF F, N
    <3>1. QED
      BY <1>1, <1>3, IteratorExists
  <2>2. ASSUME NEW V \in SUBSET (1 .. N), V # {}
        PROVE  F[<<Max(V), jt[V \ {Max(V)}]>>] = TakeStep(jt[V \ {Max(V)}], s[Max(V)])
    <3>1. Max(V) \in 1 .. N /\ V \ {Max(V)} \in SUBSET (1 .. N)
      BY <2>2, <1>1, MaxOfPart
    <3>2. jt[V \ {Max(V)}] \in D
      BY <3>1
    <3>3. QED
      BY <3>1, <3>2
  <2>3. Eqn(jt)
    <3> HIDE DEF F, N
    <3>1. QED
      BY <2>1, <2>2 DEF Iterates
  <2>4. QED
    BY <2>3
<1>5. Eqn(it)
  <2> HIDE DEF Eqn
  <2>1. QED
    BY <1>4
<1>6. RemoveAll(set, s) = it[1 .. N]
  BY <1>1 DEF RemoveAll, Unchanged, FoldLeft, MapThenFoldSet, TakeStep
<1> HIDE DEF it
<1>7. it[{}] = [set |-> set, n |-> 0]
  BY <1>5
<1>8. ASSUME NEW n \in 1 .. N
      PROVE  it[1 .. n] = TakeStep(it[1 .. (n - 1)], s[n])
  <2>1. /\ 1 .. n \in SUBSET (1 .. N) /\ 1 .. n # {}
        /\ Max(1 .. n) = n /\ (1 .. n) \ {n} = 1 .. (n - 1)
    BY <1>1, MaxOfInitial
  <2>2. it[1 .. n] = TakeStep(it[(1 .. n) \ {Max(1 .. n)}], s[Max(1 .. n)])
    BY <1>5, <2>1
  <2>3. QED
    BY <2>1, <2>2
<1>9. ASSUME NEW n \in 1 .. N, it[1 .. (n - 1)] \in D
      PROVE  it[1 .. n] = F[<<n, it[1 .. (n - 1)]>>]
  BY <1>8, <1>9
<1> DEFINE g == [n \in 0 .. N |-> it[1 .. n]]
<1>10. Accumulates(g, N, [set |-> set, n |-> 0], F, D)
  <2> HIDE DEF F, N, Eqn
  <2>1. QED
    BY <1>1, <1>3, <1>7, <1>9, AccumulatorOf
<1>11. g[N] = it[1 .. N]
  BY <1>1
<1>12. ASSUME NEW n \in 1 .. N PROVE g[n] = TakeStep(g[n - 1], s[n])
  <2>1. n \in 0 .. N /\ n - 1 \in 0 .. N
    BY <1>1
  <2>2. QED
    BY <1>8, <2>1
<1>13. TakeRun(g, [set |-> set, n |-> 0], s, D)
  <2> HIDE DEF g, F, Eqn
  <2>1. QED
    BY <1>10, <1>12 DEF TakeRun, Accumulates
<1>14. QED
  <2> HIDE DEF g
  <2>1. QED
    BY <1>6, <1>11, <1>13

\* One step of lsrem and the values of its accumulator.
RemStep(acc, x) == IF acc.emptied THEN acc ELSE StopIfEmptied(acc.n, setTypeRemove(acc.set, x))

RemRun(g, b, s, D) ==
    /\ g \in [0 .. Len(s) -> D] /\ g[0] = b
    /\ \A n \in 1 .. Len(s) : g[n] = RemStep(g[n - 1], s[n])

\* The loop of lsrem as the values of its accumulator.
LEMMA RemFold ==
    ASSUME NEW o, o # NULL, NEW S, NEW s \in Seq(S), NEW D, [set |-> Pause(o, 1), n |-> 0, emptied |-> FALSE] \in D,
           \A x \in S : \A y \in D : RemStep(y, x) \in D
    PROVE  \E g : RemRun(g, [set |-> Pause(o, 1), n |-> 0, emptied |-> FALSE], s, D) /\ lsrem(o, s) = Removed(g[Len(s)])
<1> DEFINE N == Len(s)
           F == [p \in (1 .. N) \X D |-> RemStep(p[2], s[p[1]])]
           Eqn(it) == it = [V \in SUBSET (1 .. N) |->
                        IF V = {} THEN [set |-> Pause(o, 1), n |-> 0, emptied |-> FALSE] ELSE RemStep(it[V \ {Max(V)}], s[Max(V)])]
           it == CHOOSE it : Eqn(it)
<1>1. N \in Nat /\ DOMAIN s = 1 .. N
  OBVIOUS
<1>2. \A i \in 1 .. N : s[i] \in S
  BY ElementOfSeq
<1>3. F \in [(1 .. N) \X D -> D]
  BY <1>2
<1>4. \E jt : Eqn(jt)
  <2>1. PICK jt \in [SUBSET (1 .. N) -> D] : Iterates(jt, N, [set |-> Pause(o, 1), n |-> 0, emptied |-> FALSE], F)
    <3> HIDE DEF F, N
    <3>1. QED
      BY <1>1, <1>3, IteratorExists
  <2>2. ASSUME NEW V \in SUBSET (1 .. N), V # {}
        PROVE  F[<<Max(V), jt[V \ {Max(V)}]>>] = RemStep(jt[V \ {Max(V)}], s[Max(V)])
    <3>1. Max(V) \in 1 .. N /\ V \ {Max(V)} \in SUBSET (1 .. N)
      BY <2>2, <1>1, MaxOfPart
    <3>2. jt[V \ {Max(V)}] \in D
      BY <3>1
    <3>3. QED
      BY <3>1, <3>2
  <2>3. Eqn(jt)
    <3> HIDE DEF F, N
    <3>1. QED
      BY <2>1, <2>2 DEF Iterates
  <2>4. QED
    BY <2>3
<1>5. Eqn(it)
  <2> HIDE DEF Eqn
  <2>1. QED
    BY <1>4
<1>6. lsrem(o, s) = Removed(it[1 .. N])
  BY <1>1 DEF lsrem, FoldLeft, MapThenFoldSet, RemStep
<1> HIDE DEF it
<1>7. it[{}] = [set |-> Pause(o, 1), n |-> 0, emptied |-> FALSE]
  BY <1>5
<1>8. ASSUME NEW n \in 1 .. N
      PROVE  it[1 .. n] = RemStep(it[1 .. (n - 1)], s[n])
  <2>1. /\ 1 .. n \in SUBSET (1 .. N) /\ 1 .. n # {}
        /\ Max(1 .. n) = n /\ (1 .. n) \ {n} = 1 .. (n - 1)
    BY <1>1, MaxOfInitial
  <2>2. it[1 .. n] = RemStep(it[(1 .. n) \ {Max(1 .. n)}], s[Max(1 .. n)])
    BY <1>5, <2>1
  <2>3. QED
    BY <2>1, <2>2
<1>9. ASSUME NEW n \in 1 .. N, it[1 .. (n - 1)] \in D
      PROVE  it[1 .. n] = F[<<n, it[1 .. (n - 1)]>>]
  BY <1>8, <1>9
<1> DEFINE g == [n \in 0 .. N |-> it[1 .. n]]
<1>10. Accumulates(g, N, [set |-> Pause(o, 1), n |-> 0, emptied |-> FALSE], F, D)
  <2> HIDE DEF F, N, Eqn
  <2>1. QED
    BY <1>1, <1>3, <1>7, <1>9, AccumulatorOf
<1>11. g[N] = it[1 .. N]
  BY <1>1
<1>12. ASSUME NEW n \in 1 .. N PROVE g[n] = RemStep(g[n - 1], s[n])
  <2>1. n \in 0 .. N /\ n - 1 \in 0 .. N
    BY <1>1
  <2>2. QED
    BY <1>8, <2>1
<1>13. RemRun(g, [set |-> Pause(o, 1), n |-> 0, emptied |-> FALSE], s, D)
  <2> HIDE DEF g, F, Eqn
  <2>1. QED
    BY <1>10, <1>12 DEF RemRun, Accumulates
<1>14. QED
  <2> HIDE DEF g
  <2>1. QED
    BY <1>6, <1>11, <1>13

\* One step of lsunion_generic and the values of its accumulator.
UnionStep(limit, acc, x) == IF limit > 0 /\ acc.n >= limit THEN acc ELSE Counted(acc.n, setTypeAdd(acc.set, x))

UnionRun(g, limit, b, s, D) ==
    /\ g \in [0 .. Len(s) -> D] /\ g[0] = b
    /\ \A n \in 1 .. Len(s) : g[n] = UnionStep(limit, g[n - 1], s[n])

\* The loop of lsunion_generic as the values of its accumulator.
LEMMA UnionFold ==
    ASSUME NEW limit, NEW ops, NEW S, NEW s \in Seq(S), s = Walks(ops), NEW D,
           [set |-> dstset(ops), n |-> 0] \in D,
           \A x \in S : \A y \in D : UnionStep(limit, y, x) \in D
    PROVE  \E g : UnionRun(g, limit, [set |-> dstset(ops), n |-> 0], s, D) /\ lsunion_generic(ops, limit) = Collected(g[Len(s)])
<1> DEFINE N == Len(s)
           F == [p \in (1 .. N) \X D |-> UnionStep(limit, p[2], s[p[1]])]
           Eqn(it) == it = [V \in SUBSET (1 .. N) |->
                        IF V = {} THEN [set |-> dstset(ops), n |-> 0] ELSE UnionStep(limit, it[V \ {Max(V)}], s[Max(V)])]
           it == CHOOSE it : Eqn(it)
<1>1. N \in Nat /\ DOMAIN s = 1 .. N
  OBVIOUS
<1>2. \A i \in 1 .. N : s[i] \in S
  BY ElementOfSeq
<1>3. F \in [(1 .. N) \X D -> D]
  BY <1>2
<1>4. \E jt : Eqn(jt)
  <2>1. PICK jt \in [SUBSET (1 .. N) -> D] : Iterates(jt, N, [set |-> dstset(ops), n |-> 0], F)
    <3> HIDE DEF F, N
    <3>1. QED
      BY <1>1, <1>3, IteratorExists
  <2>2. ASSUME NEW V \in SUBSET (1 .. N), V # {}
        PROVE  F[<<Max(V), jt[V \ {Max(V)}]>>] = UnionStep(limit, jt[V \ {Max(V)}], s[Max(V)])
    <3>1. Max(V) \in 1 .. N /\ V \ {Max(V)} \in SUBSET (1 .. N)
      BY <2>2, <1>1, MaxOfPart
    <3>2. jt[V \ {Max(V)}] \in D
      BY <3>1
    <3>3. QED
      BY <3>1, <3>2
  <2>3. Eqn(jt)
    <3> HIDE DEF F, N
    <3>1. QED
      BY <2>1, <2>2 DEF Iterates
  <2>4. QED
    BY <2>3
<1>5. Eqn(it)
  <2> HIDE DEF Eqn
  <2>1. QED
    BY <1>4
<1>6. lsunion_generic(ops, limit) = Collected(it[1 .. N])
  BY <1>1 DEF lsunion_generic, Unchanged, FoldLeft, MapThenFoldSet, UnionStep
<1> HIDE DEF it
<1>7. it[{}] = [set |-> dstset(ops), n |-> 0]
  BY <1>5
<1>8. ASSUME NEW n \in 1 .. N
      PROVE  it[1 .. n] = UnionStep(limit, it[1 .. (n - 1)], s[n])
  <2>1. /\ 1 .. n \in SUBSET (1 .. N) /\ 1 .. n # {}
        /\ Max(1 .. n) = n /\ (1 .. n) \ {n} = 1 .. (n - 1)
    BY <1>1, MaxOfInitial
  <2>2. it[1 .. n] = UnionStep(limit, it[(1 .. n) \ {Max(1 .. n)}], s[Max(1 .. n)])
    BY <1>5, <2>1
  <2>3. QED
    BY <2>1, <2>2
<1>9. ASSUME NEW n \in 1 .. N, it[1 .. (n - 1)] \in D
      PROVE  it[1 .. n] = F[<<n, it[1 .. (n - 1)]>>]
  BY <1>8, <1>9
<1> DEFINE g == [n \in 0 .. N |-> it[1 .. n]]
<1>10. Accumulates(g, N, [set |-> dstset(ops), n |-> 0], F, D)
  <2> HIDE DEF F, N, Eqn
  <2>1. QED
    BY <1>1, <1>3, <1>7, <1>9, AccumulatorOf
<1>11. g[N] = it[1 .. N]
  BY <1>1
<1>12. ASSUME NEW n \in 1 .. N PROVE g[n] = UnionStep(limit, g[n - 1], s[n])
  <2>1. n \in 0 .. N /\ n - 1 \in 0 .. N
    BY <1>1
  <2>2. QED
    BY <1>8, <2>1
<1>13. UnionRun(g, limit, [set |-> dstset(ops), n |-> 0], s, D)
  <2> HIDE DEF g, F, Eqn
  <2>1. QED
    BY <1>10, <1>12 DEF UnionRun, Accumulates
<1>14. QED
  <2> HIDE DEF g
  <2>1. QED
    BY <1>6, <1>11, <1>13

LessTaken(n, r) == [set |-> r.set, n |-> n - r.n]

\* One step of diff2 and the values of its accumulator.
DiffStep(acc, x) == IF acc.n = 0 THEN acc ELSE LessTaken(acc.n, RemoveAll(acc.set, lsmembers(sobj[x])))

DiffRun(g, b, s, D) ==
    /\ g \in [0 .. Len(s) -> D] /\ g[0] = b
    /\ \A n \in 1 .. Len(s) : g[n] = DiffStep(g[n - 1], s[n])

\* The loop of diff2 as the values of its accumulator.
LEMMA DiffFold ==
    ASSUME NEW ops, NEW S, NEW s \in Seq(S), s = Tail(ops), NEW D,
           AddAll(dstset(ops), lsmembers(sobj[ops[1]])) \in D,
           \A x \in S : \A y \in D : DiffStep(y, x) \in D
    PROVE  \E g : DiffRun(g, AddAll(dstset(ops), lsmembers(sobj[ops[1]])), s, D) /\ diff2(ops) = Collected(g[Len(s)])
<1> DEFINE N == Len(s)
           F == [p \in (1 .. N) \X D |-> DiffStep(p[2], s[p[1]])]
           Eqn(it) == it = [V \in SUBSET (1 .. N) |->
                        IF V = {} THEN AddAll(dstset(ops), lsmembers(sobj[ops[1]])) ELSE DiffStep(it[V \ {Max(V)}], s[Max(V)])]
           it == CHOOSE it : Eqn(it)
<1>1. N \in Nat /\ DOMAIN s = 1 .. N
  OBVIOUS
<1>2. \A i \in 1 .. N : s[i] \in S
  BY ElementOfSeq
<1>3. F \in [(1 .. N) \X D -> D]
  BY <1>2
<1>4. \E jt : Eqn(jt)
  <2>1. PICK jt \in [SUBSET (1 .. N) -> D] : Iterates(jt, N, AddAll(dstset(ops), lsmembers(sobj[ops[1]])), F)
    <3> HIDE DEF F, N
    <3>1. QED
      BY <1>1, <1>3, IteratorExists
  <2>2. ASSUME NEW V \in SUBSET (1 .. N), V # {}
        PROVE  F[<<Max(V), jt[V \ {Max(V)}]>>] = DiffStep(jt[V \ {Max(V)}], s[Max(V)])
    <3>1. Max(V) \in 1 .. N /\ V \ {Max(V)} \in SUBSET (1 .. N)
      BY <2>2, <1>1, MaxOfPart
    <3>2. jt[V \ {Max(V)}] \in D
      BY <3>1
    <3>3. QED
      BY <3>1, <3>2
  <2>3. Eqn(jt)
    <3> HIDE DEF F, N
    <3>1. QED
      BY <2>1, <2>2 DEF Iterates
  <2>4. QED
    BY <2>3
<1>5. Eqn(it)
  <2> HIDE DEF Eqn
  <2>1. QED
    BY <1>4
<1>6. diff2(ops) = Collected(it[1 .. N])
  BY <1>1 DEF diff2, FoldLeft, MapThenFoldSet, DiffStep, LessTaken
<1> HIDE DEF it
<1>7. it[{}] = AddAll(dstset(ops), lsmembers(sobj[ops[1]]))
  BY <1>5
<1>8. ASSUME NEW n \in 1 .. N
      PROVE  it[1 .. n] = DiffStep(it[1 .. (n - 1)], s[n])
  <2>1. /\ 1 .. n \in SUBSET (1 .. N) /\ 1 .. n # {}
        /\ Max(1 .. n) = n /\ (1 .. n) \ {n} = 1 .. (n - 1)
    BY <1>1, MaxOfInitial
  <2>2. it[1 .. n] = DiffStep(it[(1 .. n) \ {Max(1 .. n)}], s[Max(1 .. n)])
    BY <1>5, <2>1
  <2>3. QED
    BY <2>1, <2>2
<1>9. ASSUME NEW n \in 1 .. N, it[1 .. (n - 1)] \in D
      PROVE  it[1 .. n] = F[<<n, it[1 .. (n - 1)]>>]
  BY <1>8, <1>9
<1> DEFINE g == [n \in 0 .. N |-> it[1 .. n]]
<1>10. Accumulates(g, N, AddAll(dstset(ops), lsmembers(sobj[ops[1]])), F, D)
  <2> HIDE DEF F, N, Eqn
  <2>1. QED
    BY <1>1, <1>3, <1>7, <1>9, AccumulatorOf
<1>11. g[N] = it[1 .. N]
  BY <1>1
<1>12. ASSUME NEW n \in 1 .. N PROVE g[n] = DiffStep(g[n - 1], s[n])
  <2>1. n \in 0 .. N /\ n - 1 \in 0 .. N
    BY <1>1
  <2>2. QED
    BY <1>8, <2>1
<1>13. DiffRun(g, AddAll(dstset(ops), lsmembers(sobj[ops[1]])), s, D)
  <2> HIDE DEF g, F, Eqn
  <2>1. QED
    BY <1>10, <1>12 DEF DiffRun, Accumulates
<1>14. QED
  <2> HIDE DEF g
  <2>1. QED
    BY <1>6, <1>11, <1>13

-----------------------------------------------------------------------------
(* Select. *)

\* What selecting the elements in R leaves of s.
Selected(t, s, R, S) ==
    /\ t \in Seq(S) /\ ToSet(t) = ToSet(s) \cap R
    /\ IsInjective(s) => IsInjective(t)

\* Select keeps the elements that are in the set, and their order has no repetition
\* unless the sequence had one.
LEMMA SelectIs ==
    ASSUME NEW S, NEW s \in Seq(S), NEW R
    PROVE  Selected(Select(s, R), s, R, S)
<1> DEFINE N == Len(s)
           t == Select(s, R)
<1> SUFFICES Selected(t, s, R, S)
  OBVIOUS
<1>1. N \in Nat /\ DOMAIN s = 1 .. N
  OBVIOUS
<1>2. <<>> \in Seq(S) /\ \A x \in S : \A y \in Seq(S) : SelectStep(R, y, x) \in Seq(S)
  BY DEF SelectStep
<1>3. PICK g : SelectRun(g, R, <<>>, s, Seq(S)) /\ t = g[N]
  BY <1>2, SelectFold
<1> HIDE DEF t
<1> DEFINE T == {k \in 0 .. N : /\ ToSet(g[k]) = First(s, k) \cap R
                                /\ IsInjective(s) => IsInjective(g[k])}
<1>4. g \in [0 .. N -> Seq(S)] /\ g[0] = <<>>
  BY <1>3 DEF SelectRun
<1>5. 0 \in T
  <2>1. First(s, 0) = {}
    BY FirstIs
  <2>2. ToSet(<<>>) = {} /\ IsInjective(<<>>)
    BY DEF ToSet, IsInjective
  <2>3. QED
    BY <1>1, <1>4, <2>1, <2>2
<1>6. ASSUME NEW k \in 0 .. (N - 1), k \in T PROVE k + 1 \in T
  <2>1. k + 1 \in 1 .. N /\ (k + 1) - 1 = k /\ k + 1 \in 0 .. N /\ k \in 0 .. N
    BY <1>1
  <2>2. g[k + 1] = SelectStep(R, g[k], s[k + 1]) /\ g[k] \in Seq(S)
    BY <1>3, <2>1 DEF SelectRun
  <2>3. First(s, k + 1) = First(s, k) \cup {s[k + 1]} /\ s[k + 1] \in S
    BY <2>1, FirstIs
  <2>4. ToSet(g[k]) = First(s, k) \cap R /\ (IsInjective(s) => IsInjective(g[k]))
    BY <1>6
  <2>5. CASE s[k + 1] \notin R
    BY <2>1, <2>2, <2>3, <2>4, <2>5 DEF SelectStep
  <2>6. CASE s[k + 1] \in R
    <3>1. g[k + 1] = Append(g[k], s[k + 1])
      BY <2>2, <2>6 DEF SelectStep
    <3>2. /\ ToSet(g[k + 1]) = ToSet(g[k]) \cup {s[k + 1]}
          /\ IsInjective(g[k]) /\ s[k + 1] \notin ToSet(g[k]) => IsInjective(g[k + 1])
      BY <2>2, <2>3, <3>1, Appended
    <3>3. IsInjective(s) => s[k + 1] \notin First(s, k)
      <4>1. \A i \in 1 .. k : i \in DOMAIN s /\ i # k + 1 /\ k + 1 \in DOMAIN s
        BY <1>1, <2>1
      <4>2. QED
        BY <4>1 DEF First, IsInjective
    <3>4. ToSet(g[k + 1]) = First(s, k + 1) \cap R
      BY <2>3, <2>4, <2>6, <3>2
    <3>5. IsInjective(s) => IsInjective(g[k + 1])
      BY <2>4, <3>2, <3>3
    <3>6. QED
      BY <2>1, <3>4, <3>5
  <2>7. QED
    BY <2>5, <2>6
<1>7. N \in T
  <2> HIDE DEF T
  <2>1. \A k \in 0 .. N : k \in T
    BY <1>1, <1>5, <1>6, UpTo
  <2>2. QED
    BY <1>1, <2>1
<1>8. ToSet(t) = ToSet(s) \cap R /\ (IsInjective(s) => IsInjective(t))
  BY <1>3, <1>7, FirstIs
<1>9. t \in Seq(S)
  BY <1>1, <1>3, <1>4
<1>10. QED
  BY <1>8, <1>9 DEF Selected

-----------------------------------------------------------------------------
(* Payloads. *)

\* A payload whose table, if it is one, has its auto-resize paused p times.
Good(set, p) ==
    \/ /\ set.encoding = "intset" /\ GoodIntset(set.ptr)
       /\ Contents(set.ptr) \subseteq Ints
       /\ set.ptr.length <= set_max_intset_entries
    \/ /\ set.encoding = "listpack" /\ IsInjective(set.ptr)
       /\ Len(set.ptr) <= set_max_listpack_entries
       /\ ToSet(set.ptr) \cap Long = {}
    \/ set.encoding = "ht" /\ set.ptr.pauseAutoResize = p

GoodObjects(p) == {set \in Objects : Good(set, p)}

\* The elements of a payload.
Holdings(set) == ToSet(setTypeWalk(set))

\* The three kinds.
LEMMA Kinds ==
    ASSUME NEW p, NEW set \in GoodObjects(p)
    PROVE  /\ set # NULL /\ set # Freed
           /\ \/ /\ set.encoding = "intset" /\ set = [encoding |-> "intset", ptr |-> set.ptr]
                 /\ set.ptr \in Blocks /\ GoodIntset(set.ptr) /\ Contents(set.ptr) \subseteq Ints
                 /\ set.ptr.length <= set_max_intset_entries
              \/ /\ set.encoding = "listpack" /\ set = [encoding |-> "listpack", ptr |-> set.ptr]
                 /\ set.ptr \in Seq(Members)
                 /\ IsInjective(set.ptr) /\ Len(set.ptr) <= set_max_listpack_entries
                 /\ ToSet(set.ptr) \cap Long = {}
              \/ /\ set.encoding = "ht" /\ set = [encoding |-> "ht", ptr |-> set.ptr]
                 /\ set.ptr = [keys |-> set.ptr.keys, pauseAutoResize |-> p]
                 /\ set.ptr.keys \subseteq Members
                 /\ p \in Nat
<1>1. set \in Objects /\ Good(set, p)
  BY DEF GoodObjects
<1>2. set # NULL /\ set # Freed
  BY <1>1, RedisSetAssumption
<1>3. CASE set \in [encoding : {"intset"}, ptr : Blocks]
  BY <1>1, <1>2, <1>3 DEF Good
<1>4. CASE set \in [encoding : {"listpack"}, ptr : Seq(Members)]
  BY <1>1, <1>2, <1>4 DEF Good
<1>5. CASE set \in [encoding : {"ht"}, ptr : [keys : SUBSET Members, pauseAutoResize : Nat]]
  BY <1>1, <1>2, <1>5 DEF Good
<1>6. QED
  BY <1>1, <1>3, <1>4, <1>5 DEF Objects

\* What the reads of a payload say.
WalkFacts(set) ==
    /\ setTypeWalk(set) \in Seq(Members) /\ IsInjective(setTypeWalk(set))
    /\ Holdings(set) \subseteq Members /\ IsFiniteSet(Holdings(set))
    /\ Len(setTypeWalk(set)) = Cardinality(Holdings(set))
    /\ setTypeSize(set) = Cardinality(Holdings(set)) /\ setTypeSize(set) \in Nat
    /\ \A m \in Members : setTypeIsMember(set, m) <=> m \in Holdings(set)

\* A walk meets every member once, the size counts them and the search finds them.
LEMMA Walk ==
    ASSUME NEW p, NEW set \in GoodObjects(p)
    PROVE  WalkFacts(set)
<1> DEFINE w == setTypeWalk(set)
<1>1. /\ w \in Seq(Members) /\ IsInjective(w)
      /\ setTypeSize(set) = Len(w) \/ setTypeSize(set) = Cardinality(ToSet(w))
      /\ \A m \in Members : setTypeIsMember(set, m) <=> m \in ToSet(w)
  <2>1. CASE set.encoding = "intset"
    <3> DEFINE is == set.ptr
               e == intsetElements(is)
    <3>1. GoodIntset(is) /\ Contents(is) \subseteq Ints
      BY <2>1, Kinds
    <3>2. w = e /\ setTypeSize(set) = is.length
      BY <2>1 DEF setTypeWalk, setTypeSize
    <3>3. GoodFacts(is, e)
      BY <3>1, GoodParts
    <3>4. e \in Seq(Int) /\ is.length = Len(e) /\ DOMAIN e = 1 .. Len(e)
      BY <3>3 DEF GoodFacts
    <3>5. IsInjective(e)
      <4>1. \A i, j \in 1 .. is.length : e[i] = e[j] => i = j
        BY <3>1, GoodInjective
      <4>2. QED
        BY <3>4, <4>1 DEF IsInjective
    <3>6. e \in Seq(Members)
      <4>1. \A i \in 1 .. Len(e) : e[i] \in Members
        BY <3>1, <3>4 DEF Contents, ToSet, Members
      <4>2. QED
        BY <3>4, <4>1
    <3>7. ASSUME NEW m \in Members PROVE setTypeIsMember(set, m) <=> m \in ToSet(e)
      <4>1. setTypeIsMember(set, m) <=> m \in Ints /\ intsetFind(is, m)
        BY <2>1 DEF setTypeIsMember
      <4>2. m \in Ints => (intsetFind(is, m) <=> m \in Contents(is))
        BY <3>1, IntsetFindIs, RedisSetAssumption
      <4>3. QED
        BY <3>1, <4>1, <4>2 DEF Contents
    <3>8. QED
      BY <3>2, <3>4, <3>5, <3>6, <3>7
  <2>2. CASE set.encoding = "listpack"
    <3>1. set.ptr \in Seq(Members) /\ IsInjective(set.ptr)
      BY <2>2, Kinds
    <3>2. w = set.ptr /\ setTypeSize(set) = Len(w)
      BY <2>2 DEF setTypeWalk, setTypeSize
    <3>3. ASSUME NEW m \in Members PROVE setTypeIsMember(set, m) <=> m \in ToSet(set.ptr)
      <4>1. setTypeIsMember(set, m) <=> Contains(set.ptr, m)
        BY <2>2 DEF setTypeIsMember
      <4>2. Contains(set.ptr, m) <=> m \in ToSet(set.ptr)
        BY <3>1 DEF Contains, ToSet
      <4>3. QED
        BY <4>1, <4>2
    <3>4. QED
      BY <3>1, <3>2, <3>3
  <2>3. CASE set.encoding = "ht"
    <3>1. set.ptr.keys \subseteq Members
      BY <2>3, Kinds
    <3>2. w = Select(ByteOrder, set.ptr.keys) /\ setTypeSize(set) = Cardinality(set.ptr.keys)
      BY <2>3 DEF setTypeWalk, setTypeSize
    <3>3. Selected(w, ByteOrder, set.ptr.keys, Members)
      BY <3>2, SelectIs, RedisSetAssumption
    <3>4. w \in Seq(Members) /\ IsInjective(w) /\ ToSet(w) = set.ptr.keys
      BY <3>1, <3>3, RedisSetAssumption DEF Selected
    <3>5. ASSUME NEW m \in Members PROVE setTypeIsMember(set, m) <=> m \in set.ptr.keys
      BY <2>3 DEF setTypeIsMember
    <3>6. QED
      BY <3>2, <3>4, <3>5
  <2>4. QED
    BY <2>1, <2>2, <2>3, Kinds
<1> HIDE DEF w
<1>2. IsFiniteSet(ToSet(w)) /\ Cardinality(ToSet(w)) = Len(w)
  BY <1>1, DistinctCount
<1>3. setTypeSize(set) = Cardinality(ToSet(w)) /\ setTypeSize(set) \in Nat
  BY <1>1, <1>2
<1>4. ToSet(w) \subseteq Members
  BY <1>1, FirstIs
<1>5. QED
  BY <1>1, <1>2, <1>3, <1>4 DEF WalkFacts, Holdings, w

-----------------------------------------------------------------------------
(* Adding and removing one member. *)

\* A good payload and what it holds.
Is(set, p, S) == set \in GoodObjects(p) /\ Holdings(set) = S

IntsetObject(is) == [encoding |-> "intset", ptr |-> is]

ListObject(lp) == [encoding |-> "listpack", ptr |-> lp]

TableObject(K, p) == [encoding |-> "ht", ptr |-> [keys |-> K, pauseAutoResize |-> p]]

\* A payload made of an intset.
LEMMA IntsetObjectIs ==
    ASSUME NEW p, NEW is, GoodIntset(is), Contents(is) \subseteq Ints,
           is.length <= set_max_intset_entries
    PROVE  Is(IntsetObject(is), p, Contents(is))
<1>1. is \in Blocks
  BY DEF GoodIntset, Holding
<1>2. IntsetObject(is) \in GoodObjects(p)
  BY <1>1 DEF GoodObjects, Good, Objects, IntsetObject
<1>3. QED
  BY <1>2 DEF Is, Holdings, setTypeWalk, Contents, IntsetObject

\* A payload made of a listpack.
LEMMA ListObjectIs ==
    ASSUME NEW p, NEW lp \in Seq(Members), IsInjective(lp),
           Len(lp) <= set_max_listpack_entries, ToSet(lp) \cap Long = {}
    PROVE  Is(ListObject(lp), p, ToSet(lp))
<1>1. ListObject(lp) \in GoodObjects(p)
  BY DEF GoodObjects, Good, Objects, ListObject
<1>2. QED
  BY <1>1 DEF Is, Holdings, setTypeWalk, ListObject

\* What a walk of a hash table meets.
LEMMA KeysWalked ==
    ASSUME NEW K, K \subseteq Members
    PROVE  ToSet(Select(ByteOrder, K)) = K
<1>1. Selected(Select(ByteOrder, K), ByteOrder, K, Members)
  BY SelectIs, RedisSetAssumption
<1>2. QED
  BY <1>1, RedisSetAssumption DEF Selected

\* A payload made of a hash table.
LEMMA TableObjectIs ==
    ASSUME NEW p \in Nat, NEW K, K \subseteq Members
    PROVE  Is(TableObject(K, p), p, K)
<1>1. TableObject(K, p) \in GoodObjects(p)
  BY DEF GoodObjects, Good, Objects, TableObject
<1>2. Holdings(TableObject(K, p)) = ToSet(Select(ByteOrder, K))
  BY DEF Holdings, setTypeWalk, TableObject
<1>3. QED
  BY <1>1, <1>2, KeysWalked DEF Is

\* The holdings by kind.
LEMMA HoldingsOf ==
    ASSUME NEW p, NEW set \in GoodObjects(p)
    PROVE  /\ set.encoding = "intset" => Holdings(set) = Contents(set.ptr)
           /\ set.encoding = "listpack" => Holdings(set) = ToSet(set.ptr)
           /\ set.encoding = "ht" => Holdings(set) = set.ptr.keys
<1>1. set.encoding = "intset" => Holdings(set) = Contents(set.ptr)
  BY DEF Holdings, setTypeWalk, Contents
<1>2. set.encoding = "listpack" => Holdings(set) = ToSet(set.ptr)
  BY DEF Holdings, setTypeWalk
<1>3. ASSUME set.encoding = "ht" PROVE Holdings(set) = set.ptr.keys
  <2>1. Holdings(set) = ToSet(Select(ByteOrder, set.ptr.keys))
    BY <1>3 DEF Holdings, setTypeWalk
  <2>2. set.ptr.keys \subseteq Members
    BY <1>3, Kinds
  <2>3. QED
    BY <2>1, <2>2, KeysWalked
<1>4. QED
  BY <1>1, <1>2, <1>3

\* An intset payload.
LEMMA AsIntset ==
    ASSUME NEW p, NEW set \in GoodObjects(p), set.encoding = "intset"
    PROVE  /\ set = IntsetObject(set.ptr) /\ GoodIntset(set.ptr) /\ Contents(set.ptr) \subseteq Ints
           /\ Holdings(set) = Contents(set.ptr) /\ set.ptr.length <= set_max_intset_entries
<1>1. /\ set = IntsetObject(set.ptr) /\ GoodIntset(set.ptr) /\ Contents(set.ptr) \subseteq Ints
      /\ set.ptr.length <= set_max_intset_entries
  BY Kinds DEF IntsetObject
<1>2. Holdings(set) = Contents(set.ptr)
  BY HoldingsOf
<1>3. QED
  BY <1>1, <1>2

\* A listpack payload.
LEMMA AsList ==
    ASSUME NEW p, NEW set \in GoodObjects(p), set.encoding = "listpack"
    PROVE  /\ set = ListObject(set.ptr) /\ set.ptr \in Seq(Members) /\ IsInjective(set.ptr)
           /\ Holdings(set) = ToSet(set.ptr) /\ Len(set.ptr) <= set_max_listpack_entries
           /\ Holdings(set) \cap Long = {}
<1>1. /\ set = ListObject(set.ptr) /\ set.ptr \in Seq(Members) /\ IsInjective(set.ptr)
      /\ Len(set.ptr) <= set_max_listpack_entries /\ ToSet(set.ptr) \cap Long = {}
  BY Kinds DEF ListObject
<1>2. Holdings(set) = ToSet(set.ptr)
  BY HoldingsOf
<1>3. QED
  BY <1>1, <1>2

\* A hash table payload.
LEMMA AsTable ==
    ASSUME NEW p, NEW set \in GoodObjects(p), set.encoding = "ht"
    PROVE  /\ set = TableObject(Holdings(set), p) /\ p \in Nat
           /\ Holdings(set) \subseteq Members
<1>1. /\ set = TableObject(set.ptr.keys, p) /\ p \in Nat /\ set.ptr.keys \subseteq Members
  BY Kinds DEF TableObject
<1>2. Holdings(set) = set.ptr.keys
  BY HoldingsOf
<1>3. QED
  BY <1>1, <1>2

\* Turning a payload into a table keeps its members.
LEMMA ConvertedToTable ==
    ASSUME NEW set, WalkFacts(set)
    PROVE  setTypeConvert(set, "ht") = TableObject(Holdings(set), 0)
BY DEF setTypeConvert, Filled, createSetObject, TableObject, Holdings

\* An empty payload of every kind.
LEMMA EmptyObjects ==
    ASSUME NEW p \in Nat
    PROVE  /\ Is(createIntsetObject, p, {}) /\ Is(createSetListpackObject, p, {})
           /\ Is(createSetObject, 0, {})
<1>1. GoodIntset(intsetNew) /\ Contents(intsetNew) = {} /\ intsetNew.length <= set_max_intset_entries
  BY NewGood, RedisSetAssumption DEF Contents, ToSet, intsetNew
<1>2. Is(createIntsetObject, p, {})
  <2>1. Is(IntsetObject(intsetNew), p, Contents(intsetNew))
    BY <1>1, IntsetObjectIs
  <2>2. QED
    BY <1>1, <2>1 DEF createIntsetObject, IntsetObject
<1>3. Is(createSetListpackObject, p, {})
  <2>1. /\ <<>> \in Seq(Members) /\ IsInjective(<<>>) /\ ToSet(<<>>) = {}
        /\ Len(<<>>) <= set_max_listpack_entries
    BY RedisSetAssumption DEF IsInjective, ToSet
  <2>2. Is(ListObject(<<>>), p, ToSet(<<>>))
    BY <2>1, ListObjectIs
  <2>3. QED
    BY <2>1, <2>2 DEF createSetListpackObject, ListObject
<1>4. Is(createSetObject, 0, {})
  BY TableObjectIs DEF createSetObject, TableObject
<1>5. QED
  BY <1>2, <1>3, <1>4

\* What adding one member does.
OneAdded(r, set, m) ==
    /\ Is(r.set, 0, Holdings(set) \cup {m})
    /\ r.n = IF m \in Holdings(set) THEN 0 ELSE 1

\* Adding an integer to an intset.
LEMMA AddInteger ==
    ASSUME NEW set \in GoodObjects(0), set.encoding = "intset", NEW m \in Ints
    PROVE  OneAdded(AddedInteger(set, intsetAdd(set.ptr, m)), set, m)
<1> DEFINE is == set.ptr
           r == intsetAdd(is, m)
           H == Holdings(set)
           R == AddedInteger(set, r)
<1> SUFFICES OneAdded(R, set, m)
  OBVIOUS
<1>1. /\ GoodIntset(is) /\ Contents(is) \subseteq Ints /\ H = Contents(is)
      /\ set = IntsetObject(is) /\ is.length <= set_max_intset_entries
  BY AsIntset
<1>2. AddEffect(r, is, m)
  BY <1>1, IntsetAddIs, RedisSetAssumption
<1> HIDE DEF H, r
<1>3. CASE m \in H
  <2>1. r.success = 0
    BY <1>1, <1>2, <1>3 DEF AddEffect
  <2>2. R = [set |-> set, n |-> 0]
    BY <2>1 DEF AddedInteger
  <2>3. H \cup {m} = H
    BY <1>3
  <2>4. QED
    BY <1>3, <2>2, <2>3 DEF OneAdded, Is, H
<1>4. CASE m \notin H
  <2>1. /\ r.success = 1 /\ GoodIntset(r.is) /\ Contents(r.is) = H \cup {m}
    BY <1>1, <1>2, <1>4 DEF AddEffect
  <2> DEFINE new == IntsetObject(r.is)
  <2>2. [set EXCEPT !.ptr = r.is] = new
    BY <1>1 DEF IntsetObject
  <2>3. R = [set |-> maybeConvertIntset(new), n |-> 1]
    BY <2>1, <2>2 DEF AddedInteger
  <2>4. Contents(r.is) \subseteq Ints
    BY <1>1, <2>1
  <2>5. Is(maybeConvertIntset(new), 0, H \cup {m})
    <3>1. CASE r.is.length <= set_max_intset_entries
      <4>1. maybeConvertIntset(new) = new
        <5>1. r.is.length \in Nat
          BY <2>1, GoodParts DEF GoodFacts
        <5>2. QED
          BY <3>1, <5>1, RedisSetAssumption DEF maybeConvertIntset, IntsetObject
      <4>2. QED
        BY <2>1, <2>4, <3>1, <4>1, IntsetObjectIs
    <3>2. CASE ~ (r.is.length <= set_max_intset_entries)
      <4>1. maybeConvertIntset(new) = setTypeConvert(new, "ht")
        <5>1. r.is.length \in Nat
          BY <2>1, GoodParts DEF GoodFacts
        <5>2. QED
          BY <3>2, <5>1, RedisSetAssumption DEF maybeConvertIntset, IntsetObject
      <4>2. setTypeWalk(new) = intsetElements(r.is)
        BY DEF setTypeWalk, IntsetObject
      <4>3. setTypeConvert(new, "ht") = TableObject(Contents(r.is), 0)
        BY <4>2 DEF setTypeConvert, Filled, createSetObject, TableObject, Contents
      <4>4. Contents(r.is) \subseteq Members
        BY <2>4 DEF Members
      <4>5. Is(TableObject(Contents(r.is), 0), 0, Contents(r.is))
        BY <4>4, TableObjectIs
      <4>6. QED
        BY <2>1, <4>1, <4>3, <4>5
    <3>3. QED
      BY <3>1, <3>2
  <2>6. QED
    BY <1>4, <2>3, <2>5 DEF OneAdded, H
<1>5. QED
  BY <1>3, <1>4

\* A table, or a payload made a table, takes a member.
LEMMA DictAddIs ==
    ASSUME NEW K, K \subseteq Members, NEW m \in Members
    PROVE  Is(DictAdd(TableObject(K, 0), m), 0, K \cup {m})
<1>1. DictAdd(TableObject(K, 0), m) = TableObject(K \cup {m}, 0)
  BY DEF DictAdd, TableObject
<1>2. K \cup {m} \subseteq Members
  OBVIOUS
<1>3. QED
  BY <1>1, <1>2, TableObjectIs

\* A listpack takes a member that fits.
LEMMA AppendToIs ==
    ASSUME NEW lp \in Seq(Members), IsInjective(lp), ToSet(lp) \cap Long = {},
           NEW m \in Members, m \notin ToSet(lp), FitsListpack(Len(lp), m)
    PROVE  Is(AppendTo(ListObject(lp), m), 0, ToSet(lp) \cup {m})
<1>1. AppendTo(ListObject(lp), m) = ListObject(Append(lp, m))
  BY DEF AppendTo, ListObject
<1>2. /\ Append(lp, m) \in Seq(Members) /\ Len(Append(lp, m)) = Len(lp) + 1
      /\ ToSet(Append(lp, m)) = ToSet(lp) \cup {m} /\ IsInjective(Append(lp, m))
  BY Appended
<1>3. Len(lp) + 1 <= set_max_listpack_entries /\ m \notin Long
  BY RedisSetAssumption DEF FitsListpack
<1>4. ToSet(Append(lp, m)) \cap Long = {}
  BY <1>2, <1>3
<1>5. QED
  BY <1>1, <1>2, <1>3, <1>4, ListObjectIs

\* A member that is not there yet enlarges the payload by itself.
LEMMA EnlargedIs ==
    ASSUME NEW set \in GoodObjects(0), NEW m \in Members, m \notin Holdings(set)
    PROVE  Is(Enlarged(set, m), 0, Holdings(set) \cup {m})
<1> DEFINE w == setTypeWalk(set)
<1>1. WalkFacts(set)
  BY Walk
<1>2. /\ w \in Seq(Members) /\ IsInjective(w) /\ ToSet(w) = Holdings(set)
      /\ Holdings(set) \subseteq Members /\ setTypeSize(set) = Len(w)
  BY <1>1 DEF WalkFacts, Holdings
<1>3. CASE set.encoding = "ht"
  <2>1. Enlarged(set, m) = DictAdd(set, m)
    BY <1>3 DEF Enlarged
  <2>2. set = TableObject(Holdings(set), 0)
    BY <1>3, AsTable
  <2>3. QED
    BY <1>2, <2>1, <2>2, DictAddIs
<1>4. CASE set.encoding # "ht" /\ ~ FitsListpack(setTypeSize(set), m)
  <2>1. Enlarged(set, m) = DictAdd(setTypeConvert(set, "ht"), m)
    BY <1>4 DEF Enlarged
  <2>2. setTypeConvert(set, "ht") = TableObject(Holdings(set), 0)
    BY <1>1, ConvertedToTable
  <2>3. QED
    BY <1>2, <2>1, <2>2, DictAddIs
<1>5. CASE set.encoding # "ht" /\ FitsListpack(setTypeSize(set), m)
  <2>1. Enlarged(set, m) = AppendTo(ListObject(w), m) /\ Holdings(set) \cap Long = {}
    <3>1. CASE set.encoding = "intset"
      <4>1. Enlarged(set, m) = AppendTo(setTypeConvert(set, "listpack"), m)
        BY <1>5, <3>1 DEF Enlarged
      <4>2. setTypeConvert(set, "listpack") = ListObject(w)
        BY DEF setTypeConvert, Filled, createSetListpackObject, ListObject
      <4>3. Holdings(set) \subseteq Ints
        BY <3>1, AsIntset
      <4>4. QED
        BY <4>1, <4>2, <4>3, RedisSetAssumption
    <3>2. CASE set.encoding = "listpack"
      <4>1. Enlarged(set, m) = AppendTo(set, m)
        BY <1>5, <3>2 DEF Enlarged
      <4>2. set = ListObject(w)
        BY <3>2, Kinds DEF setTypeWalk, ListObject
      <4>3. Holdings(set) \cap Long = {}
        BY <3>2, AsList
      <4>4. QED
        BY <4>1, <4>2, <4>3
    <3>3. QED
      BY <1>5, <3>1, <3>2, Kinds
  <2> HIDE DEF w
  <2>2. FitsListpack(Len(w), m)
    BY <1>2, <1>5
  <2>3. Is(AppendTo(ListObject(w), m), 0, ToSet(w) \cup {m})
    BY <1>2, <2>1, <2>2, AppendToIs
  <2>4. QED
    BY <1>2, <2>1, <2>3
<1>6. QED
  BY <1>3, <1>4, <1>5

\* setTypeAdd adds one member, whatever the encodings before and after.
LEMMA AddIs ==
    ASSUME NEW set \in GoodObjects(0), NEW m \in Members
    PROVE  OneAdded(setTypeAdd(set, m), set, m)
<1>1. CASE set.encoding = "intset" /\ m \in Ints
  BY <1>1, AddInteger DEF setTypeAdd
<1>2. CASE ~ (set.encoding = "intset" /\ m \in Ints) /\ m \in Holdings(set)
  <2>1. setTypeIsMember(set, m)
    BY <1>2, Walk DEF WalkFacts
  <2>2. setTypeAdd(set, m) = [set |-> set, n |-> 0]
    BY <1>2, <2>1 DEF setTypeAdd, Unchanged
  <2>3. Holdings(set) \cup {m} = Holdings(set)
    BY <1>2
  <2>4. QED
    BY <1>2, <2>2, <2>3 DEF OneAdded, Is
<1>3. CASE ~ (set.encoding = "intset" /\ m \in Ints) /\ m \notin Holdings(set)
  <2>1. ~ setTypeIsMember(set, m)
    BY <1>3, Walk DEF WalkFacts
  <2>2. setTypeAdd(set, m) = [set |-> Enlarged(set, m), n |-> 1]
    BY <1>3, <2>1 DEF setTypeAdd
  <2>3. QED
    BY <1>3, <2>2, EnlargedIs DEF OneAdded
<1>4. QED
  BY <1>1, <1>2, <1>3

\* What removing one member does.
OneRemoved(r, p, set, m) ==
    /\ Is(r.set, p, Holdings(set) \ {m})
    /\ r.n = IF m \in Holdings(set) THEN 1 ELSE 0

\* setTypeRemove removes one member and changes neither the encoding nor the pause.
LEMMA RemoveIs ==
    ASSUME NEW p, NEW set \in GoodObjects(p), NEW m \in Members
    PROVE  OneRemoved(setTypeRemove(set, m), p, set, m)
<1> DEFINE H == Holdings(set)
           R == setTypeRemove(set, m)
<1> SUFFICES OneRemoved(R, p, set, m)
  OBVIOUS
<1>1. CASE set.encoding = "intset" /\ m \in Ints
  <2> DEFINE is == set.ptr
             r == intsetRemove(is, m)
  <2>1. /\ GoodIntset(is) /\ Contents(is) \subseteq Ints /\ H = Contents(is)
        /\ set = IntsetObject(is) /\ is.length <= set_max_intset_entries
    BY <1>1, AsIntset
  <2>2. RemoveEffect(r, is, m)
    BY <1>1, <2>1, IntsetRemoveIs, RedisSetAssumption
  <2>3. R = RemovedInteger(set, r)
    BY <1>1 DEF setTypeRemove
  <2> HIDE DEF r
  <2>4. R = [set |-> IntsetObject(r.is), n |-> r.success]
    BY <2>1, <2>3 DEF RemovedInteger, IntsetObject
  <2>5. /\ GoodIntset(r.is) /\ Contents(r.is) = H \ {m}
        /\ r.success = IF m \in H THEN 1 ELSE 0
    BY <2>1, <2>2 DEF RemoveEffect
  <2>6. r.is.length <= set_max_intset_entries
    <3>1. is.length \in Nat /\ r.is.length \in Nat
      BY <2>1, <2>5, GoodParts DEF GoodFacts
    <3>2. r.is.length = is.length - r.success /\ r.success \in {0, 1}
      BY <2>2, <2>5 DEF RemoveEffect
    <3>3. QED
      BY <2>1, <3>1, <3>2, RedisSetAssumption
  <2>7. Contents(r.is) \subseteq Ints
    BY <2>1, <2>5
  <2>8. Is(IntsetObject(r.is), p, H \ {m})
    BY <2>5, <2>6, <2>7, IntsetObjectIs
  <2>9. QED
    BY <2>4, <2>5, <2>8 DEF OneRemoved
<1>2. CASE ~ (set.encoding = "intset" /\ m \in Ints) /\ m \notin H
  <2>1. ~ setTypeIsMember(set, m)
    BY <1>2, Walk DEF WalkFacts
  <2>2. R = [set |-> set, n |-> 0]
    BY <1>2, <2>1 DEF setTypeRemove, Unchanged
  <2>3. H \ {m} = H
    BY <1>2
  <2>4. QED
    BY <1>2, <2>2, <2>3 DEF OneRemoved, Is
<1>3. CASE ~ (set.encoding = "intset" /\ m \in Ints) /\ m \in H
  <2>1. setTypeIsMember(set, m)
    BY <1>3, Walk DEF WalkFacts
  <2>2. CASE set.encoding = "ht"
    <3>1. R = [set |-> [set EXCEPT !.ptr.keys = @ \ {m}], n |-> 1]
      BY <1>3, <2>1, <2>2 DEF setTypeRemove
    <3>2. set = TableObject(H, p) /\ p \in Nat /\ H \subseteq Members
      BY <2>2, AsTable
    <3> HIDE DEF H
    <3>3. [set EXCEPT !.ptr.keys = @ \ {m}] = TableObject(H \ {m}, p)
      BY <3>2 DEF TableObject
    <3>4. H \ {m} \subseteq Members
      BY <3>2
    <3>5. Is(TableObject(H \ {m}, p), p, H \ {m})
      BY <3>2, <3>4, TableObjectIs
    <3>6. QED
      BY <1>3, <3>1, <3>3, <3>5 DEF OneRemoved, H
  <2>3. CASE set.encoding = "listpack"
    <3> DEFINE lp == set.ptr
               new == RemoveFirst(lp, m)
    <3>1. R = [set |-> [set EXCEPT !.ptr = RemoveFirst(@, m)], n |-> 1]
      BY <1>3, <2>1, <2>3 DEF setTypeRemove
    <3>2. /\ set = ListObject(lp) /\ lp \in Seq(Members) /\ IsInjective(lp) /\ H = ToSet(lp)
          /\ Len(lp) <= set_max_listpack_entries /\ H \cap Long = {}
      BY <2>3, AsList
    <3>3. /\ new \in Seq(Members) /\ Len(new) = Len(lp) - 1
          /\ IsInjective(new) /\ ToSet(new) = ToSet(lp) \ {m}
      BY <1>3, <3>2, RemoveFirstIs
    <3> HIDE DEF new
    <3>4. [set EXCEPT !.ptr = RemoveFirst(@, m)] = ListObject(new)
      BY <3>2 DEF ListObject, new
    <3>5. Len(new) <= set_max_listpack_entries /\ ToSet(new) \cap Long = {}
      BY <3>2, <3>3, RedisSetAssumption
    <3>6. Is(ListObject(new), p, ToSet(new))
      BY <3>3, <3>5, ListObjectIs
    <3>7. QED
      BY <1>3, <3>1, <3>2, <3>3, <3>4, <3>6 DEF OneRemoved
  <2>4. CASE set.encoding = "intset"
    <3>1. m \in Ints
      BY <1>3, <2>4, AsIntset
    <3>2. QED
      BY <1>3, <2>4, <3>1
  <2>5. QED
    BY <2>2, <2>3, <2>4, Kinds
<1>4. QED
  BY <1>1, <1>2, <1>3

-----------------------------------------------------------------------------
(* Adding and removing many members. *)

\* Counting the elements outside H, one more.
LEMMA CountNew ==
    ASSUME NEW F, NEW H, NEW x, IsFiniteSet(F)
    PROVE  /\ IsFiniteSet(F \cup {x})
           /\ Cardinality((F \cup {x}) \ H) =
                Cardinality(F \ H) + IF x \in H \cup F THEN 0 ELSE 1
<1>1. IsFiniteSet(F \cup {x})
  BY FS_AddElement
<1>2. IsFiniteSet(F \ H)
  <2>1. F \ H \subseteq F
    OBVIOUS
  <2>2. QED
    BY <2>1, FS_Subset
<1>3. Cardinality(F \ H) \in Nat
  BY <1>2, FS_CardinalityType
<1>4. CASE x \in H \cup F
  <2>1. (F \cup {x}) \ H = F \ H
    BY <1>4
  <2>2. QED
    BY <1>1, <1>3, <1>4, <2>1
<1>5. CASE x \notin H \cup F
  <2>1. (F \cup {x}) \ H = (F \ H) \cup {x} /\ x \notin F \ H
    BY <1>5
  <2>2. Cardinality((F \ H) \cup {x}) = Cardinality(F \ H) + 1
    BY <1>2, <2>1, FS_AddElement
  <2>3. QED
    BY <1>1, <1>5, <2>1, <2>2
<1>6. QED
  BY <1>4, <1>5

\* One element more, counted if it is in H.
OneMoreGone(F, H, x) ==
    /\ IsFiniteSet(F \cup {x})
    /\ Cardinality((F \cup {x}) \cap H) = Cardinality(F \cap H) + IF x \in H \ F THEN 1 ELSE 0

\* Counting the elements in H, one more.
LEMMA CountGone ==
    ASSUME NEW F, NEW H, NEW x, IsFiniteSet(F)
    PROVE  OneMoreGone(F, H, x)
<1>1. IsFiniteSet(F \cup {x})
  BY FS_AddElement
<1>2. IsFiniteSet(F \cap H)
  <2>1. F \cap H \subseteq F
    OBVIOUS
  <2>2. QED
    BY <2>1, FS_Subset
<1>3. Cardinality(F \cap H) \in Nat
  BY <1>2, FS_CardinalityType
<1>4. CASE x \notin H \ F
  <2>1. (F \cup {x}) \cap H = F \cap H
    BY <1>4
  <2>2. QED
    BY <1>1, <1>3, <1>4, <2>1 DEF OneMoreGone
<1>5. CASE x \in H \ F
  <2>1. (F \cup {x}) \cap H = (F \cap H) \cup {x} /\ x \notin F \cap H
    BY <1>5
  <2>2. Cardinality((F \cap H) \cup {x}) = Cardinality(F \cap H) + 1
    BY <1>2, <2>1, FS_AddElement
  <2>3. QED
    BY <1>1, <1>5, <2>1, <2>2 DEF OneMoreGone
<1>6. QED
  BY <1>4, <1>5

\* What adding the members F does.
Added(r, H, F) ==
    Is(r.set, 0, H \cup F) /\ IsFiniteSet(F) /\ r.n = Cardinality(F \ H)

\* One member more.
LEMMA AddOneMore ==
    ASSUME NEW r, r.n \in Nat, NEW H, NEW F, Added(r, H, F), NEW x \in Members
    PROVE  Added(AddStep(r, x), H, F \cup {x}) /\ AddStep(r, x) \in [set : GoodObjects(0), n : Nat]
<1> DEFINE one == setTypeAdd(r.set, x)
<1>1. r.set \in GoodObjects(0) /\ Holdings(r.set) = H \cup F /\ IsFiniteSet(F)
      /\ r.n = Cardinality(F \ H)
  BY DEF Added, Is
<1>2. OneAdded(one, r.set, x)
  BY <1>1, AddIs
<1> HIDE DEF one
<1>3. /\ Is(one.set, 0, (H \cup F) \cup {x}) /\ one.n = IF x \in H \cup F THEN 0 ELSE 1
  BY <1>1, <1>2 DEF OneAdded
<1>4. AddStep(r, x) = [set |-> one.set, n |-> r.n + one.n]
  BY DEF AddStep, Counted, one
<1>5. /\ IsFiniteSet(F \cup {x})
      /\ Cardinality((F \cup {x}) \ H) = Cardinality(F \ H) + IF x \in H \cup F THEN 0 ELSE 1
  BY <1>1, CountNew
<1>6. (H \cup F) \cup {x} = H \cup (F \cup {x})
  OBVIOUS
<1>7. Is(one.set, 0, H \cup (F \cup {x}))
  BY <1>3, <1>6
<1>8. r.n + one.n = Cardinality((F \cup {x}) \ H)
  BY <1>1, <1>3, <1>5
<1>9. Added(AddStep(r, x), H, F \cup {x})
  BY <1>4, <1>5, <1>7, <1>8 DEF Added
<1>10. one.set \in GoodObjects(0) /\ r.n + one.n \in Nat
  BY <1>3 DEF Is
<1>11. QED
  BY <1>4, <1>9, <1>10

\* Adding nothing.
LEMMA AddNone ==
    ASSUME NEW set \in GoodObjects(0)
    PROVE  Added([set |-> set, n |-> 0], Holdings(set), {})
<1>1. Holdings(set) \cup {} = Holdings(set) /\ {} \ Holdings(set) = {}
  OBVIOUS
<1>2. IsFiniteSet({}) /\ Cardinality({}) = 0
  BY FS_EmptySet
<1>3. QED
  BY <1>1, <1>2 DEF Added, Is

\* AddAll adds the elements of a sequence and counts the new ones.
LEMMA AddAllIs ==
    ASSUME NEW set \in GoodObjects(0), NEW s \in Seq(Members)
    PROVE  /\ Added(AddAll(set, s), Holdings(set), ToSet(s))
           /\ AddAll(set, s) \in [set : GoodObjects(0), n : Nat]
<1> DEFINE N == Len(s)
           H == Holdings(set)
           D == {r \in [set : GoodObjects(0), n : Nat] : \E F : Added(r, H, F)}
           R == AddAll(set, s)
<1> SUFFICES Added(R, H, ToSet(s)) /\ R \in [set : GoodObjects(0), n : Nat]
  OBVIOUS
<1>1. N \in Nat
  OBVIOUS
<1>2. [set |-> set, n |-> 0] \in D /\ Added([set |-> set, n |-> 0], H, {})
  BY AddNone
<1>3. ASSUME NEW x \in Members, NEW y \in D PROVE AddStep(y, x) \in D
  <2>1. PICK F : Added(y, H, F)
    OBVIOUS
  <2>2. y.n \in Nat
    OBVIOUS
  <2> HIDE DEF H
  <2>3. Added(AddStep(y, x), H, F \cup {x}) /\ AddStep(y, x) \in [set : GoodObjects(0), n : Nat]
    BY <2>1, <2>2, AddOneMore
  <2>4. QED
    BY <2>3
<1> HIDE DEF D
<1>4. PICK g : AddRun(g, [set |-> set, n |-> 0], s, D) /\ R = g[N]
  BY <1>2, <1>3, AddFold
<1> HIDE DEF R
<1>5. g \in [0 .. N -> D] /\ g[0] = [set |-> set, n |-> 0]
  BY <1>4 DEF AddRun
<1> DEFINE T == {k \in 0 .. N : Added(g[k], H, First(s, k))}
<1>6. 0 \in T
  <2>1. First(s, 0) = {} /\ 0 \in 0 .. N
    BY <1>1, FirstIs
  <2> HIDE DEF N, H
  <2>2. QED
    BY <1>2, <1>5, <2>1
<1>7. ASSUME NEW k \in 0 .. (N - 1), k \in T PROVE k + 1 \in T
  <2>1. k + 1 \in 1 .. N /\ (k + 1) - 1 = k /\ k + 1 \in 0 .. N /\ k \in 0 .. N
    BY <1>1
  <2>2. g[k + 1] = AddStep(g[k], s[k + 1]) /\ g[k] \in D
    BY <1>4, <2>1 DEF AddRun
  <2>3. First(s, k + 1) = First(s, k) \cup {s[k + 1]} /\ s[k + 1] \in Members
    BY <2>1, FirstIs
  <2>4. g[k].n \in Nat /\ Added(g[k], H, First(s, k))
    BY <1>7, <2>2 DEF D
  <2> HIDE DEF H
  <2>5. Added(AddStep(g[k], s[k + 1]), H, First(s, k) \cup {s[k + 1]})
    BY <2>3, <2>4, AddOneMore
  <2>6. QED
    BY <2>1, <2>2, <2>3, <2>5
<1>8. N \in T
  <2> HIDE DEF T
  <2>1. \A k \in 0 .. N : k \in T
    BY <1>1, <1>6, <1>7, UpTo
  <2>2. QED
    BY <1>1, <2>1
<1>9. Added(R, H, ToSet(s))
  BY <1>4, <1>8, FirstIs
<1>10. R \in D
  BY <1>1, <1>4, <1>5
<1>11. QED
  BY <1>9, <1>10 DEF D

\* What removing the members F does.
Taken(r, p, H, F) ==
    Is(r.set, p, H \ F) /\ IsFiniteSet(F) /\ r.n = Cardinality(F \cap H)

\* One member less.
LEMMA TakeOneMore ==
    ASSUME NEW p, NEW r, r.n \in Nat, NEW H, NEW F, Taken(r, p, H, F), NEW x \in Members
    PROVE  Taken(TakeStep(r, x), p, H, F \cup {x}) /\ TakeStep(r, x) \in [set : GoodObjects(p), n : Nat]
<1> DEFINE one == setTypeRemove(r.set, x)
<1>1. r.set \in GoodObjects(p) /\ Holdings(r.set) = H \ F /\ IsFiniteSet(F)
      /\ r.n = Cardinality(F \cap H)
  BY DEF Taken, Is
<1>2. OneRemoved(one, p, r.set, x)
  BY <1>1, RemoveIs
<1> HIDE DEF one
<1>3. /\ Is(one.set, p, (H \ F) \ {x}) /\ one.n = IF x \in H \ F THEN 1 ELSE 0
  BY <1>1, <1>2 DEF OneRemoved
<1>4. TakeStep(r, x) = [set |-> one.set, n |-> r.n + one.n]
  BY DEF TakeStep, Counted, one
<1>5. /\ IsFiniteSet(F \cup {x})
      /\ Cardinality((F \cup {x}) \cap H) = Cardinality(F \cap H) + IF x \in H \ F THEN 1 ELSE 0
  <2>1. OneMoreGone(F, H, x)
    BY <1>1, CountGone, Zenon
  <2>2. QED
    BY <2>1 DEF OneMoreGone
<1>6. (H \ F) \ {x} = H \ (F \cup {x})
  OBVIOUS
<1>7. Is(one.set, p, H \ (F \cup {x}))
  BY <1>3, <1>6
<1>8. r.n + one.n = Cardinality((F \cup {x}) \cap H)
  BY <1>1, <1>3, <1>5
<1>9. Taken(TakeStep(r, x), p, H, F \cup {x})
  BY <1>4, <1>5, <1>7, <1>8 DEF Taken
<1>10. one.set \in GoodObjects(p) /\ r.n + one.n \in Nat
  BY <1>3 DEF Is
<1>11. QED
  BY <1>4, <1>9, <1>10

\* Removing nothing.
LEMMA TakeNone ==
    ASSUME NEW p, NEW set \in GoodObjects(p)
    PROVE  Taken([set |-> set, n |-> 0], p, Holdings(set), {})
<1>1. Holdings(set) \ {} = Holdings(set) /\ {} \cap Holdings(set) = {}
  OBVIOUS
<1>2. IsFiniteSet({}) /\ Cardinality({}) = 0
  BY FS_EmptySet
<1>3. QED
  BY <1>1, <1>2 DEF Taken, Is

\* RemoveAll removes the elements of a sequence and counts the ones that were there.
LEMMA RemoveAllIs ==
    ASSUME NEW p, NEW set \in GoodObjects(p), NEW s \in Seq(Members)
    PROVE  /\ Taken(RemoveAll(set, s), p, Holdings(set), ToSet(s))
           /\ RemoveAll(set, s) \in [set : GoodObjects(p), n : Nat]
<1> DEFINE N == Len(s)
           H == Holdings(set)
           D == {r \in [set : GoodObjects(p), n : Nat] : \E F : Taken(r, p, H, F)}
           R == RemoveAll(set, s)
<1> SUFFICES Taken(R, p, H, ToSet(s)) /\ R \in [set : GoodObjects(p), n : Nat]
  OBVIOUS
<1>1. N \in Nat
  OBVIOUS
<1>2. [set |-> set, n |-> 0] \in D /\ Taken([set |-> set, n |-> 0], p, H, {})
  BY TakeNone
<1>3. ASSUME NEW x \in Members, NEW y \in D PROVE TakeStep(y, x) \in D
  <2>1. PICK F : Taken(y, p, H, F)
    OBVIOUS
  <2>2. y.n \in Nat
    OBVIOUS
  <2> HIDE DEF H
  <2>3. Taken(TakeStep(y, x), p, H, F \cup {x}) /\ TakeStep(y, x) \in [set : GoodObjects(p), n : Nat]
    BY <2>1, <2>2, TakeOneMore
  <2>4. QED
    BY <2>3
<1> HIDE DEF D
<1>4. PICK g : TakeRun(g, [set |-> set, n |-> 0], s, D) /\ R = g[N]
  BY <1>2, <1>3, TakeFold
<1> HIDE DEF R
<1>5. g \in [0 .. N -> D] /\ g[0] = [set |-> set, n |-> 0]
  BY <1>4 DEF TakeRun
<1> DEFINE T == {k \in 0 .. N : Taken(g[k], p, H, First(s, k))}
<1>6. 0 \in T
  <2>1. First(s, 0) = {} /\ 0 \in 0 .. N
    BY <1>1, FirstIs
  <2> HIDE DEF N, H
  <2>2. QED
    BY <1>2, <1>5, <2>1
<1>7. ASSUME NEW k \in 0 .. (N - 1), k \in T PROVE k + 1 \in T
  <2>1. k + 1 \in 1 .. N /\ (k + 1) - 1 = k /\ k + 1 \in 0 .. N /\ k \in 0 .. N
    BY <1>1
  <2>2. g[k + 1] = TakeStep(g[k], s[k + 1]) /\ g[k] \in D
    BY <1>4, <2>1 DEF TakeRun
  <2>3. First(s, k + 1) = First(s, k) \cup {s[k + 1]} /\ s[k + 1] \in Members
    BY <2>1, FirstIs
  <2>4. g[k].n \in Nat /\ Taken(g[k], p, H, First(s, k))
    BY <1>7, <2>2 DEF D
  <2> HIDE DEF H
  <2>5. Taken(TakeStep(g[k], s[k + 1]), p, H, First(s, k) \cup {s[k + 1]})
    BY <2>3, <2>4, TakeOneMore
  <2>6. QED
    BY <2>1, <2>2, <2>3, <2>5
<1>8. N \in T
  <2> HIDE DEF T
  <2>1. \A k \in 0 .. N : k \in T
    BY <1>1, <1>6, <1>7, UpTo
  <2>2. QED
    BY <1>1, <2>1
<1>9. Taken(R, p, H, ToSet(s))
  BY <1>4, <1>8, FirstIs
<1>10. R \in D
  BY <1>1, <1>4, <1>5
<1>11. QED
  BY <1>9, <1>10 DEF D

-----------------------------------------------------------------------------
(* What a handle's payload is between commands. *)

Sound(o) == o = NULL \/ (o \in GoodObjects(0) /\ Holdings(o) # {})

Leaves(o, S) == Sound(o) /\ Value(o) = S

\* The value of a payload.
LEMMA ValueIs ==
    /\ Value(NULL) = {} /\ Leaves(NULL, {})
    /\ \A p : \A o \in GoodObjects(p) : Value(o) = Holdings(o)
    /\ \A S : \A o : Is(o, 0, S) /\ S # {} => Leaves(o, S)
<1>1. Value(NULL) = {} /\ Leaves(NULL, {})
  BY DEF Value, lsmembers, ToSet, Leaves, Sound
<1>2. ASSUME NEW p, NEW o \in GoodObjects(p) PROVE Value(o) = Holdings(o)
  <2>1. o # NULL
    BY Kinds
  <2>2. QED
    BY <2>1 DEF Value, Holdings, lsmembers
<1>3. ASSUME NEW S, NEW o, Is(o, 0, S), S # {} PROVE Leaves(o, S)
  BY <1>2, <1>3 DEF Leaves, Is, Sound
<1>4. QED
  BY <1>1, <1>2, <1>3

\* Sizes of payloads.
LEMMA SizeIs ==
    ASSUME NEW p, NEW set \in GoodObjects(p)
    PROVE  /\ setTypeSize(set) = Cardinality(Holdings(set)) /\ setTypeSize(set) \in Nat
           /\ setTypeSize(set) = 0 <=> Holdings(set) = {}
<1>1. /\ setTypeSize(set) = Cardinality(Holdings(set)) /\ setTypeSize(set) \in Nat
      /\ IsFiniteSet(Holdings(set))
  BY Walk DEF WalkFacts
<1>2. Cardinality(Holdings(set)) = 0 <=> Holdings(set) = {}
  BY <1>1, FS_EmptySet
<1>3. QED
  BY <1>1, <1>2

\* A payload that is released when it is empty.
LEMMA ResetIs ==
    ASSUME NEW set, NEW S, Is(set, 0, S)
    PROVE  Leaves(resetIfEmpty(set), S)
<1>1. set \in GoodObjects(0) /\ Holdings(set) = S
  BY DEF Is
<1>2. setTypeSize(set) = 0 <=> S = {}
  BY <1>1, SizeIs
<1>3. CASE S = {}
  BY <1>2, <1>3, ValueIs DEF resetIfEmpty
<1>4. CASE S # {}
  BY <1>2, <1>4, ValueIs DEF resetIfEmpty
<1>5. QED
  BY <1>3, <1>4

\* A new payload.
LEMMA CreateIs ==
    ASSUME NEW m, NEW k
    PROVE  Is(setTypeCreate(m, k), 0, {})
BY EmptyObjects DEF setTypeCreate

\* Converting early for the members to come keeps the ones that are there.
LEMMA MaybeConvertIs ==
    ASSUME NEW set \in GoodObjects(0), NEW k
    PROVE  Is(setTypeMaybeConvert(set, k), 0, Holdings(set))
<1>1. CASE setTypeMaybeConvert(set, k) = set
  BY <1>1 DEF Is
<1>2. CASE setTypeMaybeConvert(set, k) = setTypeConvert(set, "ht")
  <2>1. WalkFacts(set)
    BY Walk
  <2>2. Holdings(set) \subseteq Members
    BY <2>1 DEF WalkFacts
  <2>3. setTypeConvert(set, "ht") = TableObject(Holdings(set), 0)
    BY <2>1, ConvertedToTable
  <2>4. QED
    BY <1>2, <2>2, <2>3, TableObjectIs
<1>3. QED
  BY <1>1, <1>2 DEF setTypeMaybeConvert

\* The arguments of a call.
LEMMA ArgListIs ==
    ASSUME NEW args \in ArgLists
    PROVE  /\ args \in Seq(Members) /\ Len(args) \in 1 .. ARGS /\ args[1] \in Members
           /\ ToSet(args) # {} /\ ToSet(args) \subseteq Members /\ args # <<>>
<1>1. PICK n \in 1 .. ARGS : args \in [1 .. n -> Members]
  BY DEF ArgLists
<1>2. n \in Nat \ {0} /\ 1 \in 1 .. n
  BY <1>1, RedisSetAssumption
<1>3. args \in Seq(Members) /\ Len(args) = n
  BY <1>1, <1>2
<1>4. args[1] \in Members /\ args[1] \in ToSet(args)
  BY <1>1, <1>2 DEF ToSet
<1>5. ToSet(args) \subseteq Members
  BY <1>1 DEF ToSet
<1>6. args # <<>>
  BY <1>2, <1>3
<1>7. QED
  BY <1>1, <1>3, <1>4, <1>5, <1>6

\* SADD: the members are added to the set and the new ones counted.
LEMMA SaddIs ==
    ASSUME NEW o, Sound(o), NEW args \in ArgLists
    PROVE  /\ Leaves(lsadd(o, args).set, Value(o) \cup ToSet(args))
           /\ lsadd(o, args).n = Cardinality(ToSet(args) \ Value(o))
<1> DEFINE n == Len(args)
           set == IF o = NULL THEN setTypeCreate(args[1], n) ELSE setTypeMaybeConvert(o, n)
           r == AddAll(set, args)
<1>1. args \in Seq(Members) /\ ToSet(args) # {}
  BY ArgListIs
<1>2. Is(set, 0, Value(o))
  <2>1. CASE o = NULL
    <3>1. Is(setTypeCreate(args[1], n), 0, {})
      BY CreateIs
    <3>2. QED
      BY <2>1, <3>1, ValueIs
  <2>2. CASE o # NULL
    <3>1. o \in GoodObjects(0)
      BY <2>2 DEF Sound
    <3>2. Is(setTypeMaybeConvert(o, n), 0, Holdings(o))
      BY <3>1, MaybeConvertIs
    <3>3. Value(o) = Holdings(o)
      BY <3>1, ValueIs
    <3>4. QED
      BY <2>2, <3>2, <3>3
  <2>3. QED
    BY <2>1, <2>2
<1>3. lsadd(o, args) = r
  BY DEF lsadd
<1> HIDE DEF set
<1>4. Added(r, Value(o), ToSet(args))
  <2>1. set \in GoodObjects(0) /\ Holdings(set) = Value(o)
    BY <1>2 DEF Is
  <2>2. QED
    BY <1>1, <2>1, AddAllIs
<1> HIDE DEF r
<1>5. Is(r.set, 0, Value(o) \cup ToSet(args)) /\ Value(o) \cup ToSet(args) # {}
  BY <1>1, <1>4 DEF Added
<1>6. Leaves(r.set, Value(o) \cup ToSet(args))
  BY <1>5, ValueIs
<1>7. QED
  BY <1>3, <1>4, <1>6 DEF Added

\* Pausing the auto-resize changes nothing else.
LEMMA PauseIs ==
    ASSUME NEW p \in Nat, NEW q \in Int, p + q \in Nat, NEW set \in GoodObjects(p)
    PROVE  Is(Pause(set, q), p + q, Holdings(set))
<1>1. CASE set.encoding = "ht"
  <2>1. set = TableObject(Holdings(set), p) /\ Holdings(set) \subseteq Members
    BY <1>1, AsTable
  <2> DEFINE H == Holdings(set)
  <2> HIDE DEF H
  <2>2. set = TableObject(H, p) /\ H \subseteq Members
    BY <2>1 DEF H
  <2>3. Pause(set, q) = TableObject(H, p + q)
    BY <2>2 DEF Pause, TableObject
  <2>4. Is(TableObject(H, p + q), p + q, H)
    BY <2>2, TableObjectIs
  <2>5. QED
    BY <2>3, <2>4 DEF H
<1>2. CASE set.encoding # "ht"
  <2>1. Pause(set, q) = set
    BY <1>2 DEF Pause
  <2>2. set \in GoodObjects(p + q)
    BY <1>2 DEF GoodObjects, Good
  <2>3. QED
    BY <2>1, <2>2 DEF Is
<1>3. QED
  BY <1>1, <1>2

\* SREM's loop: the members F are gone, and the loop knows whether any is left.
Emptying(r, H, F) ==
    /\ Taken(r, 1, H, F) /\ r.emptied \in BOOLEAN
    /\ r.emptied <=> H \ F = {}

\* One member less.
LEMMA RemOneMore ==
    ASSUME NEW r \in [set : GoodObjects(1), n : Nat, emptied : BOOLEAN],
           NEW H, NEW F, Emptying(r, H, F), NEW x \in Members
    PROVE  /\ Emptying(RemStep(r, x), H, F \cup {x})
           /\ RemStep(r, x) \in [set : GoodObjects(1), n : Nat, emptied : BOOLEAN]
<1>1. Taken(r, 1, H, F) /\ r.n \in Nat
  BY DEF Emptying
<1>2. CASE r.emptied
  <2>1. RemStep(r, x) = r
    BY <1>2 DEF RemStep
  <2>2. H \ F = {}
    BY <1>2 DEF Emptying
  <2>3. H \ (F \cup {x}) = H \ F
    BY <2>2
  <2>4. (F \cup {x}) \cap H = F \cap H
    BY <2>2
  <2>5. IsFiniteSet(F \cup {x})
    BY <1>1, FS_AddElement DEF Taken
  <2>6. Taken(r, 1, H, F \cup {x})
    BY <1>1, <2>3, <2>4, <2>5 DEF Taken
  <2>7. Emptying(r, H, F \cup {x})
    BY <2>3, <2>6 DEF Emptying
  <2>8. QED
    BY <2>1, <2>7
<1>3. CASE ~ r.emptied
  <2> DEFINE t == TakeStep(r, x)
             e == setTypeSize(t.set) = 0
  <2>1. Taken(t, 1, H, F \cup {x}) /\ t \in [set : GoodObjects(1), n : Nat]
    BY <1>1, TakeOneMore
  <2>2. RemStep(r, x) = [set |-> t.set, n |-> t.n, emptied |-> e]
    BY <1>3 DEF RemStep, StopIfEmptied, TakeStep, Counted
  <2> HIDE DEF t
  <2>3. t.set \in GoodObjects(1) /\ Holdings(t.set) = H \ (F \cup {x})
    BY <2>1 DEF Taken, Is
  <2>4. e <=> H \ (F \cup {x}) = {}
    BY <2>3, SizeIs
  <2>5. e \in BOOLEAN
    OBVIOUS
  <2> HIDE DEF e
  <2> DEFINE new == [set |-> t.set, n |-> t.n, emptied |-> e]
  <2>6. new.emptied = e /\ new.set = t.set /\ new.n = t.n
    OBVIOUS
  <2>7. new \in [set : GoodObjects(1), n : Nat, emptied : BOOLEAN]
    BY <2>1, <2>5
  <2> HIDE DEF new
  <2>8. Taken(new, 1, H, F \cup {x})
    BY <2>1, <2>6 DEF Taken
  <2>9. Emptying(new, H, F \cup {x})
    BY <2>4, <2>5, <2>6, <2>8, Zenon DEF Emptying
  <2>10. QED
    BY <2>2, <2>7, <2>9 DEF new
<1>4. QED
  BY <1>2, <1>3

\* SREM: the members are gone, with the payload if none is left, and counted.
LEMMA SremIs ==
    ASSUME NEW o, Sound(o), NEW args \in ArgLists
    PROVE  /\ Leaves(lsrem(o, args).set, Value(o) \ ToSet(args))
           /\ lsrem(o, args).n = Cardinality(Value(o) \cap ToSet(args))
<1>1. args \in Seq(Members)
  BY ArgListIs
<1>2. CASE o = NULL
  <2>1. lsrem(o, args) = [set |-> NULL, n |-> 0]
    BY <1>2 DEF lsrem, Unchanged
  <2>2. Value(o) = {} /\ Leaves(NULL, {})
    BY <1>2, ValueIs
  <2>3. Value(o) \ ToSet(args) = {} /\ Value(o) \cap ToSet(args) = {}
    BY <2>2
  <2>4. Cardinality({}) = 0
    BY FS_EmptySet
  <2>5. QED
    BY <2>1, <2>2, <2>3, <2>4
<1>3. CASE o # NULL
  <2> DEFINE N == Len(args)
             H == Holdings(o)
             b == [set |-> Pause(o, 1), n |-> 0, emptied |-> FALSE]
             Full == [set : GoodObjects(1), n : Nat, emptied : BOOLEAN]
             D == {r \in Full : \E F : Emptying(r, H, F)}
  <2>1. o \in GoodObjects(0) /\ H # {} /\ Value(o) = H
    BY <1>3, ValueIs DEF Sound
  <2>2. Is(Pause(o, 1), 1, H)
    <3>1. 0 + 1 = 1 /\ 0 \in Nat /\ 1 \in Int
      OBVIOUS
    <3>2. Is(Pause(o, 1), 0 + 1, Holdings(o))
      BY <2>1, <3>1, PauseIs
    <3>3. QED
      BY <3>1, <3>2
  <2>3. N \in Nat
    BY <1>1
  <2>4. b \in Full /\ Emptying(b, H, {})
    <3> DEFINE P == Pause(o, 1)
    <3>1. P \in GoodObjects(1) /\ Holdings(P) = H
      BY <2>2 DEF Is
    <3> HIDE DEF H, P
    <3>2. Taken([set |-> P, n |-> 0], 1, H, {})
      BY <3>1, TakeNone
    <3>3. b.set = P /\ b.n = 0 /\ ~ b.emptied /\ b.emptied \in BOOLEAN
      BY DEF P
    <3>4. b \in Full
      BY <3>1 DEF P
    <3> HIDE DEF b
    <3>5. Taken(b, 1, H, {})
      BY <3>2, <3>3 DEF Taken
    <3>6. H \ {} # {}
      BY <2>1 DEF H
    <3>7. QED
      BY <3>3, <3>4, <3>5, <3>6 DEF Emptying
  <2> HIDE DEF b, H
  <2>5. b \in D
    BY <2>4
  <2>6. ASSUME NEW x \in Members, NEW y \in D PROVE RemStep(y, x) \in D
    <3>1. PICK F : Emptying(y, H, F)
      OBVIOUS
    <3>2. Emptying(RemStep(y, x), H, F \cup {x}) /\ RemStep(y, x) \in Full
      BY <3>1, RemOneMore
    <3>3. QED
      BY <3>2
  <2>7. D \subseteq Full
    OBVIOUS
  <2> HIDE DEF D
  <2>8. PICK g : RemRun(g, b, args, D) /\ lsrem(o, args) = Removed(g[N])
    <3>1. \E g : RemRun(g, b, args, D) /\ lsrem(o, args) = Removed(g[Len(args)])
      <4>1. [set |-> Pause(o, 1), n |-> 0, emptied |-> FALSE] \in D
        BY <2>5 DEF b
      <4>2. QED
        BY <1>1, <1>3, <2>6, <4>1, RemFold DEF b
    <3>2. QED
      BY <3>1
  <2> DEFINE T == {k \in 0 .. N : Emptying(g[k], H, First(args, k))}
  <2>9. g \in [0 .. N -> D] /\ g[0] = b
    BY <2>8 DEF RemRun
  <2>10. 0 \in T
    <3>1. First(args, 0) = {} /\ 0 \in 0 .. N
      BY <1>1, <2>3, FirstIs
    <3> HIDE DEF N
    <3>2. QED
      BY <2>4, <2>9, <3>1
  <2>11. ASSUME NEW k \in 0 .. (N - 1), k \in T PROVE k + 1 \in T
    <3>1. k + 1 \in 1 .. N /\ (k + 1) - 1 = k /\ k + 1 \in 0 .. N /\ k \in 0 .. N
      BY <2>3
    <3>2. g[k + 1] = RemStep(g[k], args[k + 1]) /\ g[k] \in Full
      BY <2>7, <2>8, <3>1 DEF RemRun
    <3>3. First(args, k + 1) = First(args, k) \cup {args[k + 1]} /\ args[k + 1] \in Members
      BY <1>1, <3>1, FirstIs
    <3>4. Emptying(g[k], H, First(args, k))
      BY <2>11
    <3>5. Emptying(RemStep(g[k], args[k + 1]), H, First(args, k) \cup {args[k + 1]})
      BY <3>2, <3>3, <3>4, RemOneMore
    <3>6. QED
      BY <3>1, <3>2, <3>3, <3>5
  <2>12. N \in T
    <3> HIDE DEF T
    <3>1. \A k \in 0 .. N : k \in T
      BY <2>3, <2>10, <2>11, UpTo
    <3>2. QED
      BY <2>3, <3>1
  <2> DEFINE r == g[N]
             A == ToSet(args)
  <2>13. Emptying(r, H, A)
    BY <1>1, <2>12, FirstIs
  <2> HIDE DEF r, A
  <2>14. Is(r.set, 1, H \ A) /\ r.n = Cardinality(A \cap H) /\ (r.emptied <=> H \ A = {})
    BY <2>13 DEF Emptying, Taken
  <2>15. A \cap H = H \cap A
    OBVIOUS
  <2>16. lsrem(o, args) = [set |-> IF r.emptied THEN resetIfEmpty(r.set) ELSE Pause(r.set, -1), n |-> r.n]
    BY <2>8 DEF Removed, r
  <2>17. r.set \in GoodObjects(1) /\ Holdings(r.set) = H \ A
    BY <2>14 DEF Is
  <2>18. Leaves(lsrem(o, args).set, H \ A)
    <3>1. CASE r.emptied
      <4>1. setTypeSize(r.set) = 0 /\ H \ A = {}
        BY <2>14, <2>17, <3>1, SizeIs
      <4>2. lsrem(o, args).set = NULL
        BY <2>16, <3>1, <4>1 DEF resetIfEmpty
      <4>3. QED
        BY <4>1, <4>2, ValueIs
    <3>2. CASE ~ r.emptied
      <4>1. 1 + (-1) = 0 /\ 1 \in Nat /\ -1 \in Int /\ H \ A # {}
        BY <2>14, <3>2
      <4>2. Is(Pause(r.set, -1), 0, H \ A)
        <5>1. \A q \in Int : 1 + q \in Nat => Is(Pause(r.set, q), 1 + q, H \ A)
          BY <2>17, <4>1, PauseIs
        <5>2. QED
          BY <4>1, <5>1
      <4>3. lsrem(o, args).set = Pause(r.set, -1)
        BY <2>16, <3>2
      <4>4. QED
        BY <4>1, <4>2, <4>3, ValueIs
    <3>3. QED
      BY <3>1, <3>2
  <2>19. lsrem(o, args).n = Cardinality(H \cap A)
    BY <2>14, <2>15, <2>16
  <2>20. QED
    BY <2>1, <2>18, <2>19 DEF H, A
<1>4. QED
  BY <1>2, <1>3

-----------------------------------------------------------------------------
(* Drawing members. *)

\* The smaller of two numbers.
LEMMA MinOfTwo ==
    ASSUME NEW a \in Int, NEW b \in Int
    PROVE  Min({a, b}) = IF a <= b THEN a ELSE b
<1> DEFINE m == IF a <= b THEN a ELSE b
<1>1. m \in {a, b} /\ \A y \in {a, b} : m <= y
  OBVIOUS
<1>2. ASSUME NEW x \in {a, b}, \A y \in {a, b} : x <= y PROVE x = m
  BY <1>1, <1>2
<1> HIDE DEF m
<1>3. Min({a, b}) = m
  BY <1>1, <1>2 DEF Min
<1>4. QED
  BY <1>3 DEF m

\* The counts of a part and of the rest.
LEMMA PartCount ==
    ASSUME NEW H, IsFiniteSet(H), NEW S, S \subseteq H
    PROVE  /\ IsFiniteSet(S) /\ IsFiniteSet(H \ S)
           /\ Cardinality(S) \in Nat /\ Cardinality(H \ S) \in Nat /\ Cardinality(H) \in Nat
           /\ Cardinality(H \ S) = Cardinality(H) - Cardinality(S)
           /\ H \ S = {} <=> Cardinality(H \ S) = 0
<1>1. IsFiniteSet(S)
  BY FS_Subset
<1>2. H \ S \subseteq H
  OBVIOUS
<1>3. IsFiniteSet(H \ S)
  BY <1>2, FS_Subset
<1>4. Cardinality(S) \in Nat /\ Cardinality(H \ S) \in Nat /\ Cardinality(H) \in Nat
  BY <1>1, <1>3, FS_CardinalityType
<1>5. Cardinality(H \ S) = Cardinality(H) - Cardinality(H \cap S)
  BY <1>1, FS_Difference
<1>6. H \cap S = S
  OBVIOUS
<1>7. H \ S = {} <=> Cardinality(H \ S) = 0
  BY <1>3, FS_EmptySet
<1>8. QED
  BY <1>1, <1>3, <1>4, <1>5, <1>6, <1>7

\* Draws are distinct members.
Drawn(d, H, k) ==
    /\ d \in Seq(Members) /\ Len(d) = k /\ IsInjective(d)
    /\ ToSet(d) \subseteq H /\ IsFiniteSet(ToSet(d)) /\ Cardinality(ToSet(d)) = k

\* What a draw is.
LEMMA DrawsAre ==
    ASSUME NEW set \in GoodObjects(0), NEW k \in Nat, NEW d \in Draws(set, k)
    PROVE  Drawn(d, Holdings(set), k)
<1> DEFINE H == Holdings(set)
<1>1. d \in [1 .. k -> H] /\ IsInjective(d)
  BY DEF Draws, Holdings
<1>2. H \subseteq Members
  BY Walk DEF WalkFacts
<1> HIDE DEF H
<1>3. d \in Seq(Members) /\ Len(d) = k
  BY <1>1, <1>2
<1>4. ToSet(d) \subseteq H
  BY <1>1 DEF ToSet
<1>5. IsFiniteSet(ToSet(d)) /\ Cardinality(ToSet(d)) = Len(d)
  BY <1>1, <1>3, DistinctCount
<1>6. QED
  BY <1>1, <1>3, <1>4, <1>5 DEF Drawn, H

\* SPOP takes a member out.
LEMMA PopOneIs ==
    ASSUME NEW set, Sound(set), set # NULL, NEW out \in lspop(set)
    PROVE  Sound(out.set)
<1>1. set \in GoodObjects(0)
  BY DEF Sound
<1>2. PICK d \in Draws(set, 1) : out.set = resetIfEmpty(setTypeRemove(set, d[1]).set)
  BY DEF lspop
<1>3. d[1] \in Members
  <2>1. Drawn(d, Holdings(set), 1)
    BY <1>1, DrawsAre
  <2>2. d \in Seq(Members) /\ 1 \in 1 .. Len(d)
    BY <2>1 DEF Drawn
  <2>3. QED
    BY <2>2, ElementOfSeq
<1>4. OneRemoved(setTypeRemove(set, d[1]), 0, set, d[1])
  BY <1>1, <1>3, RemoveIs
<1>5. Leaves(out.set, Holdings(set) \ {d[1]})
  BY <1>2, <1>4, ResetIs DEF OneRemoved
<1>6. QED
  BY <1>5 DEF Leaves

\* What SPOP with a count leaves and replies.
Popped(out, H, count) ==
    /\ Leaves(out.set, H \ ToSet(out.reply)) /\ ToSet(out.reply) \subseteq H
    /\ IsInjective(out.reply) /\ Len(out.reply) = Min({count, Cardinality(H)})

\* SPOP gives as many distinct members as it can and leaves the others, in each of its
\* ways of doing so.
LEMMA PopIs ==
    ASSUME NEW set, Sound(set), set # NULL, NEW count \in Nat, NEW out \in lspopCount(set, count)
    PROVE  Popped(out, Value(set), count)
<1> DEFINE H == Holdings(set)
           C == Cardinality(H)
           left == setTypeSize(set) - count
           MUL == RL_SPOP_MOVE_STRATEGY_MUL
<1>1. set \in GoodObjects(0) /\ H # {} /\ Value(set) = H
  BY ValueIs DEF Sound
<1>2. /\ setTypeWalk(set) \in Seq(Members) /\ IsInjective(setTypeWalk(set)) /\ H = ToSet(setTypeWalk(set))
      /\ H \subseteq Members /\ IsFiniteSet(H) /\ Len(setTypeWalk(set)) = C /\ setTypeSize(set) = C /\ C \in Nat
  BY <1>1, Walk DEF WalkFacts, Holdings
<1>3. C > 0
  BY <1>1, <1>2, FS_EmptySet
<1>4. left = C - count /\ left \in Int /\ MUL \in Nat /\ MUL > 0 /\ (left <= 0 => left * MUL <= 0)
  BY <1>2, RedisSetAssumption
<1>5. Min({count, C}) = IF count <= C THEN count ELSE C
  BY <1>2, MinOfTwo
<1> DEFINE Many == left * MUL > count
           Body == CASE count = 0 -> {[set |-> set, reply |-> <<>>]}
                     [] left <= 0 -> {[set |-> NULL, reply |-> setTypeWalk(set)]}
                     [] count > 0 /\ Many ->
                          {[set |-> RemoveAll(set, d).set, reply |-> d] : d \in Draws(set, count)}
                     [] OTHER ->
                          {[set |-> AddAll(drawInto(set, d[1]), d).set,
                            reply |-> setTypeWalk(RemoveAll(set, d).set)] : d \in Draws(set, left)}
<1>6. out \in Body
  BY DEF lspopCount
<1>7. left <= 0 => ~ (count > 0 /\ Many)
  BY <1>4
<1> HIDE DEF H, C, left, MUL, Many
<1>8. CASE count = 0
  <2>1. left = C /\ ~ (left <= 0) /\ ~ (count > 0)
    BY <1>2, <1>3, <1>4, <1>8
  <2>2. out = [set |-> set, reply |-> <<>>]
    BY <1>6, <1>8, <2>1
  <2>3. ToSet(<<>>) = {} /\ IsInjective(<<>>) /\ Len(<<>>) = 0
    BY DEF ToSet, IsInjective
  <2>4. H \ {} = H /\ Leaves(set, H)
    BY <1>1 DEF Leaves
  <2>5. Min({count, C}) = 0
    BY <1>5, <1>8, <1>2
  <2>6. QED
    BY <1>1, <2>2, <2>3, <2>4, <2>5 DEF Popped, C
<1>9. CASE count > 0 /\ left <= 0
  <2>1. out = [set |-> NULL, reply |-> setTypeWalk(set)]
    BY <1>6, <1>7, <1>9
  <2>2. H \ H = {} /\ Leaves(NULL, {})
    BY ValueIs
  <2>3. Min({count, C}) = C
    BY <1>2, <1>4, <1>5, <1>9
  <2>4. QED
    BY <1>1, <1>2, <2>1, <2>2, <2>3 DEF Popped, C
<1>10. CASE count > 0 /\ ~ (left <= 0) /\ Many
  <2>1. PICK d \in Draws(set, count) : out = [set |-> RemoveAll(set, d).set, reply |-> d]
    BY <1>6, <1>10
  <2>2. Drawn(d, H, count)
    BY <1>1, DrawsAre DEF H
  <2> DEFINE S == ToSet(d)
             r == RemoveAll(set, d)
  <2>3. Taken(r, 0, H, S)
    BY <1>1, <2>2, RemoveAllIs DEF Drawn, H
  <2> HIDE DEF r, S
  <2>4. S \subseteq H /\ Cardinality(S) = count
    BY <2>2 DEF Drawn, S
  <2>5. H \ S # {}
    <3>1. /\ Cardinality(H \ S) = Cardinality(H) - Cardinality(S) /\ Cardinality(H \ S) \in Nat
          /\ H \ S = {} <=> Cardinality(H \ S) = 0
      BY <1>2, <2>4, PartCount
    <3>2. QED
      BY <1>2, <1>4, <1>10, <2>4, <3>1 DEF C
  <2>6. Leaves(r.set, H \ S)
    BY <2>3, <2>5, ValueIs DEF Taken
  <2>7. Min({count, C}) = count
    BY <1>2, <1>4, <1>5, <1>10
  <2>8. QED
    BY <1>1, <2>1, <2>2, <2>4, <2>6, <2>7 DEF Popped, C, S, r, Drawn
<1>11. CASE count > 0 /\ ~ (left <= 0) /\ ~ Many
  <2>1. PICK d \in Draws(set, left) : out = [set |-> AddAll(drawInto(set, d[1]), d).set,
                                             reply |-> setTypeWalk(RemoveAll(set, d).set)]
    BY <1>6, <1>11
  <2>2. left \in Nat /\ Drawn(d, H, left)
    BY <1>1, <1>4, <1>11, DrawsAre DEF H
  <2> DEFINE S == ToSet(d)
             r == RemoveAll(set, d)
             into == drawInto(set, d[1])
             a == AddAll(into, d)
             w == setTypeWalk(r.set)
  <2>3. Taken(r, 0, H, S)
    BY <1>1, <2>2, RemoveAllIs DEF Drawn, H
  <2>4. into \in GoodObjects(0) /\ Holdings(into) = {}
    <3>1. Is(into, 0, {})
      BY EmptyObjects DEF drawInto
    <3>2. QED
      BY <3>1 DEF Is
  <2> HIDE DEF into, r
  <2>5. Added(a, {}, S)
    BY <2>2, <2>4, AddAllIs DEF Drawn
  <2> HIDE DEF a, S
  <2>6. S \subseteq H /\ Cardinality(S) = left
    BY <2>2 DEF Drawn, S
  <2>7. /\ Cardinality(H \ S) = Cardinality(H) - Cardinality(S)
    BY <1>2, <2>6, PartCount
  <2>8. Is(a.set, 0, S)
    <3>1. {} \cup S = S
      OBVIOUS
    <3>2. QED
      BY <2>5, <3>1 DEF Added
  <2>9. S # {}
    BY <1>4, <1>11, <2>6, FS_EmptySet
  <2>10. Leaves(a.set, S)
    BY <2>8, <2>9, ValueIs
  <2>11. r.set \in GoodObjects(0) /\ Holdings(r.set) = H \ S
    BY <2>3 DEF Taken, Is
  <2>12. IsInjective(w) /\ Len(w) = Cardinality(H \ S) /\ ToSet(w) = H \ S
    BY <2>11, Walk DEF WalkFacts, Holdings
  <2> HIDE DEF w
  <2>13. H \ ToSet(w) = S /\ ToSet(w) \subseteq H
    BY <2>6, <2>12
  <2>14. Len(w) = count /\ Min({count, C}) = count
    BY <1>2, <1>4, <1>5, <1>11, <2>6, <2>7, <2>12 DEF C
  <2>15. out = [set |-> a.set, reply |-> w]
    BY <2>1 DEF a, w, r, into
  <2>16. QED
    BY <1>1, <2>10, <2>12, <2>13, <2>14, <2>15 DEF Popped, C
<1>12. QED
  BY <1>8, <1>9, <1>10, <1>11

-----------------------------------------------------------------------------
(* The invariant. *)

Slots == {o \in Objects \cup {NULL, Freed} : o = Freed \/ Sound(o)}

\* Every handle has been released, has no payload, or has a payload that is sound.
IInv == sobj \in [Handles -> Slots]

\* What is in a slot.
LEMMA SlotIs ==
    /\ \A o : Sound(o) => o \in Slots
    /\ \A o \in Slots : o # Freed => Sound(o)
    /\ Freed \in Slots /\ NULL \in Slots /\ ~ Sound(Freed)
<1>1. ASSUME NEW o, Sound(o) PROVE o \in Slots
  BY <1>1 DEF Slots, Sound, GoodObjects
<1>2. Freed \in Slots /\ NULL \in Slots
  BY DEF Slots, Sound
<1>3. ~ Sound(Freed)
  BY RedisSetAssumption DEF Sound, GoodObjects
<1>4. QED
  BY <1>1, <1>2, <1>3 DEF Slots

\* Loading a list of distinct or repeated members.
LEMMA LoadIs ==
    ASSUME NEW blob \in Seq(Members)
    PROVE  Leaves(rl_load_set(blob), ToSet(blob))
<1>1. CASE blob = <<>>
  <2>1. ToSet(<<>>) = {}
    BY DEF ToSet
  <2>2. QED
    BY <1>1, <2>1, ValueIs DEF rl_load_set
<1>2. CASE blob # <<>>
  <2> DEFINE set == setTypeCreate(blob[1], Len(blob))
             r == AddAll(set, blob)
  <2>1. Is(set, 0, {})
    BY CreateIs
  <2> HIDE DEF set
  <2>2. Added(r, {}, ToSet(blob))
    <3>1. set \in GoodObjects(0) /\ Holdings(set) = {}
      BY <2>1 DEF Is
    <3>2. QED
      BY <3>1, AddAllIs
  <2>3. rl_load_set(blob) = r.set
    BY <1>2 DEF rl_load_set, set
  <2> HIDE DEF r
  <2>4. {} \cup ToSet(blob) = ToSet(blob) /\ ToSet(blob) # {}
    <3>1. 1 \in DOMAIN blob
      BY <1>2
    <3>2. QED
      BY <3>1 DEF ToSet
  <2>5. Is(r.set, 0, ToSet(blob))
    BY <2>2, <2>4 DEF Added
  <2>6. QED
    BY <2>3, <2>4, <2>5, ValueIs
<1>3. QED
  BY <1>1, <1>2

\* Putting a member where SMOVE takes it.
LEMMA PutIs ==
    ASSUME NEW o, Sound(o), NEW m \in Members
    PROVE  Leaves(setTypeAdd(IF o = NULL THEN setTypeCreate(m, 1) ELSE o, m).set, Value(o) \cup {m})
<1> DEFINE set == IF o = NULL THEN setTypeCreate(m, 1) ELSE o
<1>1. set \in GoodObjects(0) /\ Holdings(set) = Value(o)
  <2>1. CASE o = NULL
    <3>1. Is(setTypeCreate(m, 1), 0, {})
      BY CreateIs
    <3>2. QED
      BY <2>1, <3>1, ValueIs DEF Is
  <2>2. CASE o # NULL
    BY <2>2, ValueIs DEF Sound
  <2>3. QED
    BY <2>1, <2>2
<1> HIDE DEF set
<1>2. OneAdded(setTypeAdd(set, m), set, m)
  BY <1>1, AddIs
<1>3. Is(setTypeAdd(set, m).set, 0, Value(o) \cup {m})
  BY <1>1, <1>2 DEF OneAdded
<1>4. Leaves(setTypeAdd(set, m).set, Value(o) \cup {m})
  BY <1>3, ValueIs
<1>5. QED
  BY <1>4 DEF set

\* What SMOVE does.
Moved(r, g, h, m) ==
    /\ r.n = IF m \in Value(sobj[g]) THEN 1 ELSE 0
    /\ r.n = 0 \/ g = h => r.sobj = sobj
    /\ r.n = 1 /\ g # h =>
            /\ Value(r.sobj[g]) = Value(sobj[g]) \ {m}
            /\ Value(r.sobj[h]) = Value(sobj[h]) \cup {m}

\* A sound payload answers membership.
LEMMA MemberIs ==
    ASSUME NEW o, Sound(o), o # NULL, NEW m \in Members
    PROVE  setTypeIsMember(o, m) <=> m \in Value(o)
<1>1. o \in GoodObjects(0) /\ Value(o) = Holdings(o)
  BY ValueIs DEF Sound
<1>2. QED
  BY <1>1, Walk DEF WalkFacts

\* SMOVE is exact, and leaves sound payloads.
LEMMA SmoveIs ==
    ASSUME IInv, NEW g \in Handles, NEW h \in Handles, Live(g), Live(h), NEW m \in Members
    PROVE  Moved(lsmove(g, h, m), g, h, m) /\ lsmove(g, h, m).sobj \in [Handles -> Slots]
<1> DEFINE R == lsmove(g, h, m)
<1> SUFFICES Moved(R, g, h, m) /\ R.sobj \in [Handles -> Slots]
  OBVIOUS
<1>1. Sound(sobj[g]) /\ Sound(sobj[h]) /\ sobj \in [Handles -> Slots]
  BY SlotIs DEF IInv, Live
<1>2. CASE sobj[g] = NULL
  <2>1. R = [sobj |-> sobj, n |-> 0]
    BY <1>2 DEF lsmove, Unmoved
  <2>2. m \notin Value(sobj[g])
    BY <1>2, ValueIs
  <2>3. QED
    BY <1>1, <2>1, <2>2 DEF Moved
<1>3. CASE sobj[g] # NULL /\ g = h
  <2>1. R = [sobj |-> sobj, n |-> IF setTypeIsMember(sobj[g], m) THEN 1 ELSE 0]
    BY <1>3 DEF lsmove, Unmoved
  <2>2. setTypeIsMember(sobj[g], m) <=> m \in Value(sobj[g])
    BY <1>1, <1>3, MemberIs
  <2>3. QED
    BY <1>1, <1>3, <2>1, <2>2 DEF Moved
<1>4. CASE sobj[g] # NULL /\ g # h
  <2> DEFINE r == setTypeRemove(sobj[g], m)
             V == Value(sobj[g])
             src == resetIfEmpty(r.set)
             dst == setTypeAdd(IF sobj[h] = NULL THEN setTypeCreate(m, 1) ELSE sobj[h], m).set
  <2>1. sobj[g] \in GoodObjects(0) /\ Holdings(sobj[g]) = V
    BY <1>1, <1>4, ValueIs DEF Sound
  <2>2. OneRemoved(r, 0, sobj[g], m)
    BY <2>1, RemoveIs
  <2>3. R = TakenAndPut(g, h, m, r)
    BY <1>4 DEF lsmove, MoveMember
  <2> HIDE DEF r, V
  <2>4. r.n = (IF m \in V THEN 1 ELSE 0) /\ Is(r.set, 0, V \ {m})
    BY <2>1, <2>2 DEF OneRemoved
  <2>5. CASE m \notin V
    <3>1. R = [sobj |-> sobj, n |-> 0]
      BY <2>3, <2>4, <2>5 DEF TakenAndPut, Unmoved
    <3>2. QED
      BY <1>1, <2>5, <3>1 DEF Moved, V
  <2>6. CASE m \in V
    <3>1. R = [sobj |-> PutMember([sobj EXCEPT ![g] = src], h, m), n |-> 1]
      BY <2>3, <2>4, <2>6 DEF TakenAndPut
    <3>2. Leaves(src, V \ {m})
      BY <2>4, ResetIs
    <3>3. Leaves(dst, Value(sobj[h]) \cup {m})
      BY <1>1, PutIs
    <3>4. PutMember([sobj EXCEPT ![g] = src], h, m) = [sobj EXCEPT ![g] = src, ![h] = dst]
      BY <1>1, <1>4 DEF PutMember
    <3> HIDE DEF src, dst
    <3>5. src \in Slots /\ dst \in Slots
      BY <3>2, <3>3, SlotIs DEF Leaves
    <3> DEFINE new == [sobj EXCEPT ![g] = src, ![h] = dst]
    <3>6. new \in [Handles -> Slots] /\ new[g] = src /\ new[h] = dst
      BY <1>1, <1>4, <3>5
    <3>7. R = [sobj |-> new, n |-> 1]
      BY <3>1, <3>4
    <3> HIDE DEF new
    <3>8. Value(new[g]) = V \ {m} /\ Value(new[h]) = Value(sobj[h]) \cup {m}
      BY <3>2, <3>3, <3>6 DEF Leaves
    <3>9. QED
      BY <1>4, <2>6, <3>6, <3>7, <3>8 DEF Moved, V
  <2>7. QED
    BY <2>5, <2>6
<1>5. QED
  BY <1>2, <1>3, <1>4

\* A slot is replaced.
LEMMA SlotReplaced ==
    ASSUME IInv, NEW h \in Handles, NEW o, Sound(o) \/ o = Freed, sobj' = [sobj EXCEPT ![h] = o]
    PROVE  IInv'
<1>1. o \in Slots
  BY SlotIs
<1>2. sobj' \in [Handles -> Slots]
  BY <1>1 DEF IInv
<1>3. Slots' = Slots
  OBVIOUS
<1>4. QED
  BY <1>2, <1>3 DEF IInv

\* Every command keeps the payloads sound.
LEMMA IInvStep == IInv /\ [Next]_sobj => IInv'
<1> SUFFICES ASSUME IInv, [Next]_sobj PROVE IInv'
  OBVIOUS
<1>1. CASE UNCHANGED sobj
  BY <1>1 DEF IInv, Slots
<1>2. ASSUME NEW h \in Handles, Live(h) PROVE Sound(sobj[h])
  BY <1>2, SlotIs DEF IInv, Live
<1>3. ASSUME NEW h \in Handles, lset_new(h) PROVE IInv'
  BY <1>3, SlotReplaced, ValueIs DEF lset_new, Leaves
<1>4. ASSUME NEW h \in Handles, lset_load(h) PROVE IInv'
  <2>1. PICK blob \in ArgLists \cup {<<>>} : sobj' = [sobj EXCEPT ![h] = rl_load_set(blob)]
    BY <1>4 DEF lset_load
  <2>2. blob \in Seq(Members)
    <3>1. blob \in ArgLists => blob \in Seq(Members)
      BY ArgListIs
    <3>2. <<>> \in Seq(Members)
      OBVIOUS
    <3>3. QED
      BY <3>1, <3>2
  <2>3. Sound(rl_load_set(blob))
    BY <2>2, LoadIs DEF Leaves
  <2>4. QED
    BY <2>1, <2>3, SlotReplaced
<1>5. ASSUME NEW h \in Handles, lset_free(h) PROVE IInv'
  BY <1>5, SlotReplaced DEF lset_free
<1>6. ASSUME NEW h \in Handles, Sadd(h) PROVE IInv'
  <2>1. PICK args \in ArgLists : sobj' = [sobj EXCEPT ![h] = lsadd(sobj[h], args).set]
    BY <1>6 DEF Sadd, IInv
  <2>2. Sound(lsadd(sobj[h], args).set)
    BY <1>2, <1>6, SaddIs DEF Sadd, Leaves
  <2>3. QED
    BY <2>1, <2>2, SlotReplaced
<1>7. ASSUME NEW h \in Handles, Srem(h) PROVE IInv'
  <2>1. PICK args \in ArgLists : sobj' = [sobj EXCEPT ![h] = lsrem(sobj[h], args).set]
    BY <1>7 DEF Srem, IInv
  <2>2. Sound(lsrem(sobj[h], args).set)
    BY <1>2, <1>7, SremIs DEF Srem, Leaves
  <2>3. QED
    BY <2>1, <2>2, SlotReplaced
<1>8. ASSUME NEW g \in Handles, NEW h \in Handles, Smove(g, h) PROVE IInv'
  <2>1. PICK m \in Members : sobj' = lsmove(g, h, m).sobj
    BY <1>8 DEF Smove
  <2>2. lsmove(g, h, m).sobj \in [Handles -> Slots]
    BY <1>8, SmoveIs DEF Smove
  <2>3. QED
    BY <2>1, <2>2 DEF IInv, Slots
<1>9. ASSUME NEW h \in Handles, Spop(h) PROVE IInv'
  <2>1. PICK out \in lspop(sobj[h]) : sobj' = [sobj EXCEPT ![h] = out.set]
    BY <1>9 DEF Spop
  <2>2. Sound(out.set)
    BY <1>2, <1>9, PopOneIs DEF Spop
  <2>3. QED
    BY <2>1, <2>2, SlotReplaced
<1>10. ASSUME NEW h \in Handles, SpopCount(h) PROVE IInv'
  <2>1. Sound(sobj[h]) /\ sobj[h] # NULL
    BY <1>2, <1>10 DEF SpopCount
  <2>2. setTypeSize(sobj[h]) \in Nat
    BY <2>1, SizeIs DEF Sound
  <2>3. PICK count \in 0 .. (setTypeSize(sobj[h]) + 1) :
            \E out \in lspopCount(sobj[h], count) : sobj' = [sobj EXCEPT ![h] = out.set]
    BY <1>10 DEF SpopCount
  <2>4. PICK out \in lspopCount(sobj[h], count) : sobj' = [sobj EXCEPT ![h] = out.set]
    BY <2>3
  <2>5. count \in Nat
    BY <2>2
  <2>6. Popped(out, Value(sobj[h]), count)
    BY <2>1, <2>5, PopIs
  <2>7. Sound(out.set)
    BY <2>6 DEF Popped, Leaves
  <2>8. QED
    BY <2>4, <2>7, SlotReplaced
<1>11. QED
  BY <1>1, <1>3, <1>4, <1>5, <1>6, <1>7, <1>8, <1>9, <1>10 DEF Next

\* No sequence of commands leaves an unsound payload.
THEOREM Soundness == Spec => []IInv
<1>1. Init => IInv
  BY SlotIs DEF Init, IInv
<1>2. QED
  BY <1>1, IInvStep, PTL DEF Spec

\* A payload under the invariant.
LEMMA PayloadIs ==
    ASSUME IInv, NEW h \in Payloads
    PROVE  sobj[h] \in GoodObjects(0) /\ Holdings(sobj[h]) # {} /\ h \in Handles
BY SlotIs DEF IInv, Payloads, Sound

\* TypeOK, under the invariant.
LEMMA IInvType == IInv => TypeOK
<1> SUFFICES ASSUME IInv PROVE TypeOK
  OBVIOUS
<1>1. DOMAIN sobj = Handles
  BY DEF IInv
<1>2. ASSUME NEW h \in Payloads
      PROVE  LET set == sobj[h]
             IN  \/ /\ set.encoding = "intset" /\ set.ptr.encoding \in Encodings
                    /\ ToSet(intsetElements(set.ptr)) \subseteq Ints
                 \/ /\ set.encoding = "listpack" /\ set.ptr \in Seq(Members)
                 \/ /\ set.encoding = "ht" /\ set.ptr.keys \subseteq Members
                    /\ set.ptr.pauseAutoResize \in Nat
  <2>1. sobj[h] \in GoodObjects(0)
    BY PayloadIs
  <2>2. CASE sobj[h].encoding = "intset"
    <3>1. GoodIntset(sobj[h].ptr) /\ Contents(sobj[h].ptr) \subseteq Ints
      BY <2>1, <2>2, AsIntset
    <3>2. sobj[h].ptr.encoding \in Encodings
      BY <3>1, GoodParts DEF GoodFacts
    <3>3. QED
      BY <2>2, <3>1, <3>2 DEF Contents
  <2>3. CASE sobj[h].encoding = "listpack"
    BY <2>1, <2>3, AsList
  <2>4. CASE sobj[h].encoding = "ht"
    <3>1. sobj[h] = TableObject(Holdings(sobj[h]), 0) /\ Holdings(sobj[h]) \subseteq Members
      BY <2>1, <2>4, AsTable
    <3>2. QED
      BY <2>4, <3>1 DEF TableObject
  <2>5. QED
    BY <2>1, <2>2, <2>3, <2>4, Kinds
<1>3. QED
  BY <1>1, <1>2 DEF TypeOK

\* TypeOK holds: no conversion leaves a payload of the wrong shape (setTypeConvert,
\* maybeConvertIntset, setTypeMaybeConvert).
THEOREM TypeCorrect == Spec => []TypeOK
BY Soundness, IInvType, PTL

\* IntsetOrdered, under the invariant.
LEMMA IInvOrdered == IInv => IntsetOrdered
<1> SUFFICES ASSUME IInv, NEW h \in Payloads, sobj[h].encoding = "intset"
             PROVE  LET is == sobj[h].ptr
                    IN  /\ Len(is.contents) = is.length * is.encoding
                        /\ ToSet(is.contents) \subseteq Bytes
                        /\ \A i \in 1 .. is.length - 1 : intsetGetAt(is, i - 1) < intsetGetAt(is, i)
  BY DEF IntsetOrdered
<1> DEFINE is == sobj[h].ptr
           e == intsetElements(is)
<1>1. GoodIntset(is)
  BY PayloadIs, AsIntset
<1>2. GoodFacts(is, e)
  BY <1>1, GoodParts
<1> HIDE DEF is, e
<1>3. Holding(is, e) /\ Ascending(e) /\ is.length = Len(e) /\ Len(e) \in Nat
  BY <1>2 DEF GoodFacts
<1>4. Len(is.contents) = is.length * is.encoding
  BY <1>3 DEF Holding
<1>5. ToSet(is.contents) \subseteq Bytes
  BY <1>3, BytesWritten
<1>6. ASSUME NEW i \in 1 .. (is.length - 1) PROVE intsetGetAt(is, i - 1) < intsetGetAt(is, i)
  <2>1. /\ i - 1 \in 0 .. (Len(e) - 1) /\ i \in 0 .. (Len(e) - 1) /\ (i - 1) + 1 = i
        /\ i \in 1 .. Len(e) /\ i + 1 \in 1 .. Len(e) /\ i < i + 1
    BY <1>3
  <2>2. intsetGetAt(is, i - 1) = e[i]
    BY <1>3, <2>1, GetHolding
  <2>3. intsetGetAt(is, i) = e[i + 1]
    BY <1>3, <2>1, GetHolding
  <2>4. QED
    BY <1>3, <2>1, <2>2, <2>3 DEF Ascending
<1>7. QED
  BY <1>4, <1>5, <1>6 DEF is

\* IntsetOrdered holds: intsetUpgradeAndAdd, intsetMoveTail and intsetResize never
\* leave a byte unwritten or an element out of order.
THEOREM IntsetsOrdered == Spec => []IntsetOrdered
BY Soundness, IInvOrdered, PTL

\* CompactWithinLimits, under the invariant.
LEMMA IInvCompact == IInv => CompactWithinLimits
<1> SUFFICES ASSUME IInv, NEW h \in Payloads
             PROVE  LET set == sobj[h]
                    IN  /\ set.encoding = "intset" => setTypeSize(set) <= set_max_intset_entries
                        /\ set.encoding = "listpack" =>
                                /\ setTypeSize(set) <= set_max_listpack_entries
                                /\ Value(set) \cap Long = {}
                        /\ IsInjective(setTypeWalk(set))
  BY DEF CompactWithinLimits
<1> DEFINE set == sobj[h]
<1>1. set \in GoodObjects(0)
  BY PayloadIs
<1> HIDE DEF set
<1>2. Value(set) = Holdings(set)
  BY <1>1, ValueIs
<1>3. ASSUME set.encoding = "intset" PROVE setTypeSize(set) <= set_max_intset_entries
  BY <1>1, <1>3, AsIntset DEF setTypeSize
<1>4. ASSUME set.encoding = "listpack"
      PROVE  setTypeSize(set) <= set_max_listpack_entries /\ Value(set) \cap Long = {}
  BY <1>1, <1>2, <1>4, AsList DEF setTypeSize
<1>5. IsInjective(setTypeWalk(set))
  BY <1>1, Walk DEF WalkFacts
<1>6. QED
  BY <1>3, <1>4, <1>5 DEF set

\* CompactWithinLimits holds: setTypeAdd and its conversions keep every intset and
\* listpack within its limits and free of repetitions.
THEOREM CompactBounded == Spec => []CompactWithinLimits
BY Soundness, IInvCompact, PTL

\* Settled, under the invariant.
LEMMA IInvSettled == IInv => Settled
<1> SUFFICES ASSUME IInv, NEW h \in Payloads
             PROVE  /\ setTypeSize(sobj[h]) > 0
                    /\ sobj[h].encoding = "ht" => sobj[h].ptr.pauseAutoResize = 0
  BY DEF Settled
<1>1. sobj[h] \in GoodObjects(0) /\ Holdings(sobj[h]) # {}
  BY PayloadIs
<1>2. setTypeSize(sobj[h]) \in Nat /\ setTypeSize(sobj[h]) # 0
  BY <1>1, SizeIs
<1>3. sobj[h].encoding = "ht" => sobj[h].ptr.pauseAutoResize = 0
  BY <1>1, AsTable DEF TableObject
<1>4. QED
  BY <1>2, <1>3

\* Settled holds: every command that empties a set releases its payload (SREM, SMOVE,
\* SPOP), and SREM resumes the table it paused.
THEOREM AlwaysSettled == Spec => []Settled
BY Soundness, IInvSettled, PTL

\* SmoveExact, under the invariant.
LEMMA IInvSmove == IInv => SmoveExact
<1> SUFFICES ASSUME IInv, NEW g \in Handles, NEW h \in Handles, Live(g), Live(h), NEW m \in Members
             PROVE  Moved(lsmove(g, h, m), g, h, m)
  BY DEF SmoveExact, Moved
<1>1. QED
  BY SmoveIs

\* SmoveExact holds: lsmove takes the member from the one set and puts it in the
\* other, whatever the two encodings are.
THEOREM SmoveCorrect == Spec => []SmoveExact
BY Soundness, IInvSmove, PTL

-----------------------------------------------------------------------------
(* SRANDMEMBER. *)

\* One element more in front.
Prefixed(t, x, s, S) ==
    /\ t \in Seq(S) /\ Len(t) = Len(s) + 1 /\ ToSet(t) = ToSet(s) \cup {x}
    /\ IsInjective(s) /\ x \notin ToSet(s) => IsInjective(t)

\* What putting an element in front does.
LEMMA PrefixIs ==
    ASSUME NEW S, NEW x \in S, NEW s \in Seq(S)
    PROVE  Prefixed(<<x>> \o s, x, s, S)
<1> DEFINE n == Len(s)
           b == <<x>>
           t == b \o s
<1> SUFFICES Prefixed(t, x, s, S)
  OBVIOUS
<1>1. n \in Nat /\ DOMAIN s = 1 .. n
  OBVIOUS
<1>2. b \in Seq(S) /\ Len(b) = 1 /\ b[1] = x
  OBVIOUS
<1> HIDE DEF b
<1>3. t \in Seq(S) /\ Joined(b, s)
  BY <1>2, Join, Zenon
<1>4. Len(t) = n + 1 /\ t[1] = x /\ \A i \in 1 .. n : t[1 + i] = s[i]
  BY <1>1, <1>2, <1>3 DEF Joined
<1> HIDE DEF t
<1>5. DOMAIN t = 1 .. (n + 1)
  BY <1>3, <1>4
<1>6. ASSUME NEW i \in 1 .. (n + 1) PROVE i = 1 \/ (i - 1 \in 1 .. n /\ 1 + (i - 1) = i)
  BY <1>1
<1>7. \A i \in 1 .. n : 1 + i \in 1 .. (n + 1)
  BY <1>1
<1>8. 1 \in 1 .. (n + 1)
  BY <1>1
<1>9. ASSUME NEW i \in 1 .. (n + 1) PROVE t[i] = x \/ \E j \in 1 .. n : t[i] = s[j]
  BY <1>4, <1>6
<1>10. ToSet(t) \subseteq ToSet(s) \cup {x}
  BY <1>1, <1>5, <1>9 DEF ToSet
<1>11. ToSet(s) \cup {x} \subseteq ToSet(t)
  BY <1>1, <1>4, <1>5, <1>7, <1>8 DEF ToSet
<1>12. ASSUME IsInjective(s), x \notin ToSet(s) PROVE IsInjective(t)
  <2>1. \A i \in 1 .. n : s[i] # x
    BY <1>1, <1>12 DEF ToSet
  <2>2. \A i, j \in 1 .. n : s[i] = s[j] => i = j
    BY <1>1, <1>12 DEF IsInjective
  <2>3. ASSUME NEW i \in 1 .. (n + 1), NEW j \in 1 .. (n + 1), t[i] = t[j] PROVE i = j
    <3>1. CASE i = 1
      BY <1>4, <1>6, <2>1, <2>3, <3>1
    <3>2. CASE j = 1
      BY <1>4, <1>6, <2>1, <2>3, <3>2
    <3>3. CASE i # 1 /\ j # 1
      <4>1. t[i] = s[i - 1] /\ t[j] = s[j - 1] /\ i - 1 \in 1 .. n /\ j - 1 \in 1 .. n
        BY <1>4, <1>6, <3>3
      <4>2. i - 1 = j - 1
        BY <2>2, <2>3, <4>1
      <4>3. QED
        BY <1>1, <4>2
    <3>4. QED
      BY <3>1, <3>2, <3>3
  <2>4. QED
    BY <1>5, <2>3 DEF IsInjective
<1>13. QED
  BY <1>3, <1>4, <1>10, <1>11, <1>12 DEF Prefixed

\* The pairs of a position and a number of entries wanted.
Wanted(lp, count) == (1 .. Len(lp) + 1) \X (0 .. count)

\* One step of the picking.
PickStep(f, lp, i, want) ==
    IF want = 0 THEN {<<>>}
    ELSE IF i > Len(lp) THEN {<<>>}
    ELSE {<<lp[i]>> \o rest : rest \in f[<<i + 1, want - 1>>]}
         \cup (IF want < Len(lp) - i + 1 THEN f[<<i + 1, want>>] ELSE {})

\* The picks from each position on are determined by the ones from the next.
LEMMA PicksExist ==
    ASSUME NEW S, NEW lp \in Seq(S), NEW count \in Nat
    PROVE  \E f : f = [q \in Wanted(lp, count) |-> PickStep(f, lp, q[1], q[2])]
<1> DEFINE L == Len(lp)
           W == 0 .. count
           D == [W -> SUBSET Seq(S)]
           row(n, r, w) ==
                IF w = 0 THEN {<<>>}
                ELSE {<<lp[(L + 1) - n]>> \o rest : rest \in r[w - 1]}
                     \cup (IF w < n THEN r[w] ELSE {})
           F == [p \in (1 .. L) \X D |-> [w \in W |-> row(p[1], p[2], w)]]
           b == [w \in W |-> {<<>>}]
<1>1. L \in Nat
  OBVIOUS
<1>2. b \in D
  OBVIOUS
<1>3. ASSUME NEW n \in 1 .. L, NEW r \in D, NEW w \in W PROVE row(n, r, w) \in SUBSET Seq(S)
  <2>1. CASE w = 0
    BY <2>1
  <2>2. CASE w # 0
    <3>1. w - 1 \in W /\ (L + 1) - n \in 1 .. L
      BY <1>1, <2>2
    <3>2. lp[(L + 1) - n] \in S
      BY <3>1, ElementOfSeq
    <3>3. \A rest \in r[w - 1] : <<lp[(L + 1) - n]>> \o rest \in Seq(S)
      <4>1. ASSUME NEW rest \in r[w - 1] PROVE <<lp[(L + 1) - n]>> \o rest \in Seq(S)
        <5>1. rest \in Seq(S)
          BY <3>1
        <5>2. QED
          BY <3>2, <5>1
      <4>2. QED
        BY <4>1
    <3>4. r[w] \in SUBSET Seq(S)
      OBVIOUS
    <3>5. QED
      BY <2>2, <3>3, <3>4
  <2>3. QED
    BY <2>1, <2>2
<1>4. F \in [(1 .. L) \X D -> D]
  <2>1. ASSUME NEW p \in (1 .. L) \X D PROVE [w \in W |-> row(p[1], p[2], w)] \in D
    <3>1. p[1] \in 1 .. L /\ p[2] \in D
      OBVIOUS
    <3> HIDE DEF row
    <3>2. QED
      BY <1>3, <3>1
  <2> HIDE DEF row, D
  <2>2. QED
    BY <2>1
<1>5. \A n \in 1 .. L : \A r \in D : F[<<n, r>>] = [w \in W |-> row(n, r, w)]
  <2> HIDE DEF row, D
  <2>1. QED
    OBVIOUS
<1>6. PICK g : Accumulates(g, L, b, F, D)
  <2> HIDE DEF F, D, b, L
  <2>1. QED
    BY <1>1, <1>2, <1>4, RecursionExists
<1>7. /\ g \in [0 .. L -> D] /\ g[0] = b
      /\ \A n \in 1 .. L : g[n] = F[<<n, g[n - 1]>>]
  <2> HIDE DEF F, D, b, L
  <2>1. QED
    BY <1>6 DEF Accumulates
<1> HIDE DEF F
<1>8. ASSUME NEW n \in 1 .. L PROVE g[n] = [w \in W |-> row(n, g[n - 1], w)]
  <2>1. n - 1 \in 0 .. L
    BY <1>1
  <2>2. g[n - 1] \in D
    BY <1>7, <2>1
  <2> HIDE DEF row, D
  <2>3. QED
    BY <1>5, <1>7, <2>2
<1> DEFINE f == [q \in Wanted(lp, count) |-> g[(L + 1) - q[1]][q[2]]]
<1>9. ASSUME NEW i \in 1 .. (L + 1), NEW want \in W
      PROVE  g[(L + 1) - i][want] = PickStep(f, lp, i, want)
  <2>1. CASE i = L + 1
    <3>1. (L + 1) - i = 0 /\ i > L
      BY <1>1, <2>1
    <3>2. g[0][want] = {<<>>}
      BY <1>7
    <3>3. QED
      BY <3>1, <3>2 DEF PickStep
  <2>2. CASE i # L + 1
    <3> DEFINE n == (L + 1) - i
    <3>1. /\ n \in 1 .. L /\ (L + 1) - n = i /\ ~ (i > L) /\ n = L - i + 1
          /\ (L + 1) - (i + 1) = n - 1 /\ i + 1 \in 1 .. (L + 1)
      BY <1>1, <2>2
    <3>2. g[n][want] = row(n, g[n - 1], want)
      <4> HIDE DEF row
      <4>1. QED
        BY <1>8, <3>1
    <3>3. CASE want = 0
      BY <3>2, <3>3 DEF PickStep
    <3>4. CASE want # 0
      <4>1. want - 1 \in W
        BY <3>4
      <4>2. <<i + 1, want - 1>> \in Wanted(lp, count) /\ <<i + 1, want>> \in Wanted(lp, count)
        BY <3>1, <4>1 DEF Wanted
      <4>3. f[<<i + 1, want - 1>>] = g[n - 1][want - 1] /\ f[<<i + 1, want>>] = g[n - 1][want]
        BY <3>1, <4>2
      <4> HIDE DEF f, n
      <4>4. QED
        BY <3>1, <3>2, <3>4, <4>3 DEF PickStep, n
    <3>5. QED
      BY <3>3, <3>4
  <2>3. QED
    BY <2>1, <2>2
<1>10. f = [q \in Wanted(lp, count) |-> PickStep(f, lp, q[1], q[2])]
  <2>1. \A q \in Wanted(lp, count) : q[1] \in 1 .. (L + 1) /\ q[2] \in W
    BY DEF Wanted
  <2>2. \A q \in Wanted(lp, count) : g[(L + 1) - q[1]][q[2]] = PickStep(f, lp, q[1], q[2])
    <3> HIDE DEF f
    <3>1. QED
      BY <1>9, <2>1
  <2>3. QED
    BY <2>2
<1>11. QED
  BY <1>10

\* Distinct entries from position i on.
Picked(r, lp, i, want, S) ==
    /\ r \in Seq(S) /\ Len(r) = want /\ IsInjective(r)
    /\ ToSet(r) \subseteq {lp[j] : j \in i .. Len(lp)}

\* One walk of a listpack picks the wanted number of distinct entries, never running off
\* the end.
LEMMA PicksAre ==
    ASSUME NEW S, NEW lp \in Seq(S), IsInjective(lp), NEW count \in 0 .. Len(lp),
           NEW r \in lpPicks(lp, count)
    PROVE  Picked(r, lp, 1, count, S)
<1> DEFINE L == Len(lp)
           W == 0 .. count
           Eqn(f) == f = [q \in Wanted(lp, count) |-> PickStep(f, lp, q[1], q[2])]
           pick == CHOOSE f : Eqn(f)
<1>1. L \in Nat /\ count \in Nat /\ count <= L /\ DOMAIN lp = 1 .. L
  OBVIOUS
<1>2. lpPicks(lp, count) = pick[<<1, count>>]
  BY DEF lpPicks, PickStep, Wanted
<1>3. Eqn(pick)
  <2>1. \E f : Eqn(f)
    BY <1>1, PicksExist
  <2> HIDE DEF Eqn
  <2>2. QED
    BY <2>1
<1> HIDE DEF pick
<1>4. ASSUME NEW i \in 1 .. (L + 1), NEW want \in W
      PROVE  pick[<<i, want>>] = PickStep(pick, lp, i, want)
  <2>1. <<i, want>> \in Wanted(lp, count)
    BY DEF Wanted
  <2>2. QED
    BY <1>3, <2>1
<1>5. Picked(<<>>, lp, L + 1, 0, S) /\ \A i : Picked(<<>>, lp, i, 0, S)
  BY DEF Picked, IsInjective, ToSet
<1> DEFINE T == {n \in 0 .. L : \A want \in W : want <= n =>
                    \A x \in pick[<<(L + 1) - n, want>>] : Picked(x, lp, (L + 1) - n, want, S)}
<1>6. 0 \in T
  <2>1. ASSUME NEW want \in W, want <= 0, NEW x \in pick[<<(L + 1) - 0, want>>]
        PROVE  Picked(x, lp, (L + 1) - 0, want, S)
    <3>1. want = 0 /\ (L + 1) - 0 \in 1 .. (L + 1)
      BY <1>1, <2>1
    <3>2. x = <<>>
      BY <1>4, <2>1, <3>1 DEF PickStep
    <3>3. QED
      BY <1>5, <3>1, <3>2
  <2>2. QED
    BY <1>1, <2>1
<1>7. ASSUME NEW n \in 0 .. (L - 1), n \in T PROVE n + 1 \in T
  <2> DEFINE i == (L + 1) - (n + 1)
  <2>1. /\ i \in 1 .. L /\ i \in 1 .. (L + 1) /\ (L + 1) - n = i + 1 /\ n + 1 \in 0 .. L
        /\ L - i + 1 = n + 1 /\ ~ (i > L) /\ i \in Int
    BY <1>1
  <2>2. ASSUME NEW want \in W, want <= n, NEW x \in pick[<<i + 1, want>>]
        PROVE  Picked(x, lp, i + 1, want, S)
    <3> HIDE DEF i
    <3>1. QED
      BY <1>7, <2>1, <2>2
  <2> HIDE DEF i
  <2>3. {lp[j] : j \in (i + 1) .. L} \subseteq {lp[j] : j \in i .. L}
    <3>1. \A j \in (i + 1) .. L : j \in i .. L
      BY <1>1, <2>1
    <3>2. QED
      BY <3>1
  <2>4. ASSUME NEW want \in W, want <= n + 1, NEW x \in pick[<<i, want>>]
        PROVE  Picked(x, lp, i, want, S)
    <3>1. x \in PickStep(pick, lp, i, want)
      BY <1>4, <2>1, <2>4
    <3>2. CASE want = 0
      <4>1. x = <<>>
        BY <3>1, <3>2 DEF PickStep
      <4>2. QED
        BY <1>5, <3>2, <4>1
    <3>3. CASE want # 0 /\ want < n + 1 /\ x \in pick[<<i + 1, want>>]
      <4>1. want <= n
        BY <1>1, <3>3
      <4>2. Picked(x, lp, i + 1, want, S)
        BY <2>2, <3>3, <4>1
      <4>3. QED
        BY <2>3, <4>2 DEF Picked
    <3>4. CASE want # 0 /\ \E rest \in pick[<<i + 1, want - 1>>] : x = <<lp[i]>> \o rest
      <4>1. PICK rest \in pick[<<i + 1, want - 1>>] : x = <<lp[i]>> \o rest
        BY <3>4
      <4>2. want - 1 \in W /\ want - 1 <= n /\ (want - 1) + 1 = want
        BY <1>1, <2>4, <3>4
      <4>3. Picked(rest, lp, i + 1, want - 1, S)
        BY <2>2, <4>2
      <4>4. rest \in Seq(S) /\ lp[i] \in S
        BY <2>1, <4>3, ElementOfSeq DEF Picked
      <4>5. Prefixed(x, lp[i], rest, S)
        BY <4>1, <4>4, PrefixIs
      <4>6. lp[i] \notin ToSet(rest)
        <5>1. \A j \in (i + 1) .. L : j # i /\ j \in DOMAIN lp /\ i \in DOMAIN lp
          BY <1>1, <2>1
        <5>2. \A j \in (i + 1) .. L : lp[j] # lp[i]
          BY <5>1 DEF IsInjective
        <5>3. QED
          BY <4>3, <5>2 DEF Picked
      <4>7. lp[i] \in {lp[j] : j \in i .. L}
        BY <1>1, <2>1
      <4>8. ToSet(x) \subseteq {lp[j] : j \in i .. L}
        BY <2>3, <4>3, <4>5, <4>7 DEF Prefixed, Picked
      <4>9. Len(x) = want /\ IsInjective(x) /\ x \in Seq(S)
        BY <4>2, <4>3, <4>5, <4>6 DEF Prefixed, Picked
      <4>10. QED
        BY <4>8, <4>9 DEF Picked
    <3>5. QED
      BY <2>1, <3>1, <3>2, <3>3, <3>4 DEF PickStep
  <2>5. QED
    BY <2>1, <2>4 DEF i
<1>8. L \in T
  <2> HIDE DEF T
  <2>1. \A n \in 0 .. L : n \in T
    BY <1>1, <1>6, <1>7, UpTo
  <2>2. QED
    BY <1>1, <2>1
<1>9. (L + 1) - L = 1 /\ count \in W /\ count <= L
  BY <1>1
<1>10. QED
  BY <1>2, <1>8, <1>9

-----------------------------------------------------------------------------
(* SRANDMEMBER and the commands. *)

\* What SRANDMEMBER replies to a count.
Sampled(r, H, count) ==
    IsInjective(r) /\ Len(r) = Min({count, Cardinality(H)}) /\ ToSet(r) \subseteq H

\* SRANDMEMBER gives as many members as it can without repeating one.
LEMMA RandIs ==
    ASSUME NEW set, Sound(set), set # NULL, NEW count \in Nat, NEW r \in lsrandmember(set, count)
    PROVE  Sampled(r, Value(set), count)
<1> DEFINE H == Holdings(set)
           C == Cardinality(H)
           w == setTypeWalk(set)
<1>1. set \in GoodObjects(0) /\ H # {} /\ Value(set) = H
  BY ValueIs DEF Sound
<1>2. /\ w \in Seq(Members) /\ IsInjective(w) /\ H = ToSet(w)
      /\ H \subseteq Members /\ IsFiniteSet(H) /\ Len(w) = C /\ C \in Nat
  BY <1>1, Walk DEF WalkFacts, Holdings
<1>3. C > 0
  BY <1>1, <1>2, FS_EmptySet
<1>4. Min({count, C}) = IF count <= C THEN count ELSE C
  BY <1>2, MinOfTwo
<1>5. r \in Samples(set, w, count, TRUE)
  <2>1. ~ (count < 0) /\ (count >= 0) = TRUE
    OBVIOUS
  <2>2. lsrandmember(set, count) = Samples(set, w, count, TRUE)
    BY <2>1 DEF lsrandmember, Samples
  <2>3. QED
    BY <2>2
<1> HIDE DEF H, C, w
<1>6. CASE count = 1
  <2>1. r \in [1 .. count -> H]
    BY <1>2, <1>5, <1>6 DEF Samples
  <2>2. r \in Seq(H) /\ Len(r) = count /\ DOMAIN r = 1 .. count
    BY <2>1
  <2>3. IsInjective(r) /\ ToSet(r) \subseteq H
    BY <1>6, <2>1, <2>2 DEF IsInjective, ToSet
  <2>4. Min({count, C}) = 1
    BY <1>2, <1>3, <1>4, <1>6
  <2>5. QED
    BY <1>1, <1>6, <2>2, <2>3, <2>4 DEF Sampled, C
<1>7. CASE count # 1 /\ count >= C
  <2>1. r = w
    BY <1>2, <1>5, <1>7 DEF Samples
  <2>2. Min({count, C}) = C
    BY <1>2, <1>4, <1>7
  <2>3. QED
    BY <1>1, <1>2, <2>1, <2>2 DEF Sampled, C
<1>8. CASE count # 1 /\ ~ (count >= C)
  <2>1. Min({count, C}) = count /\ count \in 0 .. C
    BY <1>2, <1>4, <1>8
  <2>2. CASE set.encoding = "listpack"
    <3>1. w = set.ptr
      BY <2>2 DEF setTypeWalk, w
    <3>2. r \in lpPicks(w, count)
      BY <1>2, <1>5, <1>8, <2>2, <3>1 DEF Samples
    <3>3. Picked(r, w, 1, count, Members)
      BY <1>2, <2>1, <3>2, PicksAre
    <3>4. {w[j] : j \in 1 .. Len(w)} = H
      BY <1>2 DEF ToSet
    <3>5. QED
      BY <1>1, <2>1, <3>3, <3>4 DEF Sampled, Picked, C
  <2>3. CASE set.encoding # "listpack"
    <3>1. PICK S \in SUBSET H : Cardinality(S) = count /\ r = Select(ByteOrder, S)
      BY <1>2, <1>5, <1>8, <2>3 DEF Samples
    <3>2. Selected(r, ByteOrder, S, Members)
      BY <3>1, SelectIs, RedisSetAssumption
    <3>3. r \in Seq(Members) /\ IsInjective(r) /\ ToSet(r) = S
      BY <1>2, <3>1, <3>2, RedisSetAssumption DEF Selected
    <3>4. Len(r) = count
      BY <3>1, <3>3, DistinctCount
    <3>5. QED
      BY <1>1, <2>1, <3>1, <3>3, <3>4 DEF Sampled, C
  <2>4. QED
    BY <2>2, <2>3
<1>9. QED
  BY <1>6, <1>7, <1>8

\* The size and the membership answers.
LEMMA ReadsAre ==
    ASSUME NEW o, Sound(o)
    PROVE  /\ lscard(o) = Cardinality(Value(o)) /\ Cardinality(Value(o)) \in Nat
           /\ lsmismember(o, ByteOrder) =
                [i \in DOMAIN ByteOrder |-> IF ByteOrder[i] \in Value(o) THEN 1 ELSE 0]
<1>1. lscard(o) = Cardinality(Value(o)) /\ Cardinality(Value(o)) \in Nat
  <2>1. CASE o = NULL
    <3>1. Cardinality({}) = 0
      BY FS_EmptySet
    <3>2. QED
      BY <2>1, <3>1, ValueIs DEF lscard
  <2>2. CASE o # NULL
    <3>1. o \in GoodObjects(0) /\ Value(o) = Holdings(o)
      BY <2>2, ValueIs DEF Sound
    <3>2. QED
      BY <2>2, <3>1, SizeIs DEF lscard
  <2>3. QED
    BY <2>1, <2>2
<1>2. ASSUME NEW i \in DOMAIN ByteOrder
      PROVE  (o # NULL /\ setTypeIsMember(o, ByteOrder[i])) <=> ByteOrder[i] \in Value(o)
  <2>1. ByteOrder[i] \in Members
    BY RedisSetAssumption DEF ToSet
  <2>2. CASE o = NULL
    BY <2>2, ValueIs
  <2>3. CASE o # NULL
    BY <2>1, <2>3, MemberIs
  <2>4. QED
    BY <2>2, <2>3
<1>3. QED
  BY <1>1, <1>2 DEF lsmismember

\* CommandsExact, under the invariant.
LEMMA IInvCommands == IInv => CommandsExact
<1> SUFFICES ASSUME IInv, NEW h \in Handles, Live(h)
             PROVE  LET o == sobj[h]
                        old == Value(o)
                    IN  /\ lscard(o) = Cardinality(old)
                        /\ lsmismember(o, ByteOrder) =
                            [i \in DOMAIN ByteOrder |-> IF ByteOrder[i] \in old THEN 1 ELSE 0]
                        /\ \A args \in ArgLists :
                            /\ /\ Value(lsadd(o, args).set) = old \cup ToSet(args)
                               /\ lsadd(o, args).n = Cardinality(ToSet(args) \ old)
                            /\ /\ Value(lsrem(o, args).set) = old \ ToSet(args)
                               /\ lsrem(o, args).n = Cardinality(old \cap ToSet(args))
                        /\ o # NULL => \A count \in 0 .. Cardinality(old) + 1 :
                            /\ \A out \in lspopCount(o, count) :
                                /\ /\ ToSet(out.reply) \cap Value(out.set) = {}
                                   /\ ToSet(out.reply) \cup Value(out.set) = old
                                /\ IsInjective(out.reply)
                                /\ Len(out.reply) = Min({count, Cardinality(old)})
                            /\ \A r \in lsrandmember(o, count) :
                                /\ IsInjective(r) /\ Len(r) = Min({count, Cardinality(old)})
                                /\ ToSet(r) \subseteq old
  BY DEF CommandsExact
<1> DEFINE o == sobj[h]
           old == Value(o)
<1>1. Sound(o)
  BY SlotIs DEF IInv, Live
<1> HIDE DEF o
<1>2. /\ lscard(o) = Cardinality(old) /\ Cardinality(old) \in Nat
      /\ lsmismember(o, ByteOrder) = [i \in DOMAIN ByteOrder |-> IF ByteOrder[i] \in old THEN 1 ELSE 0]
  BY <1>1, ReadsAre
<1>3. ASSUME NEW args \in ArgLists
      PROVE  /\ Value(lsadd(o, args).set) = old \cup ToSet(args)
             /\ lsadd(o, args).n = Cardinality(ToSet(args) \ old)
  BY <1>1, SaddIs DEF Leaves
<1>4. ASSUME NEW args \in ArgLists
      PROVE  /\ Value(lsrem(o, args).set) = old \ ToSet(args)
             /\ lsrem(o, args).n = Cardinality(old \cap ToSet(args))
  BY <1>1, SremIs DEF Leaves
<1>5. ASSUME o # NULL, NEW count \in 0 .. (Cardinality(old) + 1), NEW out \in lspopCount(o, count)
      PROVE  /\ ToSet(out.reply) \cap Value(out.set) = {} /\ ToSet(out.reply) \cup Value(out.set) = old
             /\ IsInjective(out.reply) /\ Len(out.reply) = Min({count, Cardinality(old)})
  <2>1. count \in Nat
    BY <1>2
  <2>2. Popped(out, old, count)
    BY <1>1, <1>5, <2>1, PopIs
  <2>3. /\ Value(out.set) = old \ ToSet(out.reply) /\ ToSet(out.reply) \subseteq old
        /\ IsInjective(out.reply) /\ Len(out.reply) = Min({count, Cardinality(old)})
    BY <2>2 DEF Popped, Leaves
  <2>4. QED
    BY <2>3
<1>6. ASSUME o # NULL, NEW count \in 0 .. (Cardinality(old) + 1), NEW r \in lsrandmember(o, count)
      PROVE  /\ IsInjective(r) /\ Len(r) = Min({count, Cardinality(old)})
             /\ ToSet(r) \subseteq old
  <2>1. count \in Nat
    BY <1>2
  <2>2. QED
    BY <1>1, <1>6, <2>1, RandIs DEF Sampled
<1> HIDE DEF old
<1>7. QED
  BY <1>2, <1>3, <1>4, <1>5, <1>6 DEF o, old

\* CommandsExact holds: for every sequence of commands and every conversion on the
\* way, lsadd, lsrem, lspopCount and the reads reply and leave what a server would.
THEOREM CommandsCorrect == Spec => []CommandsExact
BY Soundness, IInvCommands, PTL

-----------------------------------------------------------------------------
(* Sorting. *)

\* Sorted by a key.
SortedBy(t, key) == \A i, j \in 1 .. Len(t) : i < j => key[t[i]] <= key[t[j]]

\* What inserting into a sorted sequence does.
InsertEffect(t, e, x, key, S) ==
    /\ t \in Seq(S) /\ SortedBy(t, key) /\ ToSet(t) = ToSet(e) \cup {x}
    /\ IsInjective(e) /\ x \notin ToSet(e) => IsInjective(t)

\* Insert puts an element in its place.
LEMMA InsertIs ==
    ASSUME NEW S, NEW key \in [S -> Int], NEW e \in Seq(S), SortedBy(e, key), NEW x \in S
    PROVE  InsertEffect(Insert(e, x, key), e, x, key, S)
<1> DEFINE n == Len(e)
           J == {j \in DOMAIN e : key[e[j]] <= key[x]}
<1>1. n \in Nat /\ DOMAIN e = 1 .. n
  OBVIOUS
<1>2. \A i \in 1 .. n : e[i] \in S /\ key[e[i]] \in Int
  BY ElementOfSeq
<1>3. key[x] \in Int
  OBVIOUS
<1>4. ASSUME NEW j \in J, NEW i \in 1 .. j PROVE i \in J
  <2>1. j \in 1 .. n /\ i \in 1 .. n /\ key[e[j]] <= key[x] /\ (i < j \/ i = j)
    BY <1>1
  <2>2. key[e[i]] <= key[e[j]]
    BY <1>2, <2>1 DEF SortedBy
  <2>3. key[e[i]] <= key[x]
    BY <1>2, <1>3, <2>1, <2>2
  <2>4. QED
    BY <1>1, <2>1, <2>3
<1>5. J \in SUBSET (1 .. n) /\ \A j \in 1 .. n : j \in J <=> key[e[j]] <= key[x]
  BY <1>1
<1>6. Insert(e, x, key) = InsertAt(e, Cardinality(J) + 1, x)
  BY DEF Insert
<1> HIDE DEF J
<1>7. PICK c \in 0 .. n : J = 1 .. c /\ Cardinality(J) = c
  BY <1>1, <1>4, <1>5, DownClosed
<1> DEFINE t == InsertedAt(e, c, x)
<1>8. Insert(e, x, key) = t
  BY <1>6, <1>7, InsertAtIs
<1>9. t \in Seq(S) /\ Len(t) = n + 1
  BY InsertedType
<1>10. ToSet(t) = ToSet(e) \cup {x}
  BY InsertedToSet
<1>11. ASSUME NEW i \in 1 .. (n + 1)
       PROVE  /\ i <= c => t[i] = e[i] /\ i \in 1 .. n
              /\ i = c + 1 => t[i] = x
              /\ i > c + 1 => t[i] = e[i - 1] /\ i - 1 \in 1 .. n
              /\ i <= c \/ i = c + 1 \/ i > c + 1
  BY <1>1 DEF InsertedAt
<1> HIDE DEF t
<1>12. \A j \in 1 .. n : j <= c => key[e[j]] <= key[x]
  BY <1>1, <1>5, <1>7
<1>13. \A j \in 1 .. n : j > c => key[x] <= key[e[j]]
  <2>1. ASSUME NEW j \in 1 .. n, j > c PROVE key[x] <= key[e[j]]
    <3>1. ~ (key[e[j]] <= key[x])
      BY <1>1, <1>5, <1>7, <2>1
    <3>2. QED
      BY <1>2, <1>3, <3>1
  <2>2. QED
    BY <2>1
<1>14. ASSUME NEW i \in 1 .. (n + 1), NEW j \in 1 .. (n + 1), i < j PROVE key[t[i]] <= key[t[j]]
  <2>1. CASE i <= c /\ j <= c
    BY <1>11, <1>14, <2>1 DEF SortedBy
  <2>2. CASE i <= c /\ j = c + 1
    BY <1>11, <1>12, <2>2
  <2>3. CASE i <= c /\ j > c + 1
    <3>1. i < j - 1
      BY <1>1, <2>3
    <3>2. QED
      BY <1>11, <2>3, <3>1 DEF SortedBy
  <2>4. CASE i = c + 1
    <3>1. j > c + 1 /\ j - 1 > c
      BY <1>1, <1>14, <2>4
    <3>2. QED
      BY <1>11, <1>13, <2>4, <3>1
  <2>5. CASE i > c + 1
    <3>1. j > c + 1 /\ i - 1 < j - 1
      BY <1>1, <1>14, <2>5
    <3>2. QED
      BY <1>11, <2>5, <3>1 DEF SortedBy
  <2>6. QED
    BY <1>11, <2>1, <2>2, <2>3, <2>4, <2>5
<1>15. SortedBy(t, key)
  BY <1>9, <1>14 DEF SortedBy
<1>16. ASSUME IsInjective(e), x \notin ToSet(e) PROVE IsInjective(t)
  <2>1. \A i \in 1 .. n : e[i] # x
    BY <1>1, <1>16 DEF ToSet
  <2>2. \A i, j \in 1 .. n : e[i] = e[j] => i = j
    BY <1>1, <1>16 DEF IsInjective
  <2>3. ASSUME NEW i \in 1 .. (n + 1), NEW j \in 1 .. (n + 1), i < j PROVE t[i] # t[j]
    <3>1. CASE i = c + 1
      <4>1. j > c + 1
        BY <1>1, <2>3, <3>1
      <4>2. QED
        BY <1>11, <2>1, <3>1, <4>1
    <3>2. CASE j = c + 1
      <4>1. i <= c
        BY <1>1, <2>3, <3>2
      <4>2. QED
        BY <1>11, <2>1, <3>2, <4>1
    <3>3. CASE i <= c /\ j <= c
      <4>1. t[i] = e[i] /\ t[j] = e[j] /\ i \in 1 .. n /\ j \in 1 .. n /\ i # j
        BY <1>1, <1>11, <2>3, <3>3
      <4>2. QED
        BY <2>2, <4>1
    <3>4. CASE i <= c /\ j > c + 1
      <4>1. t[i] = e[i] /\ t[j] = e[j - 1] /\ i \in 1 .. n /\ j - 1 \in 1 .. n /\ i # j - 1
        BY <1>1, <1>11, <2>3, <3>4
      <4>2. QED
        BY <2>2, <4>1
    <3>5. CASE i > c + 1
      <4>0. j > c + 1
        BY <1>1, <2>3, <3>5
      <4>1. t[i] = e[i - 1] /\ t[j] = e[j - 1] /\ i - 1 \in 1 .. n /\ j - 1 \in 1 .. n /\ i - 1 # j - 1
        BY <1>1, <1>11, <2>3, <3>5, <4>0
      <4>2. QED
        BY <2>2, <4>1
    <3>6. QED
      BY <1>11, <3>1, <3>2, <3>3, <3>4, <3>5
  <2>4. ASSUME NEW i \in 1 .. (n + 1), NEW j \in 1 .. (n + 1), t[i] = t[j] PROVE i = j
    <3>1. ~ (i < j) /\ ~ (j < i)
      BY <2>3, <2>4
    <3>2. QED
      BY <1>1, <3>1
  <2>5. DOMAIN t = 1 .. (n + 1)
    BY <1>9
  <2>6. QED
    BY <2>4, <2>5 DEF IsInjective
<1>17. QED
  BY <1>8, <1>9, <1>10, <1>15, <1>16 DEF InsertEffect

\* What sorting s does.
SortEffect(t, s, key, S) ==
    /\ t \in Seq(S) /\ SortedBy(t, key) /\ ToSet(t) = ToSet(s)
    /\ IsInjective(s) => IsInjective(t)

\* SortBy keeps the elements and sorts them.
LEMMA SortIs ==
    ASSUME NEW S, NEW key \in [S -> Int], NEW s \in Seq(S)
    PROVE  SortEffect(SortBy(s, key), s, key, S)
<1> DEFINE N == Len(s)
           t == SortBy(s, key)
           D == {e \in Seq(S) : SortedBy(e, key)}
<1> SUFFICES SortEffect(t, s, key, S)
  OBVIOUS
<1>1. N \in Nat /\ DOMAIN s = 1 .. N
  OBVIOUS
<1>2. <<>> \in D
  BY DEF SortedBy
<1>3. ASSUME NEW x \in S, NEW y \in D PROVE SortStep(key, y, x) \in D
  <2>1. InsertEffect(Insert(y, x, key), y, x, key, S)
    BY InsertIs
  <2>2. QED
    BY <2>1 DEF InsertEffect, SortStep
<1> HIDE DEF D
<1>4. PICK g : SortRun(g, key, <<>>, s, D) /\ t = g[N]
  BY <1>2, <1>3, SortFold
<1> HIDE DEF t
<1> DEFINE T == {k \in 0 .. N : /\ ToSet(g[k]) = First(s, k)
                                /\ IsInjective(s) => IsInjective(g[k])}
<1>5. g \in [0 .. N -> D] /\ g[0] = <<>>
  BY <1>4 DEF SortRun
<1>6. 0 \in T
  <2>1. First(s, 0) = {}
    BY FirstIs
  <2>2. ToSet(<<>>) = {} /\ IsInjective(<<>>)
    BY DEF ToSet, IsInjective
  <2>3. 0 \in 0 .. N
    BY <1>1
  <2> HIDE DEF N
  <2>4. QED
    BY <1>5, <2>1, <2>2, <2>3
<1>7. ASSUME NEW k \in 0 .. (N - 1), k \in T PROVE k + 1 \in T
  <2>1. k + 1 \in 1 .. N /\ (k + 1) - 1 = k /\ k + 1 \in 0 .. N /\ k \in 0 .. N
    BY <1>1
  <2>2. g[k + 1] = Insert(g[k], s[k + 1], key) /\ g[k] \in D
    BY <1>4, <2>1 DEF SortRun, SortStep
  <2>3. First(s, k + 1) = First(s, k) \cup {s[k + 1]} /\ s[k + 1] \in S
    BY <2>1, FirstIs
  <2>4. ToSet(g[k]) = First(s, k) /\ (IsInjective(s) => IsInjective(g[k]))
    BY <1>7
  <2>5. InsertEffect(g[k + 1], g[k], s[k + 1], key, S)
    BY <2>2, <2>3, InsertIs DEF D
  <2>6. IsInjective(s) => s[k + 1] \notin First(s, k)
    <3>1. \A i \in 1 .. k : i \in DOMAIN s /\ i # k + 1 /\ k + 1 \in DOMAIN s
      BY <1>1, <2>1
    <3>2. QED
      BY <3>1 DEF First, IsInjective
  <2>7. ToSet(g[k + 1]) = First(s, k + 1)
    BY <2>3, <2>4, <2>5 DEF InsertEffect
  <2>8. IsInjective(s) => IsInjective(g[k + 1])
    BY <2>4, <2>5, <2>6 DEF InsertEffect
  <2>9. QED
    BY <2>1, <2>7, <2>8
<1>8. N \in T
  <2> HIDE DEF T
  <2>1. \A k \in 0 .. N : k \in T
    BY <1>1, <1>6, <1>7, UpTo
  <2>2. QED
    BY <1>1, <2>1
<1>9. ToSet(t) = ToSet(s) /\ (IsInjective(s) => IsInjective(t))
  BY <1>4, <1>8, FirstIs
<1>10. t \in D
  BY <1>1, <1>4, <1>5
<1>11. QED
  BY <1>9, <1>10 DEF SortEffect, D

-----------------------------------------------------------------------------
(* Dumps. *)

\* Sorted by a key, without repetition.
Strictly(t, key) == \A i, j \in 1 .. Len(t) : i < j => key[t[i]] < key[t[j]]

\* Sorted distinct elements of which no two have the same key.
LEMMA StrictlySorted ==
    ASSUME NEW S, NEW key \in [S -> Int], \A x, y \in S : key[x] = key[y] => x = y,
           NEW t \in Seq(S), SortedBy(t, key), IsInjective(t)
    PROVE  Strictly(t, key)
<1>1. Len(t) \in Nat /\ DOMAIN t = 1 .. Len(t)
  OBVIOUS
<1>2. \A i \in 1 .. Len(t) : t[i] \in S /\ key[t[i]] \in Int
  BY ElementOfSeq
<1>3. ASSUME NEW i \in 1 .. Len(t), NEW j \in 1 .. Len(t), i < j PROVE key[t[i]] < key[t[j]]
  <2>1. i # j /\ t[i] # t[j]
    BY <1>1, <1>3 DEF IsInjective
  <2>2. key[t[i]] # key[t[j]]
    BY <1>2, <2>1
  <2>3. key[t[i]] <= key[t[j]]
    BY <1>3 DEF SortedBy
  <2>4. QED
    BY <1>2, <2>2, <2>3
<1>4. QED
  BY <1>3 DEF Strictly

\* The next element cannot come earlier in the one than in the other.
LEMMA NextSame ==
    ASSUME NEW S, NEW key \in [S -> Int], NEW a \in Seq(S), NEW b \in Seq(S),
           Strictly(a, key), Strictly(b, key), ToSet(a) = ToSet(b),
           NEW k \in 1 .. Len(a), k \in 1 .. Len(b), \A j \in 1 .. (k - 1) : a[j] = b[j]
    PROVE  key[b[k]] <= key[a[k]]
<1>1. Len(a) \in Nat /\ Len(b) \in Nat /\ DOMAIN a = 1 .. Len(a) /\ DOMAIN b = 1 .. Len(b)
  OBVIOUS
<1>2. (\A i \in 1 .. Len(a) : a[i] \in S /\ key[a[i]] \in Int)
      /\ (\A i \in 1 .. Len(b) : b[i] \in S /\ key[b[i]] \in Int)
  BY ElementOfSeq
<1>3. a[k] \in ToSet(a)
  BY <1>1 DEF ToSet
<1>4. PICK m \in 1 .. Len(b) : b[m] = a[k]
  BY <1>1, <1>3 DEF ToSet
<1>5. CASE m < k
  <2>1. m \in 1 .. (k - 1) /\ m \in 1 .. Len(a)
    BY <1>1, <1>5
  <2>2. a[m] = a[k]
    BY <1>4, <2>1
  <2>3. key[a[m]] < key[a[k]]
    BY <1>5, <2>1 DEF Strictly
  <2>4. QED
    BY <1>2, <2>2, <2>3
<1>6. CASE m = k
  BY <1>2, <1>4, <1>6
<1>7. CASE m > k
  <2>1. key[b[k]] < key[b[m]]
    BY <1>7 DEF Strictly
  <2>2. QED
    BY <1>2, <1>4, <2>1
<1>8. QED
  BY <1>1, <1>5, <1>6, <1>7

\* Equal sets, sorted by a key that tells their elements apart, are equal sequences.
LEMMA SortedUnique ==
    ASSUME NEW S, NEW key \in [S -> Int], \A x, y \in S : key[x] = key[y] => x = y,
           NEW a \in Seq(S), NEW b \in Seq(S), IsInjective(a), IsInjective(b),
           SortedBy(a, key), SortedBy(b, key), ToSet(a) = ToSet(b)
    PROVE  a = b
<1> DEFINE n == Len(a)
           T == {k \in 0 .. n : \A j \in 1 .. k : a[j] = b[j]}
<1>1. Len(b) = n /\ n \in Nat
  <2>1. Cardinality(ToSet(a)) = Len(a)
    BY DistinctCount
  <2>2. Cardinality(ToSet(b)) = Len(b)
    BY DistinctCount
  <2>3. QED
    BY <2>1, <2>2
<1>2. Strictly(a, key)
  BY StrictlySorted
<1>3. Strictly(b, key)
  BY StrictlySorted
<1>4. 0 \in T
  BY <1>1
<1>5. ASSUME NEW k \in 0 .. (n - 1), k \in T PROVE k + 1 \in T
  <2>1. k + 1 \in 1 .. Len(a) /\ k + 1 \in 1 .. Len(b) /\ (k + 1) - 1 = k /\ k + 1 \in 0 .. n
    BY <1>1
  <2>2. \A j \in 1 .. ((k + 1) - 1) : a[j] = b[j]
    BY <1>5, <2>1
  <2>3. key[b[k + 1]] <= key[a[k + 1]]
    BY <1>2, <1>3, <2>1, <2>2, NextSame
  <2>4. \A j \in 1 .. ((k + 1) - 1) : b[j] = a[j]
    BY <2>2
  <2>5. key[a[k + 1]] <= key[b[k + 1]]
    BY <1>2, <1>3, <2>1, <2>4, NextSame
  <2>6. a[k + 1] \in S /\ b[k + 1] \in S
    BY <2>1, ElementOfSeq
  <2>7. a[k + 1] = b[k + 1]
    BY <2>3, <2>5, <2>6
  <2>8. ASSUME NEW j \in 1 .. (k + 1) PROVE a[j] = b[j]
    <3>1. j = k + 1 \/ j \in 1 .. ((k + 1) - 1)
      BY <1>1
    <3>2. QED
      BY <2>2, <2>7, <3>1
  <2>9. QED
    BY <2>1, <2>8
<1>6. n \in T
  <2> HIDE DEF T
  <2>1. \A k \in 0 .. n : k \in T
    BY <1>1, <1>4, <1>5, UpTo
  <2>2. QED
    BY <1>1, <2>1
<1>7. QED
  BY <1>1, <1>6, SameElements

\* The place of every member in byte order.
ByteRank == [m \in Members |-> CHOOSE i \in DOMAIN ByteOrder : ByteOrder[i] = m]

\* Members in different places.
LEMMA ByteRankIs ==
    ByteRank \in [Members -> Int] /\ \A x, y \in Members : ByteRank[x] = ByteRank[y] => x = y
<1>1. ASSUME NEW m \in Members PROVE ByteRank[m] \in DOMAIN ByteOrder /\ ByteOrder[ByteRank[m]] = m
  <2>1. \E i \in DOMAIN ByteOrder : ByteOrder[i] = m
    BY RedisSetAssumption DEF ToSet
  <2>2. QED
    BY <2>1 DEF ByteRank
<1>2. DOMAIN ByteOrder \subseteq Int
  BY RedisSetAssumption
<1>3. ByteRank = [m \in Members |-> ByteRank[m]]
  BY DEF ByteRank
<1>4. QED
  BY <1>1, <1>2, <1>3

\* What a dump is.
Dumped(t, o) ==
    t \in Seq(Members) /\ SortedBy(t, ByteRank) /\ ToSet(t) = Value(o) /\ IsInjective(t)

\* A dump lists the members in byte order.
LEMMA DumpIs ==
    ASSUME NEW o, Sound(o)
    PROVE  Dumped(rl_dump_set(o), o)
<1> DEFINE s == lsmembers(o)
<1>1. s \in Seq(Members) /\ IsInjective(s)
  <2>1. CASE o = NULL
    BY <2>1 DEF lsmembers, IsInjective
  <2>2. CASE o # NULL
    <3>1. WalkFacts(o)
      BY <2>2, Walk DEF Sound
    <3>2. QED
      BY <2>2, <3>1 DEF WalkFacts, lsmembers
  <2>3. QED
    BY <2>1, <2>2
<1>2. rl_dump_set(o) = SortBy(s, ByteRank)
  BY DEF rl_dump_set, ByteRank
<1>3. ToSet(s) = Value(o)
  BY DEF Value
<1> HIDE DEF s
<1>4. SortEffect(SortBy(s, ByteRank), s, ByteRank, Members)
  BY <1>1, ByteRankIs, SortIs
<1>5. QED
  BY <1>1, <1>2, <1>3, <1>4 DEF SortEffect, Dumped

\* DumpCanonical, under the invariant.
LEMMA IInvDump == IInv => DumpCanonical
<1> SUFFICES ASSUME IInv, NEW g \in Handles, NEW h \in Handles, Live(g), Live(h)
             PROVE  /\ Value(sobj[g]) = Value(sobj[h]) =>
                            rl_dump_set(sobj[g]) = rl_dump_set(sobj[h])
                    /\ Value(rl_load_set(rl_dump_set(sobj[g]))) = Value(sobj[g])
  BY DEF DumpCanonical
<1>1. Sound(sobj[g]) /\ Sound(sobj[h])
  BY SlotIs DEF IInv, Live
<1>2. Dumped(rl_dump_set(sobj[g]), sobj[g])
  BY <1>1, DumpIs
<1>3. Dumped(rl_dump_set(sobj[h]), sobj[h])
  BY <1>1, DumpIs
<1>4. ASSUME Value(sobj[g]) = Value(sobj[h]) PROVE rl_dump_set(sobj[g]) = rl_dump_set(sobj[h])
  BY <1>2, <1>3, <1>4, ByteRankIs, SortedUnique DEF Dumped
<1>5. Leaves(rl_load_set(rl_dump_set(sobj[g])), ToSet(rl_dump_set(sobj[g])))
  BY <1>2, LoadIs DEF Dumped
<1>6. QED
  BY <1>2, <1>4, <1>5 DEF Leaves, Dumped

\* DumpCanonical holds: rl_dump_set writes one blob for one set, and rl_load_set reads
\* the set back.
THEOREM DumpsCanonical == Spec => []DumpCanonical
BY Soundness, IInvDump, PTL

-----------------------------------------------------------------------------
(* One sequence after the other. *)

\* The elements of all sequences of a sequence up to the k-th.
Within(seqs, k) == UNION {ToSet(seqs[j]) : j \in 1 .. k}

\* One sequence more.
LEMMA WithinIs ==
    ASSUME NEW seqs
    PROVE  /\ Within(seqs, 0) = {}
           /\ \A k \in Nat : Within(seqs, k + 1) = Within(seqs, k) \cup ToSet(seqs[k + 1])
<1>1. Within(seqs, 0) = {}
  BY DEF Within
<1>2. ASSUME NEW k \in Nat PROVE Within(seqs, k + 1) = Within(seqs, k) \cup ToSet(seqs[k + 1])
  <2>1. \A j : j \in 1 .. (k + 1) <=> j \in 1 .. k \/ j = k + 1
    OBVIOUS
  <2>2. QED
    BY <2>1 DEF Within
<1>3. QED
  BY <1>1, <1>2

\* FlattenSeq has the elements of all its sequences.
LEMMA FlattenIs ==
    ASSUME NEW S, NEW seqs \in Seq(Seq(S))
    PROVE  /\ FlattenSeq(seqs) \in Seq(S)
           /\ ToSet(FlattenSeq(seqs)) = Within(seqs, Len(seqs))
<1> DEFINE L == Len(seqs)
           step(f, i) == IF i = 1 THEN seqs[i] ELSE f[i - 1] \o seqs[i]
           Eqn(f) == f = [i \in 1 .. L |-> step(f, i)]
           flat == CHOOSE f : Eqn(f)
           D == Seq(S)
           F == [p \in (1 .. L) \X D |-> IF p[1] = 1 THEN seqs[p[1]] ELSE p[2] \o seqs[p[1]]]
<1>1. L \in Nat
  OBVIOUS
<1>2. \A i \in 1 .. L : seqs[i] \in D
  BY ElementOfSeq
<1>3. F \in [(1 .. L) \X D -> D]
  <2>1. ASSUME NEW p \in (1 .. L) \X D
        PROVE  (IF p[1] = 1 THEN seqs[p[1]] ELSE p[2] \o seqs[p[1]]) \in D
    <3>1. p[1] \in 1 .. L /\ p[2] \in D
      OBVIOUS
    <3>2. seqs[p[1]] \in D
      BY <1>2, <3>1
    <3>3. p[2] \o seqs[p[1]] \in D
      BY <3>1, <3>2
    <3>4. QED
      BY <3>2, <3>3
  <2> HIDE DEF D
  <2>2. QED
    BY <2>1
<1>4. CASE L = 0
  <2>1. seqs = <<>>
    BY <1>4
  <2>2. FlattenSeq(seqs) = <<>>
    BY <1>4, <2>1 DEF FlattenSeq
  <2>3. ToSet(<<>>) = {} /\ <<>> \in Seq(S)
    BY DEF ToSet
  <2>4. Within(seqs, Len(seqs)) = {}
    BY <1>4, WithinIs
  <2>5. QED
    BY <2>2, <2>3, <2>4
<1>5. CASE L # 0
  <2>1. PICK g : Accumulates(g, L, <<>>, F, D)
    <3>1. <<>> \in D
      OBVIOUS
    <3> HIDE DEF F, D, L
    <3>2. QED
      BY <1>1, <1>3, <3>1, RecursionExists
  <2>2. /\ g \in [0 .. L -> D] /\ \A n \in 1 .. L : g[n] = F[<<n, g[n - 1]>>]
    <3> HIDE DEF F, D, L
    <3>1. QED
      BY <2>1 DEF Accumulates
  <2> DEFINE f == [i \in 1 .. L |-> g[i]]
  <2>3. ASSUME NEW i \in 1 .. L PROVE g[i] = step(f, i)
    <3>1. i - 1 \in 0 .. L
      BY <1>1
    <3>2. g[i - 1] \in D
      BY <2>2, <3>1
    <3>3. g[i] = IF i = 1 THEN seqs[i] ELSE g[i - 1] \o seqs[i]
      <4>1. <<i, g[i - 1]>> \in (1 .. L) \X D
        BY <3>2
      <4>2. QED
        BY <2>2, <4>1
    <3>4. i # 1 => f[i - 1] = g[i - 1]
      <4>1. i # 1 => i - 1 \in 1 .. L
        BY <1>1
      <4>2. QED
        BY <4>1
    <3> HIDE DEF f
    <3>5. QED
      BY <3>3, <3>4
  <2>4. Eqn(f)
    <3> HIDE DEF step
    <3>1. QED
      BY <2>3
  <2>5. Eqn(flat)
    <3>1. \E e : Eqn(e)
      BY <2>4
    <3> HIDE DEF Eqn
    <3>2. QED
      BY <3>1
  <2>6. FlattenSeq(seqs) = flat[L]
    BY <1>5 DEF FlattenSeq
  <2> HIDE DEF flat
  <2>7. \A i \in 1 .. L : flat[i] = IF i = 1 THEN seqs[i] ELSE flat[i - 1] \o seqs[i]
    BY <2>5
  <2> DEFINE T == {k \in 0 .. L : k # 0 => flat[k] \in Seq(S) /\ ToSet(flat[k]) = Within(seqs, k)}
  <2>8. 0 \in T
    BY <1>1
  <2>9. ASSUME NEW k \in 0 .. (L - 1), k \in T PROVE k + 1 \in T
    <3>1. k + 1 \in 1 .. L /\ k + 1 \in 0 .. L /\ (k + 1) - 1 = k /\ k \in Nat
      BY <1>1
    <3>2. seqs[k + 1] \in Seq(S)
      BY <1>2, <3>1
    <3>3. Within(seqs, k + 1) = Within(seqs, k) \cup ToSet(seqs[k + 1])
      BY <3>1, WithinIs
    <3>4. CASE k = 0
      <4>1. flat[k + 1] = seqs[k + 1]
        BY <2>7, <3>1, <3>4
      <4>2. Within(seqs, k) = {}
        BY <3>4, WithinIs
      <4>3. QED
        BY <3>1, <3>2, <3>3, <4>1, <4>2
    <3>5. CASE k # 0
      <4>1. flat[k + 1] = flat[k] \o seqs[k + 1]
        <5> DEFINE i == k + 1
        <5>1. i \in 1 .. L /\ i # 1 /\ i - 1 = k
          BY <3>1, <3>5
        <5> HIDE DEF i
        <5>2. flat[i] = flat[i - 1] \o seqs[i]
          BY <2>7, <5>1
        <5>3. flat[i] = flat[k] \o seqs[i]
          BY <5>1, <5>2
        <5>4. QED
          BY <5>3 DEF i
      <4>2. flat[k] \in Seq(S) /\ ToSet(flat[k]) = Within(seqs, k)
        BY <2>9, <3>5
      <4>3. flat[k + 1] \in Seq(S) /\ ToSet(flat[k + 1]) = ToSet(flat[k]) \cup ToSet(seqs[k + 1])
        BY <3>2, <4>1, <4>2, JoinToSet
      <4>4. ToSet(flat[k + 1]) = Within(seqs, k + 1)
        BY <3>3, <4>2, <4>3
      <4>5. QED
        BY <3>1, <4>3, <4>4
    <3>6. QED
      BY <3>4, <3>5
  <2>10. L \in T
    <3> HIDE DEF T
    <3>1. \A n \in 0 .. L : n \in T
      BY <1>1, <2>8, <2>9, UpTo
    <3>2. QED
      BY <1>1, <3>1
  <2>11. QED
    BY <1>5, <2>6, <2>10
<1>6. QED
  BY <1>4, <1>5

-----------------------------------------------------------------------------
(* The operations on several sets. *)

LiveHandles == {h \in Handles : Live(h)}

\* The values of operands one to k.
Together(ops, k) == UNION {Value(sobj[ops[j]]) : j \in 1 .. k}

\* The reply of an operation whose result is S.
Exact(r, S, limit) ==
    /\ r.n = Limited(Cardinality(S), limit)
    /\ limit = 0 => IsInjective(r.reply) /\ ToSet(r.reply) = S

\* What reading a handle gives.
MembersFacts(o) ==
    /\ lsmembers(o) \in Seq(Members) /\ IsInjective(lsmembers(o)) /\ ToSet(lsmembers(o)) = Value(o)
    /\ Value(o) \subseteq Members /\ IsFiniteSet(Value(o))
    /\ lscard(o) = Cardinality(Value(o)) /\ Cardinality(Value(o)) \in Nat
    /\ o # NULL => lsmembers(o) = setTypeWalk(o)

\* The members of a handle.
LEMMA MembersAre ==
    ASSUME NEW o, Sound(o)
    PROVE  MembersFacts(o)
<1>1. lsmembers(o) \in Seq(Members) /\ IsInjective(lsmembers(o))
  <2>1. CASE o = NULL
    BY <2>1 DEF lsmembers, IsInjective
  <2>2. CASE o # NULL
    <3>1. WalkFacts(o)
      BY <2>2, Walk DEF Sound
    <3>2. QED
      BY <2>2, <3>1 DEF WalkFacts, lsmembers
  <2>3. QED
    BY <2>1, <2>2
<1>2. ToSet(lsmembers(o)) = Value(o)
  BY DEF Value
<1>3. Value(o) \subseteq Members
  BY <1>1, <1>2, FirstIs
<1>4. IsFiniteSet(Value(o))
  BY <1>1, <1>2, FiniteElements
<1>5. lscard(o) = Cardinality(Value(o)) /\ Cardinality(Value(o)) \in Nat
  BY ReadsAre
<1>6. o # NULL => lsmembers(o) = setTypeWalk(o)
  BY DEF lsmembers
<1>7. QED
  BY <1>1, <1>2, <1>3, <1>4, <1>5, <1>6 DEF MembersFacts

\* Every operand is sound.
LEMMA OperandSound ==
    ASSUME IInv, NEW h \in LiveHandles
    PROVE  Sound(sobj[h]) /\ MembersFacts(sobj[h]) /\ h \in Handles
<1>1. Sound(sobj[h])
  BY SlotIs DEF IInv, Live, LiveHandles
<1>2. QED
  BY <1>1, MembersAre DEF LiveHandles

\* The walks of all operands meet the members of all of them.
LEMMA WalksAre ==
    ASSUME IInv, NEW ops \in Seq(LiveHandles)
    PROVE  Walks(ops) \in Seq(Members) /\ ToSet(Walks(ops)) = Together(ops, Len(ops))
<1> DEFINE n == Len(ops)
           seqs == [j \in DOMAIN ops |-> lsmembers(sobj[ops[j]])]
<1>1. n \in Nat /\ DOMAIN ops = 1 .. n
  OBVIOUS
<1>2. ASSUME NEW j \in 1 .. n PROVE seqs[j] \in Seq(Members) /\ ToSet(seqs[j]) = Value(sobj[ops[j]])
  <2>1. ops[j] \in LiveHandles
    BY ElementOfSeq
  <2>2. MembersFacts(sobj[ops[j]])
    BY <2>1, OperandSound
  <2>3. seqs[j] = lsmembers(sobj[ops[j]])
    BY <1>1
  <2>4. QED
    BY <2>2, <2>3 DEF MembersFacts
<1>3. seqs \in Seq(Seq(Members)) /\ Len(seqs) = n
  <2>1. DOMAIN seqs = 1 .. n /\ seqs = [j \in 1 .. n |-> seqs[j]]
    BY <1>1
  <2> DEFINE M == Seq(Members)
  <2>2. \A j \in 1 .. n : seqs[j] \in M
    BY <1>2
  <2> HIDE DEF seqs, M
  <2>3. seqs \in [1 .. n -> M]
    BY <2>1, <2>2
  <2>4. seqs \in Seq(M) /\ Len(seqs) = n
    BY <1>1, <2>3
  <2>5. QED
    BY <2>4 DEF M
<1>4. Walks(ops) = FlattenSeq(seqs)
  BY DEF Walks
<1> HIDE DEF seqs
<1>5. FlattenSeq(seqs) \in Seq(Members) /\ ToSet(FlattenSeq(seqs)) = Within(seqs, n)
  BY <1>3, FlattenIs
<1>6. Within(seqs, n) = Together(ops, n)
  <2>1. \A j \in 1 .. n : ToSet(seqs[j]) = Value(sobj[ops[j]])
    BY <1>2
  <2>2. {ToSet(seqs[j]) : j \in 1 .. n} = {Value(sobj[ops[j]]) : j \in 1 .. n}
    BY <2>1
  <2>3. QED
    BY <2>2 DEF Within, Together
<1>7. QED
  BY <1>4, <1>5, <1>6

\* The result is collected in an empty payload.
LEMMA DstsetIs ==
    ASSUME NEW ops
    PROVE  dstset(ops) \in GoodObjects(0) /\ Holdings(dstset(ops)) = {}
<1>1. Is(dstset(ops), 0, {})
  BY EmptyObjects DEF dstset
<1>2. QED
  BY <1>1 DEF Is

\* Members found one after the other.
LEMMA FoundIs ==
    ASSUME NEW s \in Seq(Members), IsInjective(s), NEW limit \in Nat
    PROVE  Exact(Found(s, limit), ToSet(s), limit)
<1>1. Cardinality(ToSet(s)) = Len(s)
  BY DistinctCount
<1>2. Found(s, limit).n = Limited(Len(s), limit) /\ Found(s, limit).reply = s
  BY DEF Found
<1>3. QED
  BY <1>1, <1>2 DEF Exact

\* Members collected in a payload.
LEMMA CollectedIs ==
    ASSUME NEW r, NEW S, Is(r.set, 0, S), r.n = Cardinality(S)
    PROVE  Exact(Collected(r), S, 0)
<1>1. r.set \in GoodObjects(0) /\ Holdings(r.set) = S
  BY DEF Is
<1>2. IsInjective(setTypeWalk(r.set)) /\ ToSet(setTypeWalk(r.set)) = S
  BY <1>1, Walk DEF WalkFacts, Holdings
<1>3. Collected(r).n = Cardinality(S) /\ Collected(r).reply = setTypeWalk(r.set)
  BY DEF Collected
<1>4. Limited(Cardinality(S), 0) = Cardinality(S)
  BY DEF Limited
<1>5. QED
  BY <1>2, <1>3, <1>4 DEF Exact

\* The size key the operands are sorted by.
LEMMA SizeKey ==
    ASSUME IInv, NEW ops \in Seq(LiveHandles)
    PROVE  /\ ops \in Seq(ToSet(ops)) /\ ToSet(ops) \subseteq LiveHandles
           /\ [h \in ToSet(ops) |-> Size(h)] \in [ToSet(ops) -> Int]
           /\ [h \in ToSet(ops) |-> -Size(h)] \in [ToSet(ops) -> Int]
<1>1. Len(ops) \in Nat /\ DOMAIN ops = 1 .. Len(ops) /\ ToSet(ops) \subseteq LiveHandles
  BY FirstIs
<1>2. \A i \in 1 .. Len(ops) : ops[i] \in ToSet(ops)
  BY <1>1 DEF ToSet
<1>3. ops \in Seq(ToSet(ops))
  <2> DEFINE V == ToSet(ops)
  <2>1. \A i \in 1 .. Len(ops) : ops[i] \in V
    BY <1>2
  <2> HIDE DEF V
  <2>2. ops \in [1 .. Len(ops) -> V]
    BY <1>1, <2>1
  <2>3. ops \in Seq(V)
    BY <1>1, <2>2
  <2>4. QED
    BY <2>3 DEF V
<1>4. ASSUME NEW h \in ToSet(ops) PROVE Size(h) \in Int /\ -Size(h) \in Int
  <2>1. MembersFacts(sobj[h])
    BY <1>1, OperandSound
  <2>2. Size(h) \in Nat
    BY <2>1 DEF MembersFacts, Size
  <2>3. QED
    BY <2>2
<1>5. QED
  BY <1>1, <1>3, <1>4

\* The members every operand has.
Common(ops) == {m \in Together(ops, Len(ops)) : \A j \in DOMAIN ops : m \in Value(sobj[ops[j]])}

\* SINTER: the first of the sorted operands is walked and the others asked.
LEMMA InterIs ==
    ASSUME IInv, NEW ops \in Seq(LiveHandles), Len(ops) >= 1, NEW limit \in Nat
    PROVE  Exact(lsinter_generic(ops, limit), Common(ops), limit)
<1>1. Len(ops) \in Nat /\ DOMAIN ops = 1 .. Len(ops) /\ 1 \in DOMAIN ops
  OBVIOUS
<1>2. CASE \E j \in DOMAIN ops : sobj[ops[j]] = NULL
  <2>1. lsinter_generic(ops, limit) = Found(<<>>, limit)
    BY <1>2 DEF lsinter_generic
  <2>2. Common(ops) = {}
    BY <1>2, ValueIs DEF Common
  <2>3. <<>> \in Seq(Members) /\ IsInjective(<<>>) /\ ToSet(<<>>) = {}
    BY DEF IsInjective, ToSet
  <2>4. Exact(Found(<<>>, limit), ToSet(<<>>), limit)
    BY <2>3, FoundIs
  <2>5. QED
    BY <2>1, <2>2, <2>3, <2>4
<1>3. CASE ~ \E j \in DOMAIN ops : sobj[ops[j]] = NULL
  <2> DEFINE key == [h \in ToSet(ops) |-> Size(h)]
             V == ToSet(ops)
             sets == SortBy(ops, key)
             w == setTypeWalk(sobj[sets[1]])
             R == {m \in Members : \A j \in 2 .. Len(sets) :
                    sets[j] = sets[1] \/ setTypeIsMember(sobj[sets[j]], m)}
  <2>1. ops \in Seq(V) /\ V \subseteq LiveHandles /\ key \in [V -> Int]
    BY SizeKey
  <2>2. lsinter_generic(ops, limit) = Found(InAll(sets), limit)
    BY <1>3 DEF lsinter_generic
  <2>3. InAll(sets) = Select(w, R)
    BY DEF InAll
  <2> HIDE DEF key, w, R
  <2>4. SortEffect(sets, ops, key, V)
    <3> HIDE DEF V
    <3>1. QED
      BY <2>1, SortIs
  <2> HIDE DEF sets
  <2>5. sets \in Seq(V) /\ ToSet(sets) = V
    BY <2>4 DEF SortEffect
  <2>6. ASSUME NEW h \in V PROVE sobj[h] # NULL /\ Sound(sobj[h]) /\ MembersFacts(sobj[h])
    <3>1. Sound(sobj[h]) /\ MembersFacts(sobj[h])
      BY <2>1, OperandSound
    <3>2. sobj[h] # NULL
      BY <1>3 DEF ToSet
    <3>3. QED
      BY <3>1, <3>2
  <2>7. Len(sets) \in Nat /\ DOMAIN sets = 1 .. Len(sets) /\ Len(sets) >= 1
    <3>1. ops[1] \in V
      BY <1>1 DEF ToSet
    <3>2. Len(sets) \in Nat /\ DOMAIN sets = 1 .. Len(sets)
      BY <2>5
    <3>3. \E i \in 1 .. Len(sets) : sets[i] = ops[1]
      BY <2>5, <3>1, <3>2 DEF ToSet
    <3>4. QED
      BY <3>2, <3>3
  <2>8. \A j \in 1 .. Len(sets) : sets[j] \in V
    BY <2>5, ElementOfSeq
  <2>9. sets[1] \in V
    BY <2>7, <2>8
  <2>10. w \in Seq(Members) /\ IsInjective(w) /\ ToSet(w) = Value(sobj[sets[1]]) /\ ToSet(w) \subseteq Members
    BY <2>6, <2>9 DEF MembersFacts, w
  <2>11. Selected(Select(w, R), w, R, Members)
    BY <2>10, SelectIs
  <2>12. ASSUME NEW m \in Members
         PROVE  (m \in ToSet(w) /\ m \in R) <=> m \in Common(ops)
    <3>1. ASSUME NEW j \in 1 .. Len(sets) PROVE setTypeIsMember(sobj[sets[j]], m) <=> m \in Value(sobj[sets[j]])
      BY <2>6, <2>8, MemberIs
    <3>2. \A j \in 1 .. Len(sets) : j = 1 \/ j \in 2 .. Len(sets)
      BY <2>7
    <3>3. (m \in ToSet(w) /\ m \in R) <=> \A j \in 1 .. Len(sets) : m \in Value(sobj[sets[j]])
      <4>1. \A j \in 2 .. Len(sets) : j \in 1 .. Len(sets)
        BY <2>7
      <4>2. 1 \in 1 .. Len(sets)
        BY <2>7
      <4>3. m \in R <=> \A j \in 2 .. Len(sets) : sets[j] = sets[1] \/ m \in Value(sobj[sets[j]])
        BY <3>1, <4>1 DEF R
      <4>4. QED
        BY <2>10, <3>2, <4>1, <4>2, <4>3
    <3>4. (\A j \in 1 .. Len(sets) : m \in Value(sobj[sets[j]])) <=> \A h \in V : m \in Value(sobj[h])
      <4>1. V = {sets[j] : j \in 1 .. Len(sets)}
        BY <2>5, <2>7 DEF ToSet
      <4> HIDE DEF V
      <4>2. QED
        BY <4>1
    <3>5. (\A h \in V : m \in Value(sobj[h])) <=> \A j \in DOMAIN ops : m \in Value(sobj[ops[j]])
      BY DEF ToSet
    <3>6. (\A j \in DOMAIN ops : m \in Value(sobj[ops[j]])) => m \in Together(ops, Len(ops))
      BY <1>1 DEF Together
    <3>7. QED
      BY <3>3, <3>4, <3>5, <3>6 DEF Common
  <2>13. Common(ops) \subseteq Members
    <3>1. Common(ops) \subseteq Value(sobj[ops[1]])
      BY <1>1 DEF Common
    <3>2. ops[1] \in V
      BY <1>1 DEF ToSet
    <3>3. QED
      BY <2>6, <3>1, <3>2 DEF MembersFacts
  <2> DEFINE t == Select(w, R)
  <2> HIDE DEF t
  <2>14. t \in Seq(Members) /\ IsInjective(t) /\ ToSet(t) = ToSet(w) \cap R
    BY <2>10, <2>11 DEF Selected, t
  <2>15. ToSet(t) = Common(ops)
    BY <2>10, <2>12, <2>13, <2>14
  <2>16. Exact(Found(t, limit), ToSet(t), limit)
    BY <2>14, FoundIs
  <2>17. QED
    BY <2>2, <2>3, <2>15, <2>16 DEF t
<1>4. QED
  BY <1>2, <1>3

-----------------------------------------------------------------------------
(* SUNION. *)

\* SUNION's loop after the members F: exact until the limit stops it.
Collecting(r, F, limit) ==
    /\ r.set \in GoodObjects(0) /\ r.n \in Nat /\ IsFiniteSet(F) /\ Cardinality(F) \in Nat
    /\ limit = 0 \/ r.n < limit => Is(r.set, 0, F) /\ r.n = Cardinality(F)
    /\ limit > 0 /\ r.n >= limit => r.n = limit /\ Cardinality(F) >= limit

\* One member more.
LEMMA CollectOneMore ==
    ASSUME NEW r, NEW F, NEW limit \in Nat, Collecting(r, F, limit), NEW x \in Members
    PROVE  Collecting(UnionStep(limit, r, x), F \cup {x}, limit)
<1> DEFINE G == F \cup {x}
<1>1. r.set \in GoodObjects(0) /\ r.n \in Nat /\ IsFiniteSet(F) /\ Cardinality(F) \in Nat
  BY DEF Collecting
<1>2. /\ IsFiniteSet(G) /\ Cardinality(G) \in Nat /\ Cardinality(F) <= Cardinality(G)
      /\ Cardinality(G) <= Cardinality(F) + 1
  <2>1. /\ IsFiniteSet(F \cup {x})
        /\ Cardinality(F \cup {x}) = IF x \in F THEN Cardinality(F) ELSE Cardinality(F) + 1
    BY <1>1, FS_AddElement
  <2>2. QED
    BY <1>1, <2>1
<1> HIDE DEF G
<1>3. CASE limit > 0 /\ r.n >= limit
  <2>1. UnionStep(limit, r, x) = r
    BY <1>3 DEF UnionStep
  <2>2. r.n = limit /\ Cardinality(F) >= limit
    BY <1>3 DEF Collecting
  <2>3. ~ (limit = 0 \/ r.n < limit)
    BY <1>1, <1>3
  <2>4. Cardinality(G) >= limit
    BY <1>1, <1>2, <2>2
  <2>5. QED
    BY <1>1, <1>2, <2>1, <2>2, <2>3, <2>4 DEF Collecting, G
<1>4. CASE ~ (limit > 0 /\ r.n >= limit)
  <2>1. UnionStep(limit, r, x) = AddStep(r, x)
    BY <1>4 DEF UnionStep, AddStep
  <2>2. Is(r.set, 0, F) /\ r.n = Cardinality(F)
    <3>1. limit = 0 \/ r.n < limit
      BY <1>1, <1>4
    <3>2. QED
      BY <3>1 DEF Collecting
  <2>3. {} \cup F = F /\ F \ {} = F /\ {} \cup G = G /\ G \ {} = G
    OBVIOUS
  <2>4. Added(r, {}, F)
    BY <1>1, <2>2, <2>3 DEF Added
  <2> DEFINE t == AddStep(r, x)
  <2>5. Added(t, {}, G) /\ t \in [set : GoodObjects(0), n : Nat]
    BY <1>1, <2>4, AddOneMore DEF G
  <2> HIDE DEF t
  <2>6. Is(t.set, 0, G) /\ t.n = Cardinality(G) /\ t.set \in GoodObjects(0) /\ t.n \in Nat
    BY <2>3, <2>5 DEF Added
  <2>7. limit > 0 /\ t.n >= limit => t.n = limit /\ Cardinality(G) >= limit
    BY <1>1, <1>2, <1>4, <2>2, <2>6
  <2>8. Collecting(t, G, limit)
    BY <1>2, <2>6, <2>7 DEF Collecting
  <2>9. QED
    BY <2>1, <2>8 DEF t, G
<1>5. QED
  BY <1>3, <1>4

\* SUNION: every member once, counted up to the limit.
LEMMA UnionIs ==
    ASSUME IInv, NEW ops \in Seq(LiveHandles), NEW limit \in Nat
    PROVE  Exact(lsunion_generic(ops, limit), Together(ops, Len(ops)), limit)
<1> DEFINE s == Walks(ops)
           N == Len(s)
           b == [set |-> dstset(ops), n |-> 0]
           D == {r \in [set : GoodObjects(0), n : Nat] : \E F : Collecting(r, F, limit)}
<1>1. s \in Seq(Members) /\ ToSet(s) = Together(ops, Len(ops))
  BY WalksAre
<1>2. N \in Nat
  BY <1>1
<1>3. b \in [set : GoodObjects(0), n : Nat] /\ Collecting(b, {}, limit)
  <2>1. dstset(ops) \in GoodObjects(0) /\ Holdings(dstset(ops)) = {}
    BY DstsetIs
  <2>2. IsFiniteSet({}) /\ Cardinality({}) = 0
    BY FS_EmptySet
  <2>3. QED
    BY <2>1, <2>2 DEF Collecting, Is
<1>4. ASSUME NEW x \in Members, NEW y \in D PROVE UnionStep(limit, y, x) \in D
  <2>1. PICK F : Collecting(y, F, limit)
    OBVIOUS
  <2>2. Collecting(UnionStep(limit, y, x), F \cup {x}, limit)
    BY <2>1, CollectOneMore
  <2>3. UnionStep(limit, y, x) \in [set : GoodObjects(0), n : Nat]
    <3>1. UnionStep(limit, y, x).set \in GoodObjects(0) /\ UnionStep(limit, y, x).n \in Nat
      BY <2>2 DEF Collecting
    <3>2. UnionStep(limit, y, x) = y \/ UnionStep(limit, y, x) = AddStep(y, x)
      BY DEF UnionStep, AddStep
    <3>3. AddStep(y, x) = [set |-> AddStep(y, x).set, n |-> AddStep(y, x).n]
      BY DEF AddStep, Counted
    <3>4. CASE UnionStep(limit, y, x) = y
      BY <3>4
    <3>5. CASE UnionStep(limit, y, x) = AddStep(y, x)
      <4> DEFINE t == AddStep(y, x)
      <4> HIDE DEF t
      <4>1. t = [set |-> t.set, n |-> t.n] /\ t.set \in GoodObjects(0) /\ t.n \in Nat
        BY <3>1, <3>3, <3>5 DEF t
      <4>2. t \in [set : GoodObjects(0), n : Nat]
        BY <4>1
      <4>3. QED
        BY <3>5, <4>2 DEF t
    <3>6. QED
      BY <3>2, <3>4, <3>5
  <2>4. QED
    BY <2>2, <2>3
<1>5. b \in D
  BY <1>3
<1> HIDE DEF D
<1>6. PICK g : UnionRun(g, limit, b, s, D) /\ lsunion_generic(ops, limit) = Collected(g[N])
  BY <1>1, <1>4, <1>5, UnionFold
<1>7. g \in [0 .. N -> D] /\ g[0] = b
  BY <1>6 DEF UnionRun
<1> HIDE DEF s, b
<1> DEFINE T == {k \in 0 .. N : Collecting(g[k], First(s, k), limit)}
<1>8. 0 \in T
  <2>1. First(s, 0) = {} /\ 0 \in 0 .. N
    BY <1>1, <1>2, FirstIs
  <2> HIDE DEF N
  <2>2. QED
    BY <1>3, <1>7, <2>1
<1>9. ASSUME NEW k \in 0 .. (N - 1), k \in T PROVE k + 1 \in T
  <2>1. k + 1 \in 1 .. N /\ (k + 1) - 1 = k /\ k + 1 \in 0 .. N /\ k \in 0 .. N
    BY <1>2
  <2>2. g[k + 1] = UnionStep(limit, g[k], s[k + 1])
    BY <1>6, <2>1 DEF UnionRun
  <2>3. First(s, k + 1) = First(s, k) \cup {s[k + 1]} /\ s[k + 1] \in Members
    BY <1>1, <2>1, FirstIs
  <2>4. Collecting(g[k], First(s, k), limit)
    BY <1>9
  <2>5. Collecting(UnionStep(limit, g[k], s[k + 1]), First(s, k) \cup {s[k + 1]}, limit)
    BY <2>3, <2>4, CollectOneMore
  <2>6. QED
    BY <2>1, <2>2, <2>3, <2>5
<1>10. N \in T
  <2> HIDE DEF T
  <2>1. \A k \in 0 .. N : k \in T
    BY <1>2, <1>8, <1>9, UpTo
  <2>2. QED
    BY <1>2, <2>1
<1> DEFINE S == Together(ops, Len(ops))
           r == g[N]
<1>11. Collecting(r, S, limit)
  BY <1>1, <1>10, FirstIs
<1>12. lsunion_generic(ops, limit) = Collected(r)
  BY <1>6
<1> HIDE DEF S, r
<1>13. CASE limit = 0
  <2>1. Is(r.set, 0, S) /\ r.n = Cardinality(S)
    BY <1>11, <1>13 DEF Collecting
  <2>2. Exact(Collected(r), S, 0)
    BY <2>1, CollectedIs
  <2>3. QED
    BY <1>12, <1>13, <2>2 DEF S
<1>14. CASE limit # 0
  <2>1. /\ r.n \in Nat /\ Cardinality(S) \in Nat
        /\ r.n < limit => r.n = Cardinality(S)
        /\ r.n >= limit => r.n = limit /\ Cardinality(S) >= limit
    BY <1>11, <1>14 DEF Collecting
  <2>2. r.n = Limited(Cardinality(S), limit)
    BY <1>14, <2>1 DEF Limited
  <2>3. QED
    BY <1>12, <1>14, <2>2 DEF Exact, Collected, S
<1>15. QED
  BY <1>13, <1>14

-----------------------------------------------------------------------------
(* SDIFF and the three operations. *)

\* The members of the operands after the first.
Others(ops) == UNION {Value(sobj[ops[j]]) : j \in 2 .. Len(ops)}

\* The operands after the first.
LEMMA TailIs ==
    ASSUME NEW S, NEW ops \in Seq(S), Len(ops) >= 1
    PROVE  /\ Tail(ops) \in Seq(S) /\ Len(Tail(ops)) = Len(ops) - 1
           /\ \A i \in 1 .. (Len(ops) - 1) : Tail(ops)[i] = ops[i + 1]
           /\ Together(Tail(ops), Len(Tail(ops))) = Others(ops)
           /\ \A m : m \in Others(ops) <=> \E h \in ToSet(Tail(ops)) : m \in Value(sobj[h])
<1> DEFINE n == Len(ops)
           t == Tail(ops)
<1>1. n \in Nat /\ n >= 1 /\ ops # <<>>
  OBVIOUS
<1>2. t \in Seq(S) /\ Len(t) = n - 1 /\ \A i \in 1 .. (n - 1) : t[i] = ops[i + 1]
  BY <1>1
<1>3. DOMAIN t = 1 .. (n - 1)
  BY <1>2
<1> HIDE DEF t
<1>4. \A i \in 1 .. (n - 1) : i + 1 \in 2 .. n
  BY <1>1
<1>5. \A j \in 2 .. n : j - 1 \in 1 .. (n - 1) /\ (j - 1) + 1 = j
  BY <1>1
<1>6. Together(t, Len(t)) = Others(ops)
  <2>1. \A m : m \in Together(t, Len(t)) => m \in Others(ops)
    BY <1>2, <1>4 DEF Together, Others
  <2>2. ASSUME NEW m \in Others(ops) PROVE m \in Together(t, Len(t))
    <3>1. PICK j \in 2 .. n : m \in Value(sobj[ops[j]])
      BY DEF Others
    <3>2. j - 1 \in 1 .. (n - 1) /\ t[j - 1] = ops[j]
      BY <1>2, <1>5
    <3>3. QED
      BY <1>2, <3>1, <3>2 DEF Together
  <2>3. QED
    BY <2>1, <2>2
<1>7. \A m : m \in Together(t, Len(t)) <=> \E h \in ToSet(t) : m \in Value(sobj[h])
  <2>1. ToSet(t) = {t[i] : i \in 1 .. (n - 1)}
    BY <1>3 DEF ToSet
  <2>2. QED
    BY <1>2, <2>1 DEF Together
<1>8. QED
  BY <1>2, <1>6, <1>7 DEF t

\* The members of the first operand that are in none of the sets kept in rest.
LEMMA OnlyInIs ==
    ASSUME IInv, NEW first \in LiveHandles, NEW rest \in Seq(LiveHandles),
           \A h \in ToSet(rest) : sobj[h] # NULL
    PROVE  LET t == OnlyIn(first, rest)
           IN  /\ t \in Seq(Members) /\ IsInjective(t)
               /\ ToSet(t) = {m \in Value(sobj[first]) : \A h \in ToSet(rest) : m \notin Value(sobj[h])}
<1> DEFINE w == lsmembers(sobj[first])
           R == {m \in Members : \A j \in DOMAIN rest : ~ setTypeIsMember(sobj[rest[j]], m)}
           t == Select(w, R)
<1>1. OnlyIn(first, rest) = t
  BY DEF OnlyIn
<1>2. w \in Seq(Members) /\ IsInjective(w) /\ ToSet(w) = Value(sobj[first]) /\ ToSet(w) \subseteq Members
  BY OperandSound DEF MembersFacts
<1> HIDE DEF w
<1>3. ASSUME NEW m \in Members PROVE m \in R <=> \A h \in ToSet(rest) : m \notin Value(sobj[h])
  <2>1. ASSUME NEW h \in ToSet(rest) PROVE setTypeIsMember(sobj[h], m) <=> m \in Value(sobj[h])
    <3>1. h \in LiveHandles
      BY FirstIs
    <3>2. Sound(sobj[h])
      BY <3>1, OperandSound
    <3>3. QED
      BY <3>2, MemberIs
  <2>2. (\A j \in DOMAIN rest : ~ setTypeIsMember(sobj[rest[j]], m))
            <=> \A h \in ToSet(rest) : ~ setTypeIsMember(sobj[h], m)
    BY DEF ToSet
  <2>3. QED
    BY <2>1, <2>2
<1> HIDE DEF R
<1>4. Selected(t, w, R, Members)
  BY <1>2, SelectIs
<1> HIDE DEF t
<1>5. t \in Seq(Members) /\ IsInjective(t) /\ ToSet(t) = ToSet(w) \cap R
  BY <1>2, <1>4 DEF Selected
<1>6. ToSet(t) = {m \in Value(sobj[first]) : \A h \in ToSet(rest) : m \notin Value(sobj[h])}
  BY <1>2, <1>3, <1>5
<1>7. QED
  BY <1>1, <1>5, <1>6

\* SDIFF's first algorithm: the other sets are asked, the larger ones first.
LEMMA Diff1Is ==
    ASSUME IInv, NEW ops \in Seq(LiveHandles), Len(ops) >= 1, NEW limit \in Nat
    PROVE  Exact(diff1(ops, limit), Value(sobj[ops[1]]) \ Others(ops), limit)
<1> DEFINE V == ToSet(ops)
           key == [h \in ToSet(ops) |-> -Size(h)]
           there == {h \in Handles : sobj[h] # NULL}
           present == Present(Tail(ops))
           rest == SortBy(present, key)
           only == OnlyIn(ops[1], rest)
           S == Value(sobj[ops[1]]) \ Others(ops)
<1> SUFFICES Exact(diff1(ops, limit), S, limit)
  OBVIOUS
<1>1. ops \in Seq(V) /\ V \subseteq LiveHandles /\ key \in [V -> Int]
  BY SizeKey
<1>2. Tail(ops) \in Seq(V)
  <2> HIDE DEF V
  <2>1. QED
    BY <1>1, TailIs
<1>3. present = Select(Tail(ops), there)
  BY DEF Present
<1> HIDE DEF there, key
<1>4. Selected(present, Tail(ops), there, V)
  <2> HIDE DEF V
  <2>1. QED
    BY <1>2, <1>3, SelectIs
<1>5. present \in Seq(V) /\ ToSet(present) = ToSet(Tail(ops)) \cap there
  BY <1>4 DEF Selected
<1>6. SortEffect(rest, present, key, V)
  <2> HIDE DEF V, present
  <2>1. QED
    BY <1>1, <1>5, SortIs
<1>7. rest \in Seq(V) /\ ToSet(rest) = ToSet(Tail(ops)) \cap there
  BY <1>5, <1>6 DEF SortEffect
<1> HIDE DEF rest
<1>8. rest \in Seq(LiveHandles)
  <2> HIDE DEF V
  <2>1. QED
    BY <1>1, <1>7
<1>9. \A h \in ToSet(rest) : sobj[h] # NULL
  BY <1>7 DEF there
<1>10. ops[1] \in LiveHandles
  BY ElementOfSeq
<1>11. /\ only \in Seq(Members) /\ IsInjective(only)
       /\ ToSet(only) = {m \in Value(sobj[ops[1]]) : \A h \in ToSet(rest) : m \notin Value(sobj[h])}
  BY <1>8, <1>9, <1>10, OnlyInIs
<1>12. ASSUME NEW m
       PROVE  (\E h \in ToSet(rest) : m \in Value(sobj[h])) <=> m \in Others(ops)
  <2>1. m \in Others(ops) <=> \E h \in ToSet(Tail(ops)) : m \in Value(sobj[h])
    BY TailIs
  <2>2. ASSUME NEW h \in ToSet(Tail(ops)), m \in Value(sobj[h]) PROVE h \in ToSet(rest)
    <3>1. sobj[h] # NULL
      BY <2>2, ValueIs
    <3>2. h \in Handles
      <4>1. h \in V
        <5> HIDE DEF V
        <5>1. QED
          BY <1>2, FirstIs
      <4>2. QED
        BY <1>1, <4>1 DEF LiveHandles
    <3>3. QED
      BY <1>7, <3>1, <3>2 DEF there
  <2>3. QED
    BY <1>7, <2>1, <2>2
<1>13. ToSet(only) = S
  BY <1>11, <1>12
<1>14. diff1(ops, limit) = IF limit > 0 THEN Found(only, limit) ELSE Collected(AddAll(dstset(ops), only))
  BY DEF diff1, rest, present, key
<1> HIDE DEF only, S
<1>15. CASE limit > 0
  <2>1. Exact(Found(only, limit), ToSet(only), limit)
    BY <1>11, FoundIs
  <2>2. QED
    BY <1>13, <1>14, <1>15, <2>1
<1>16. CASE ~ (limit > 0)
  <2> DEFINE r == AddAll(dstset(ops), only)
  <2>1. Added(r, {}, S)
    <3> DEFINE dst == dstset(ops)
    <3>1. dst \in GoodObjects(0) /\ Holdings(dst) = {}
      BY DstsetIs
    <3> HIDE DEF dst
    <3>2. Added(AddAll(dst, only), {}, ToSet(only))
      BY <1>11, <3>1, AddAllIs
    <3>3. QED
      BY <1>13, <3>2 DEF dst
  <2> HIDE DEF r
  <2>2. {} \cup S = S /\ S \ {} = S
    OBVIOUS
  <2>3. Is(r.set, 0, S) /\ r.n = Cardinality(S)
    BY <2>1, <2>2 DEF Added
  <2>4. limit = 0
    BY <1>16
  <2>5. Exact(Collected(r), S, 0)
    BY <2>3, CollectedIs
  <2>6. QED
    BY <1>14, <1>16, <2>4, <2>5 DEF r
<1>17. QED
  BY <1>15, <1>16

\* SDIFF's count by collecting the other sets.
LEMMA Diff2bIs ==
    ASSUME IInv, NEW ops \in Seq(LiveHandles), Len(ops) >= 1, NEW limit \in Nat
    PROVE  Exact(diff2b(ops, limit), Value(sobj[ops[1]]) \ Others(ops), limit)
<1> DEFINE s == Walks(Tail(ops))
           aux == AddAll(dstset(ops), s).set
           w == lsmembers(sobj[ops[1]])
           R == {m \in Members : ~ setTypeIsMember(aux, m)}
           S == Value(sobj[ops[1]]) \ Others(ops)
<1>1. Tail(ops) \in Seq(LiveHandles) /\ Together(Tail(ops), Len(Tail(ops))) = Others(ops)
  BY TailIs
<1>2. s \in Seq(Members) /\ ToSet(s) = Others(ops)
  BY <1>1, WalksAre
<1>3. diff2b(ops, limit) = Found(Select(w, R), limit)
  BY DEF diff2b, CountOutside
<1> HIDE DEF s
<1>4. Added(AddAll(dstset(ops), s), {}, ToSet(s))
  BY <1>2, DstsetIs, AddAllIs
<1>5. aux \in GoodObjects(0) /\ Holdings(aux) = Others(ops)
  BY <1>2, <1>4 DEF Added, Is
<1> HIDE DEF aux
<1>6. \A m \in Members : m \in R <=> m \notin Others(ops)
  BY <1>5, Walk DEF WalkFacts
<1> HIDE DEF R
<1>7. ops[1] \in LiveHandles
  BY ElementOfSeq
<1>8. w \in Seq(Members) /\ IsInjective(w) /\ ToSet(w) = Value(sobj[ops[1]]) /\ ToSet(w) \subseteq Members
  BY <1>7, OperandSound DEF MembersFacts
<1> HIDE DEF w
<1> DEFINE t == Select(w, R)
<1>9. Selected(t, w, R, Members)
  BY <1>8, SelectIs
<1> HIDE DEF t
<1>10. t \in Seq(Members) /\ IsInjective(t) /\ ToSet(t) = ToSet(w) \cap R
  BY <1>8, <1>9 DEF Selected
<1>11. ToSet(t) = S
  BY <1>6, <1>8, <1>10
<1>12. Exact(Found(t, limit), ToSet(t), limit)
  BY <1>10, FoundIs
<1>13. QED
  BY <1>3, <1>11, <1>12 DEF t

\* SDIFF's copy after k of the other sets were taken from it.
Lessened(r, S) == Is(r.set, 0, S) /\ IsFiniteSet(S) /\ r.n = Cardinality(S) /\ r.n \in Nat

\* One set less.
LEMMA LessOneMore ==
    ASSUME IInv, NEW r, NEW S, Lessened(r, S), NEW h \in LiveHandles
    PROVE  /\ Lessened(DiffStep(r, h), S \ Value(sobj[h]))
           /\ DiffStep(r, h) = r \/ DiffStep(r, h) = [set |-> DiffStep(r, h).set, n |-> DiffStep(r, h).n]
<1> DEFINE V == Value(sobj[h])
<1>1. r.set \in GoodObjects(0) /\ Holdings(r.set) = S /\ IsFiniteSet(S) /\ r.n = Cardinality(S) /\ r.n \in Nat
  BY DEF Lessened, Is
<1>2. CASE r.n = 0
  <2>1. S = {}
    BY <1>1, <1>2, FS_EmptySet
  <2>2. S \ V = S
    BY <2>1
  <2>3. DiffStep(r, h) = r
    BY <1>2 DEF DiffStep
  <2>4. QED
    BY <2>2, <2>3
<1>3. CASE r.n # 0
  <2> DEFINE s == lsmembers(sobj[h])
             q == RemoveAll(r.set, s)
  <2>1. s \in Seq(Members) /\ ToSet(s) = V
    BY OperandSound DEF MembersFacts
  <2>2. DiffStep(r, h) = [set |-> q.set, n |-> r.n - q.n]
    BY <1>3 DEF DiffStep, LessTaken
  <2> HIDE DEF s, V
  <2>3. Taken(q, 0, S, V)
    BY <1>1, <2>1, RemoveAllIs
  <2> HIDE DEF q
  <2>4. Is(q.set, 0, S \ V) /\ q.n = Cardinality(V \cap S)
    BY <2>3 DEF Taken
  <2>5. V \cap S \subseteq S /\ S \ (V \cap S) = S \ V
    OBVIOUS
  <2>6. /\ IsFiniteSet(S \ (V \cap S)) /\ Cardinality(S \ (V \cap S)) \in Nat
        /\ Cardinality(S \ (V \cap S)) = Cardinality(S) - Cardinality(V \cap S)
    BY <1>1, <2>5, PartCount
  <2>7. IsFiniteSet(S \ V) /\ Cardinality(S \ V) \in Nat /\ r.n - q.n = Cardinality(S \ V)
    BY <1>1, <2>4, <2>5, <2>6
  <2>8. QED
    BY <2>2, <2>4, <2>7 DEF Lessened, V
<1>4. QED
  BY <1>2, <1>3

\* SDIFF's second algorithm: the first set is copied and the others taken from the copy.
LEMMA Diff2Is ==
    ASSUME IInv, NEW ops \in Seq(LiveHandles), Len(ops) >= 1
    PROVE  Exact(diff2(ops), Value(sobj[ops[1]]) \ Others(ops), 0)
<1> DEFINE s == Tail(ops)
           N == Len(s)
           V == Value(sobj[ops[1]])
           b == AddAll(dstset(ops), lsmembers(sobj[ops[1]]))
           D == {r \in [set : GoodObjects(0), n : Nat] : \E S : Lessened(r, S)}
<1>1. s \in Seq(LiveHandles) /\ Together(s, N) = Others(ops) /\ N \in Nat
  BY TailIs
<1>2. b \in [set : GoodObjects(0), n : Nat] /\ Lessened(b, V)
  <2>1. ops[1] \in LiveHandles
    BY ElementOfSeq
  <2>2. /\ lsmembers(sobj[ops[1]]) \in Seq(Members) /\ ToSet(lsmembers(sobj[ops[1]])) = V
        /\ IsFiniteSet(V) /\ Cardinality(V) \in Nat
    BY <2>1, OperandSound DEF MembersFacts
  <2>3. Added(b, {}, V) /\ b \in [set : GoodObjects(0), n : Nat]
    BY <2>2, DstsetIs, AddAllIs
  <2> HIDE DEF V, b
  <2>4. {} \cup V = V /\ V \ {} = V
    OBVIOUS
  <2>5. QED
    BY <2>2, <2>3, <2>4 DEF Added, Lessened
<1>3. ASSUME NEW h \in LiveHandles, NEW y \in D PROVE DiffStep(y, h) \in D
  <2>1. PICK S : Lessened(y, S)
    OBVIOUS
  <2> DEFINE t == DiffStep(y, h)
  <2>2. Lessened(t, S \ Value(sobj[h])) /\ (t = y \/ t = [set |-> t.set, n |-> t.n])
    BY <2>1, LessOneMore
  <2> HIDE DEF t
  <2>3. t.set \in GoodObjects(0) /\ t.n \in Nat
    BY <2>2 DEF Lessened, Is
  <2>4. t \in [set : GoodObjects(0), n : Nat]
    BY <2>2, <2>3
  <2>5. t \in D
    BY <2>2, <2>4
  <2>6. QED
    BY <2>5 DEF t
<1>4. b \in D
  BY <1>2
<1> HIDE DEF D
<1>5. PICK g : DiffRun(g, b, s, D) /\ diff2(ops) = Collected(g[N])
  BY <1>1, <1>3, <1>4, DiffFold
<1>6. g \in [0 .. N -> D] /\ g[0] = b
  BY <1>5 DEF DiffRun
<1> HIDE DEF b, s, V
<1> DEFINE T == {k \in 0 .. N : Lessened(g[k], V \ Together(s, k))}
<1>7. 0 \in T
  <2>1. Together(s, 0) = {} /\ 0 \in 0 .. N
    BY <1>1 DEF Together
  <2>2. V \ {} = V
    OBVIOUS
  <2> HIDE DEF N
  <2>3. QED
    BY <1>2, <1>6, <2>1, <2>2
<1>8. ASSUME NEW k \in 0 .. (N - 1), k \in T PROVE k + 1 \in T
  <2>1. k + 1 \in 1 .. N /\ (k + 1) - 1 = k /\ k + 1 \in 0 .. N /\ k \in Nat
    BY <1>1
  <2>2. g[k + 1] = DiffStep(g[k], s[k + 1])
    BY <1>5, <2>1 DEF DiffRun
  <2>3. s[k + 1] \in LiveHandles
    BY <1>1, <2>1, ElementOfSeq
  <2>4. Together(s, k + 1) = Together(s, k) \cup Value(sobj[s[k + 1]])
    <3>1. \A j : j \in 1 .. (k + 1) <=> j \in 1 .. k \/ j = k + 1
      BY <2>1
    <3>2. QED
      BY <3>1 DEF Together
  <2>5. V \ Together(s, k + 1) = (V \ Together(s, k)) \ Value(sobj[s[k + 1]])
    BY <2>4
  <2>6. Lessened(DiffStep(g[k], s[k + 1]), (V \ Together(s, k)) \ Value(sobj[s[k + 1]]))
    BY <1>8, <2>3, LessOneMore
  <2>7. QED
    BY <2>1, <2>2, <2>5, <2>6
<1>9. N \in T
  <2> HIDE DEF T
  <2>1. \A k \in 0 .. N : k \in T
    BY <1>1, <1>7, <1>8, UpTo
  <2>2. QED
    BY <1>1, <2>1
<1>10. Lessened(g[N], V \ Others(ops))
  BY <1>1, <1>9
<1>11. Exact(Collected(g[N]), V \ Others(ops), 0)
  BY <1>10, CollectedIs DEF Lessened
<1>12. QED
  BY <1>5, <1>11 DEF V

\* SDIFF is exact by every algorithm.
LEMMA DiffIs ==
    ASSUME IInv, NEW ops \in Seq(LiveHandles), Len(ops) >= 1, NEW limit \in Nat
    PROVE  Exact(lsdiff_generic(ops, limit), Value(sobj[ops[1]]) \ Others(ops), limit)
<1>1. CASE sobj[ops[1]] = NULL \/ \E j \in 2 .. Len(ops) : ops[j] = ops[1]
  <2>1. lsdiff_generic(ops, limit) = Found(<<>>, limit)
    BY <1>1 DEF lsdiff_generic
  <2>2. Value(sobj[ops[1]]) \ Others(ops) = {}
    BY <1>1, ValueIs DEF Others
  <2>3. <<>> \in Seq(Members) /\ IsInjective(<<>>) /\ ToSet(<<>>) = {}
    BY DEF IsInjective, ToSet
  <2>4. Exact(Found(<<>>, limit), ToSet(<<>>), limit)
    BY <2>3, FoundIs
  <2>5. QED
    BY <2>1, <2>2, <2>3, <2>4
<1>2. CASE ~ (sobj[ops[1]] = NULL \/ \E j \in 2 .. Len(ops) : ops[j] = ops[1])
  <2>1. CASE diff_algo(ops) = 1
    BY <1>2, <2>1, Diff1Is DEF lsdiff_generic
  <2>2. CASE diff_algo(ops) # 1 /\ limit > 0
    BY <1>2, <2>2, Diff2bIs DEF lsdiff_generic
  <2>3. CASE diff_algo(ops) # 1 /\ ~ (limit > 0)
    <3>1. lsdiff_generic(ops, limit) = diff2(ops) /\ limit = 0
      BY <1>2, <2>3 DEF lsdiff_generic
    <3>2. QED
      BY <3>1, Diff2Is
  <2>4. QED
    BY <2>1, <2>2, <2>3
<1>3. QED
  BY <1>1, <1>2

\* What OperationsExact asks of one list of operands and one limit.
ExactOn(ops, limit) ==
    LET value == [h \in LiveHandles |-> Value(sobj[h])]
        all == UNION {value[ops[j]] : j \in DOMAIN ops}
        rest == UNION {value[ops[j]] : j \in 2 .. Len(ops)}
        inter == {m \in all : \A j \in DOMAIN ops : m \in value[ops[j]]}
    IN  /\ Exact(lsinter_generic(ops, limit), inter, limit)
        /\ Exact(lsunion_generic(ops, limit), all, limit)
        /\ Exact(lsdiff_generic(ops, limit), value[ops[1]] \ rest, limit)

\* The three operations are exact on every list of live operands.
LEMMA ListExact ==
    ASSUME IInv, NEW n \in 1 .. OPERANDS, NEW ops \in [1 .. n -> LiveHandles],
           NEW limit \in 0 .. LIMIT
    PROVE  ExactOn(ops, limit)
<1>1. n \in Nat /\ n >= 1 /\ limit \in Nat
  BY RedisSetAssumption
<1>2. ops \in Seq(LiveHandles) /\ Len(ops) = n /\ DOMAIN ops = 1 .. n
  BY <1>1
<1> DEFINE value == [h \in LiveHandles |-> Value(sobj[h])]
           all == UNION {value[ops[j]] : j \in DOMAIN ops}
           rest == UNION {value[ops[j]] : j \in 2 .. Len(ops)}
           inter == {m \in all : \A j \in DOMAIN ops : m \in value[ops[j]]}
<1>3. \A j \in 1 .. n : value[ops[j]] = Value(sobj[ops[j]])
  OBVIOUS
<1> HIDE DEF value
<1>4. all = Together(ops, Len(ops))
  <2>1. {value[ops[j]] : j \in 1 .. n} = {Value(sobj[ops[j]]) : j \in 1 .. n}
    BY <1>3
  <2>2. QED
    BY <1>2, <2>1 DEF Together
<1>5. rest = Others(ops)
  <2>1. \A j \in 2 .. n : j \in 1 .. n
    BY <1>1
  <2>2. {value[ops[j]] : j \in 2 .. n} = {Value(sobj[ops[j]]) : j \in 2 .. n}
    BY <1>3, <2>1
  <2>3. QED
    BY <1>2, <2>2 DEF Others
<1>6. inter = Common(ops)
  <2> HIDE DEF all
  <2>1. QED
    BY <1>2, <1>3, <1>4 DEF Common
<1>7. value[ops[1]] = Value(sobj[ops[1]])
  BY <1>1, <1>3
<1> HIDE DEF all, rest, inter
<1>8. Exact(lsinter_generic(ops, limit), inter, limit)
  BY <1>1, <1>2, <1>6, InterIs
<1>9. Exact(lsunion_generic(ops, limit), all, limit)
  BY <1>1, <1>2, <1>4, UnionIs
<1>10. Exact(lsdiff_generic(ops, limit), value[ops[1]] \ rest, limit)
  BY <1>1, <1>2, <1>5, <1>7, DiffIs
<1>11. QED
  BY <1>8, <1>9, <1>10 DEF ExactOn, inter, all, rest, value

\* OperationsExact, under the invariant.
LEMMA IInvOperations == IInv => OperationsExact
<1> SUFFICES ASSUME IInv PROVE OperationsExact
  OBVIOUS
<1> DEFINE lists == UNION {[1 .. n -> LiveHandles] : n \in 1 .. OPERANDS}
<1>1. ASSUME NEW ops \in lists, NEW limit \in 0 .. LIMIT PROVE ExactOn(ops, limit)
  <2>1. PICK n \in 1 .. OPERANDS : ops \in [1 .. n -> LiveHandles]
    OBVIOUS
  <2>2. QED
    BY <2>1, ListExact
<1>2. (\A ops \in lists : \A limit \in 0 .. LIMIT : ExactOn(ops, limit)) => OperationsExact
  BY Zenon DEF OperationsExact, ExactOn, Exact, LiveHandles
<1>3. QED
  BY <1>1, <1>2

\* OperationsExact holds: lsinter_generic, lsunion_generic and every algorithm of
\* lsdiff_generic give the set they name, and the cardinality forms count it up to LIMIT.
THEOREM OperationsCorrect == Spec => []OperationsExact
BY Soundness, IInvOperations, PTL

=============================================================================
