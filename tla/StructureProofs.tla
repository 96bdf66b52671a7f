-------------------------- MODULE StructureProofs --------------------------
(***************************************************************************)
(* Proofs about the two structures under redislib's containers.            *)
(*                                                                         *)
(* Dict, for any keys, any hash function and any thresholds: through every *)
(* insertion, deletion, resize and step of an incremental rehash, the two  *)
(* arrays together hold exactly the keys that were added and not deleted,  *)
(* each once, in the bucket a lookup reads; the counters and the asserts   *)
(* of dict.c hold; and a lookup finds every key.                           *)
(*                                                                         *)
(* Skiplist, for any number of levels, any heights and any scores:         *)
(* insertion, deletion and a change of score leave every pointer, span and *)
(* counter as the sorted elements call for, and the searches by rank and   *)
(* by range, which read nothing else, find the right node.  A list is      *)
(* described by places: place 0 is the header, place a the a-th element in *)
(* order, and the place behind the last is the end.                        *)
(***************************************************************************)
EXTENDS Dict, Skiplist, FoldLemmas

-----------------------------------------------------------------------------
(* Powers of two. *)

Doubles(g, N) ==
    /\ g \in [0 .. N -> Nat \ {0}] /\ g[0] = 1
    /\ \A n \in 1 .. N : g[n] = 2 * g[n - 1]

\* Doubling can be done any number of times, in one way.
LEMMA DoublesExists ==
    ASSUME NEW N \in Nat
    PROVE  \E g : Doubles(g, N)
<1> DEFINE D == Nat \ {0}
           F == [p \in (1 .. N) \X D |-> 2 * p[2]]
<1>1. F \in [(1 .. N) \X D -> D] /\ 1 \in D
  OBVIOUS
<1>2. PICK g : Accumulates(g, N, 1, F, D)
  <2> HIDE DEF F, D
  <2>1. QED
    BY <1>1, RecursionExists
<1>3. ASSUME NEW n \in 1 .. N PROVE g[n] = 2 * g[n - 1]
  <2>1. g[n] = F[<<n, g[n - 1]>>] /\ g[n - 1] \in D
    <3>1. n - 1 \in 0 .. N
      OBVIOUS
    <3> HIDE DEF F, D
    <3>2. QED
      BY <1>2, <3>1 DEF Accumulates
  <2>2. QED
    BY <2>1
<1>4. QED
  BY <1>2, <1>3 DEF Doubles, Accumulates

\* Two runs agree.
LEMMA DoublesUnique ==
    ASSUME NEW N \in Nat, NEW M \in Nat, NEW g, NEW h, Doubles(g, N), Doubles(h, M), N <= M
    PROVE  \A n \in 0 .. N : g[n] = h[n]
<1> DEFINE T == {n \in 0 .. N : g[n] = h[n]}
<1>1. 0 \in T
  BY DEF Doubles
<1>2. ASSUME NEW n \in 0 .. (N - 1), n \in T PROVE n + 1 \in T
  <2>1. n + 1 \in 1 .. N /\ n + 1 \in 1 .. M /\ (n + 1) - 1 = n /\ n + 1 \in 0 .. N
    OBVIOUS
  <2>2. g[n + 1] = 2 * g[n] /\ h[n + 1] = 2 * h[n]
    BY <2>1 DEF Doubles
  <2>3. QED
    BY <1>2, <2>1, <2>2
<1>3. \A n \in 0 .. N : n \in T
  <2> HIDE DEF T
  <2>1. QED
    BY <1>1, <1>2, UpTo
<1>4. QED
  BY <1>3

\* The recursive equation of Pow2.
LEMMA Pow2Is ==
    /\ Pow2 \in [Nat -> Nat \ {0}] /\ Pow2[0] = 1
    /\ \A n \in Nat : Pow2[n + 1] = 2 * Pow2[n]
<1> DEFINE Eqn(f) == f = [e \in Nat |-> IF e = 0 THEN 1 ELSE 2 * f[e - 1]]
           run(n) == CHOOSE g : Doubles(g, n)
           h == [e \in Nat |-> run(e)[e]]
<1>1. \A n \in Nat : Doubles(run(n), n)
  BY DoublesExists
<1> HIDE DEF run
<1>2. h[0] = 1
  BY <1>1 DEF Doubles
<1>3. ASSUME NEW e \in Nat, e # 0 PROVE h[e] = 2 * h[e - 1]
  <2>1. e - 1 \in Nat /\ e - 1 <= e /\ e \in 1 .. e /\ e - 1 \in 0 .. (e - 1)
    BY <1>3
  <2>2. run(e)[e - 1] = run(e - 1)[e - 1]
    BY <1>1, <2>1, DoublesUnique
  <2>3. run(e)[e] = 2 * run(e)[e - 1]
    BY <1>1, <2>1 DEF Doubles
  <2>4. QED
    BY <2>1, <2>2, <2>3
<1>4. Eqn(h)
  <2> HIDE DEF h
  <2>1. h = [e \in Nat |-> h[e]]
    BY DEF h
  <2>2. QED
    BY <1>2, <1>3, <2>1
<1>5. \E f : Eqn(f)
  BY <1>4
<1>6. Eqn(Pow2)
  <2>1. Pow2 = CHOOSE f : Eqn(f)
    BY DEF Pow2
  <2> HIDE DEF Eqn
  <2>2. QED
    BY <1>5, <2>1
<1> HIDE DEF h
<1>7. Pow2[0] = 1
  BY <1>6
<1>8. \A n \in Nat : Pow2[n + 1] = 2 * Pow2[n]
  BY <1>6
<1> DEFINE T == {n \in Nat : Pow2[n] \in Nat \ {0}}
<1>9. T \in SUBSET Nat /\ 0 \in T /\ \A n \in T : n + 1 \in T
  BY <1>7, <1>8
<1>10. T = Nat
  <2> HIDE DEF T
  <2>1. QED
    BY <1>9, NatSet
<1>11. Pow2 = [e \in Nat |-> Pow2[e]]
  BY <1>6
<1>12. Pow2 \in [Nat -> Nat \ {0}]
  <2>1. \A e \in Nat : Pow2[e] \in Nat \ {0}
    BY <1>10
  <2>2. QED
    BY <1>11, <2>1
<1>13. QED
  BY <1>7, <1>8, <1>12

\* There is a power beyond every number.
LEMMA Pow2Grows == \A n \in Nat : n < Pow2[n]
<1> DEFINE T == {n \in Nat : n < Pow2[n]}
<1>1. T \in SUBSET Nat /\ 0 \in T
  BY Pow2Is
<1>2. ASSUME NEW n \in T PROVE n + 1 \in T
  BY Pow2Is
<1>3. T = Nat
  <2> HIDE DEF T
  <2>1. QED
    BY <1>1, <1>2, NatSet
<1>4. QED
  BY <1>3

\* Products associate.
LEMMA TimesAssoc ==
    ASSUME NEW a \in Int, NEW b \in Int, NEW c \in Int
    PROVE  (a * b) * c = b * (a * c) /\ (b * a) + (b * c) = b * (a + c)
OBVIOUS

\* What leaves a remainder.
LEMMA ModIs ==
    ASSUME NEW p \in Nat \ {0}, NEW c \in Int, NEW s \in 0 .. (p - 1)
    PROVE  ((p * c) + s) % p = s
<1> DEFINE x == (p * c) + s
           d == x \div p
           y == c - d
<1>1. x \in Int /\ d \in Int /\ y \in Int
  OBVIOUS
<1>2. p * d <= x /\ x < (p * d) + p /\ x % p = x - (p * d)
  OBVIOUS
<1>3. p * y = (p * c) - (p * d) /\ p * c \in Int /\ p * d \in Int
  OBVIOUS
<1>4. p * y > -p /\ p * y < p
  <2> DEFINE pc == p * c
             pd == p * d
             py == p * y
  <2>1. x = pc + s
    OBVIOUS
  <2> HIDE DEF x, d, y, pc, pd, py
  <2>2. QED
    BY <1>1, <1>2, <1>3, <2>1 DEF pc, pd, py
<1> HIDE DEF y
<1>5. y >= 1 => p * y >= p
  BY <1>1
<1>6. y <= -1 => p * y <= -p
  BY <1>1
<1>7. y = 0
  BY <1>1, <1>4, <1>5, <1>6
<1>8. c = d
  BY <1>1, <1>7 DEF y
<1>9. QED
  BY <1>2, <1>8

\* The last bits of the last bits.
LEMMA ModMod ==
    ASSUME NEW h \in Nat, NEW p \in Nat \ {0}, NEW q \in Nat \ {0}
    PROVE  (h % (q * p)) % p = h % p
<1> DEFINE m == q * p
           a == h \div m
           r == h % m
           b == r \div p
           s == r % p
<1>1. m \in Nat \ {0}
  OBVIOUS
<1>2. a \in Nat /\ r \in Nat /\ h = (m * a) + r
  <2> HIDE DEF m
  <2>1. QED
    BY <1>1
<1>3. b \in Nat /\ s \in 0 .. (p - 1) /\ r = (p * b) + s
  <2> HIDE DEF r
  <2>1. r \in Nat
    BY <1>2
  <2>2. b \in Nat
    BY <2>1
  <2>3. s \in 0 .. (p - 1)
    BY <2>1
  <2>4. r = (p * b) + s
    BY <2>1
  <2>5. QED
    BY <2>2, <2>3, <2>4
<1>4. m * a = p * (q * a) /\ q * a \in Nat
  <2> HIDE DEF a
  <2>1. QED
    BY <1>2, TimesAssoc
<1> HIDE DEF a, r, b, s, m
<1> DEFINE k == q * a
<1>5. h = (p * k) + ((p * b) + s) /\ k \in Nat
  BY <1>2, <1>3, <1>4
<1> HIDE DEF k
<1>6. (p * k) + (p * b) = p * (k + b)
  BY <1>3, <1>5, TimesAssoc
<1>7. h = (p * (k + b)) + s /\ k + b \in Int
  <2> DEFINE x == p * k
             y == p * b
             z == p * (k + b)
  <2>1. x \in Int /\ y \in Int /\ z \in Int
    BY <1>3, <1>5
  <2>2. h = x + (y + s) /\ x + y = z
    BY <1>5, <1>6
  <2> HIDE DEF x, y, z
  <2>3. h = z + s
    BY <1>3, <2>1, <2>2
  <2>4. QED
    BY <1>3, <1>5, <2>3 DEF z
<1>8. h % p = s
  BY <1>3, <1>7, ModIs
<1>9. QED
  BY <1>8 DEF s, r, m

\* A larger power is a multiple.
LEMMA Pow2Multiple ==
    ASSUME NEW m \in Nat, NEW n \in Nat
    PROVE  \E q \in Nat \ {0} : Pow2[m + n] = q * Pow2[m]
<1> DEFINE T == {k \in Nat : \E q \in Nat \ {0} : Pow2[m + k] = q * Pow2[m]}
<1>1. T \in SUBSET Nat /\ 0 \in T
  <2>1. Pow2[m + 0] = 1 * Pow2[m]
    BY Pow2Is
  <2>2. QED
    BY <2>1
<1>2. ASSUME NEW k \in T PROVE k + 1 \in T
  <2>1. PICK q \in Nat \ {0} : Pow2[m + k] = q * Pow2[m]
    OBVIOUS
  <2>2. m + k \in Nat /\ (m + k) + 1 = m + (k + 1)
    OBVIOUS
  <2>3. Pow2[m + (k + 1)] = 2 * Pow2[m + k]
    BY <2>2, Pow2Is
  <2>4. 2 * (q * Pow2[m]) = (2 * q) * Pow2[m] /\ 2 * q \in Nat \ {0}
    BY Pow2Is
  <2>5. QED
    BY <2>1, <2>3, <2>4
<1>3. T = Nat
  <2> HIDE DEF T
  <2>1. QED
    BY <1>1, <1>2, NatSet
<1>4. n \in T
  <2> HIDE DEF T
  <2>1. QED
    BY <1>3
<1>5. QED
  BY <1>4

\* The slot in a smaller array follows from the slot in a larger one.
LEMMA SlotOfSlot ==
    ASSUME NEW h \in Nat, NEW a \in Nat, NEW b \in Nat, b <= a
    PROVE  Slot(Slot(h, a), b) = Slot(h, b)
<1>1. a - b \in Nat /\ b + (a - b) = a
  OBVIOUS
<1>2. PICK q \in Nat \ {0} : Pow2[a] = q * Pow2[b]
  BY <1>1, Pow2Multiple
<1>3. Pow2[b] \in Nat \ {0}
  BY Pow2Is
<1>4. (h % (q * Pow2[b])) % Pow2[b] = h % Pow2[b]
  BY <1>3, ModMod
<1>5. QED
  BY <1>2, <1>4 DEF Slot

\* A slot is a bucket of the array.
LEMMA SlotIs ==
    ASSUME NEW h \in Nat, NEW e \in Nat
    PROVE  /\ Slot(h, e) \in 0 .. (DICTHT_SIZE(e) - 1)
           /\ DICTHT_SIZE(e) \in Nat \ {0} /\ DICTHT_SIZE(-1) = 0
<1>1. Pow2[e] \in Nat \ {0}
  BY Pow2Is
<1>2. h % Pow2[e] \in 0 .. (Pow2[e] - 1)
  BY <1>1
<1>3. QED
  BY <1>1, <1>2 DEF Slot, DICTHT_SIZE

-----------------------------------------------------------------------------
(* Chains and arrays. *)

Entry == [key : DOMAIN Hash, inline : BOOLEAN]

ChainKeys(c) == {c[j].key : j \in 1 .. Len(c)}

\* No key twice, and a key without entry at the end of its chain.
GoodChain(c, nv) ==
    /\ c \in Seq(Entry)
    /\ \A j, k \in 1 .. Len(c) : c[j].key = c[k].key => j = k
    /\ \A j \in 1 .. Len(c) : c[j].inline => nv /\ j = Len(c)

\* Keys in the buckets of their hashes, and none below r.
GoodTable(T, e, r, nv) ==
    /\ DOMAIN T = 0 .. (DICTHT_SIZE(e) - 1) /\ T = [i \in DOMAIN T |-> T[i]]
    /\ \A i \in 0 .. (DICTHT_SIZE(e) - 1) :
          /\ GoodChain(T[i], nv) /\ (i < r => T[i] = <<>>)
          /\ \A k \in ChainKeys(T[i]) : Slot(Hash[k], e) = i

\* The keys a lookup in the array finds.
KeysOf(T, e) == {k \in DOMAIN Hash : e # -1 /\ k \in ChainKeys(T[Slot(Hash[k], e)])}

\* A chain is a sequence of entries.
LEMMA ChainIs ==
    ASSUME NEW nv, NEW c, GoodChain(c, nv)
    PROVE  /\ Len(c) \in Nat /\ c \in Seq(Entry) /\ ChainKeys(c) \subseteq DOMAIN Hash
           /\ \A j \in 1 .. Len(c) : c[j] \in Entry /\ c[j].key \in DOMAIN Hash
           /\ ChainKeys(c) = {} <=> c = <<>>
<1>1. c \in Seq(Entry) /\ Len(c) \in Nat
  BY DEF GoodChain
<1>2. \A j \in 1 .. Len(c) : c[j] \in Entry /\ c[j].key \in DOMAIN Hash
  <2> SUFFICES ASSUME NEW j \in 1 .. Len(c) PROVE c[j] \in Entry /\ c[j].key \in DOMAIN Hash
    OBVIOUS
  <2>1. c[j] \in Entry
    BY <1>1, ElementOfSeq
  <2>2. QED
    BY <2>1 DEF Entry
<1>3. c = <<>> <=> Len(c) = 0
  BY <1>1
<1>4. ChainKeys(c) = {} <=> Len(c) = 0
  <2>1. CASE Len(c) = 0
    BY <2>1 DEF ChainKeys
  <2>2. CASE Len(c) # 0
    <3>1. 1 \in 1 .. Len(c)
      BY <1>1, <2>2
    <3>2. c[1].key \in ChainKeys(c)
      BY <3>1 DEF ChainKeys
    <3>3. QED
      BY <2>2, <3>2
  <2>3. QED
    BY <2>1, <2>2
<1>5. ChainKeys(c) \subseteq DOMAIN Hash
  BY <1>2 DEF ChainKeys
<1>6. QED
  BY <1>1, <1>2, <1>3, <1>4, <1>5

\* The empty chain.
LEMMA EmptyChain == \A nv : GoodChain(<<>>, nv) /\ ChainKeys(<<>>) = {}
BY DEF GoodChain, ChainKeys

\* A key in front.
LEMMA PushIs ==
    ASSUME NEW d, d.no_value \in BOOLEAN, NEW c, GoodChain(c, d.no_value),
           NEW key \in DOMAIN Hash, key \notin ChainKeys(c)
    PROVE  GoodChain(Push(d, key, c), d.no_value) /\ ChainKeys(Push(d, key, c)) = ChainKeys(c) \cup {key}
<1> DEFINE x == [key |-> key, inline |-> d.no_value /\ c = <<>>]
           t == <<x>> \o c
           n == Len(c)
<1>1. Push(d, key, c) = t
  BY DEF Push
<1>2. c \in Seq(Entry) /\ n \in Nat /\ (c = <<>> <=> n = 0)
  BY DEF GoodChain
<1>3. x \in Entry /\ x.key = key /\ (x.inline => d.no_value /\ c = <<>>)
  BY DEF Entry
<1> HIDE DEF x
<1>4. <<x>> \in Seq(Entry) /\ Len(<<x>>) = 1 /\ <<x>>[1] = x
  BY <1>3
<1>5. t \in Seq(Entry) /\ Joined(<<x>>, c)
  BY <1>2, <1>4, Join
<1>6. Len(t) = n + 1 /\ t[1] = x /\ \A i \in 1 .. n : t[i + 1] = c[i]
  <2>1. Len(t) = 1 + n /\ t[1] = <<x>>[1] /\ \A i \in 1 .. n : t[1 + i] = c[i]
    BY <1>4, <1>5 DEF Joined
  <2> HIDE DEF t
  <2>2. QED
    BY <1>2, <1>4, <2>1
<1> HIDE DEF t
<1>7. \A j \in 1 .. (n + 1) : j = 1 \/ (j - 1 \in 1 .. n /\ t[j] = c[j - 1])
  BY <1>2, <1>6
<1>8. ASSUME NEW j \in 1 .. n PROVE c[j].key \in ChainKeys(c) /\ c[j].key # key
  BY DEF ChainKeys
<1>9. \A j, k \in 1 .. Len(t) : t[j].key = t[k].key => j = k
  <2> SUFFICES ASSUME NEW j \in 1 .. (n + 1), NEW k \in 1 .. (n + 1), t[j].key = t[k].key
               PROVE  j = k
    BY <1>6
  <2>1. CASE j = 1 /\ k = 1
    BY <2>1
  <2>2. CASE j = 1 /\ k # 1
    BY <1>3, <1>6, <1>7, <1>8, <2>2
  <2>3. CASE j # 1 /\ k = 1
    BY <1>3, <1>6, <1>7, <1>8, <2>3
  <2>4. CASE j # 1 /\ k # 1
    <3>1. j - 1 \in 1 .. n /\ k - 1 \in 1 .. n /\ c[j - 1].key = c[k - 1].key
      BY <1>7, <2>4
    <3>2. j - 1 = k - 1
      BY <3>1 DEF GoodChain
    <3>3. QED
      BY <1>2, <3>2
  <2>5. QED
    BY <2>1, <2>2, <2>3, <2>4
<1>10. ASSUME NEW j \in 1 .. Len(t), t[j].inline PROVE d.no_value /\ j = Len(t)
  <2>1. CASE j = 1
    BY <1>2, <1>3, <1>6, <1>10, <2>1
  <2>2. CASE j # 1
    <3>1. j - 1 \in 1 .. n /\ c[j - 1].inline
      BY <1>6, <1>7, <1>10, <2>2
    <3>2. d.no_value /\ j - 1 = n
      BY <3>1 DEF GoodChain
    <3>3. QED
      BY <1>2, <1>6, <3>2
  <2>3. QED
    BY <2>1, <2>2
<1>11. ChainKeys(t) = ChainKeys(c) \cup {key}
  <2>1. ASSUME NEW y \in ChainKeys(t) PROVE y \in ChainKeys(c) \cup {key}
    <3>1. PICK j \in 1 .. Len(t) : y = t[j].key
      BY DEF ChainKeys
    <3>2. QED
      BY <1>3, <1>6, <1>7, <1>8, <3>1
  <2>2. ASSUME NEW y \in ChainKeys(c) PROVE y \in ChainKeys(t)
    <3>1. PICK i \in 1 .. n : y = c[i].key
      BY DEF ChainKeys
    <3>2. i + 1 \in 1 .. Len(t) /\ t[i + 1].key = y
      BY <1>2, <1>6, <3>1
    <3>3. QED
      BY <3>2 DEF ChainKeys
  <2>3. key \in ChainKeys(t)
    <3>1. 1 \in 1 .. Len(t) /\ t[1].key = key
      BY <1>2, <1>3, <1>6
    <3>2. QED
      BY <3>1 DEF ChainKeys
  <2>4. QED
    BY <2>1, <2>2, <2>3
<1>12. QED
  BY <1>1, <1>5, <1>9, <1>10, <1>11 DEF GoodChain, t

\* Where a key is.
LEMMA PositionIs ==
    ASSUME NEW nv, NEW c, GoodChain(c, nv), NEW key
    PROVE  /\ Position(c, key) > 0 <=> key \in ChainKeys(c)
           /\ key \in ChainKeys(c) => Position(c, key) \in 1 .. Len(c) /\ c[Position(c, key)].key = key
<1> DEFINE I == {i \in 1 .. Len(c) : c[i].key = key}
<1>1. Len(c) \in Nat /\ DOMAIN c = 1 .. Len(c)
  BY DEF GoodChain
<1>2. key \in ChainKeys(c) <=> I # {}
  BY DEF ChainKeys
<1>3. Position(c, key) = IF I # {} THEN Min(I) ELSE 0
  BY DEF Position, SelectInSeq
<1>4. \A i, j \in I : i = j
  BY DEF GoodChain
<1>5. ASSUME NEW i \in I PROVE Min(I) = i
  <2>1. \E x \in I : \A y \in I : x <= y
    BY <1>4
  <2>2. Min(I) \in I
    BY <2>1, Zenon DEF Min
  <2>3. QED
    BY <1>4, <2>2
<1>6. QED
  BY <1>1, <1>2, <1>3, <1>5
\* A key less.
LEMMA ChainRemove ==
    ASSUME NEW nv, NEW c, GoodChain(c, nv), NEW key \in ChainKeys(c)
    PROVE  /\ GoodChain(RemoveAt(c, Position(c, key)), nv)
           /\ ChainKeys(RemoveAt(c, Position(c, key))) = ChainKeys(c) \ {key}
<1> DEFINE p == Position(c, key)
           t == RemoveAt(c, p)
           n == Len(c)
<1>1. c \in Seq(Entry) /\ n \in Nat
  BY DEF GoodChain
<1>2. p \in 1 .. n /\ c[p].key = key
  BY PositionIs
<1> HIDE DEF p
<1>3. t = DeletedAt(c, p - 1) /\ p - 1 \in 0 .. (n - 1)
  BY <1>1, <1>2, RemoveAtIs
<1>4. t \in Seq(Entry) /\ Len(t) = n - 1
  BY <1>1, <1>3, DeletedType
<1>5. \A i \in 1 .. (n - 1) : t[i] = IF i < p THEN c[i] ELSE c[i + 1]
  <2>1. \A i \in 1 .. (n - 1) : t[i] = IF i <= p - 1 THEN c[i] ELSE c[i + 1]
    BY <1>3 DEF DeletedAt
  <2> HIDE DEF t
  <2>2. QED
    BY <1>1, <1>2, <2>1
<1> HIDE DEF t
<1> DEFINE old(i) == IF i < p THEN i ELSE i + 1
<1>6. \A i \in 1 .. (n - 1) : old(i) \in 1 .. n /\ old(i) # p /\ t[i] = c[old(i)]
  BY <1>1, <1>2, <1>5
<1>7. \A i, j \in 1 .. (n - 1) : old(i) = old(j) => i = j
  BY <1>1, <1>2
<1>8. ASSUME NEW i \in 1 .. n, i # p PROVE \E j \in 1 .. (n - 1) : old(j) = i
  <2>1. CASE i < p
    <3>1. i \in 1 .. (n - 1) /\ old(i) = i
      BY <1>1, <1>2, <2>1
    <3>2. QED
      BY <3>1
  <2>2. CASE i > p
    <3>1. i - 1 \in 1 .. (n - 1) /\ old(i - 1) = i
      BY <1>1, <1>2, <2>2
    <3>2. QED
      BY <3>1
  <2>3. QED
    BY <1>1, <1>2, <1>8, <2>1, <2>2
<1>9. \A i \in 1 .. (n - 1) : old(i) = n => i = n - 1
  BY <1>1, <1>2
<1> HIDE DEF old
<1>10. \A i, j \in 1 .. Len(t) : t[i].key = t[j].key => i = j
  BY <1>4, <1>6, <1>7 DEF GoodChain
<1>11. \A i \in 1 .. Len(t) : t[i].inline => nv /\ i = Len(t)
  BY <1>4, <1>6, <1>9 DEF GoodChain
<1>12. ChainKeys(t) = ChainKeys(c) \ {key}
  <2>1. ASSUME NEW y \in ChainKeys(t) PROVE y \in ChainKeys(c) /\ y # key
    <3>1. PICK i \in 1 .. (n - 1) : y = c[old(i)].key
      BY <1>4, <1>6 DEF ChainKeys
    <3>2. old(i) \in 1 .. n /\ old(i) # p
      BY <1>6
    <3>3. y \in ChainKeys(c)
      BY <3>1, <3>2 DEF ChainKeys
    <3>4. y # key
      BY <1>2, <3>1, <3>2 DEF GoodChain
    <3>5. QED
      BY <3>3, <3>4
  <2>2. ASSUME NEW y \in ChainKeys(c), y # key PROVE y \in ChainKeys(t)
    <3>1. PICK i \in 1 .. n : y = c[i].key
      BY DEF ChainKeys
    <3>2. PICK j \in 1 .. (n - 1) : old(j) = i
      BY <1>2, <1>8, <2>2, <3>1
    <3>3. y = t[j].key /\ j \in 1 .. Len(t)
      BY <1>4, <1>6, <3>1, <3>2
    <3>4. QED
      BY <3>3 DEF ChainKeys
  <2>3. QED
    BY <2>1, <2>2
<1>13. QED
  BY <1>4, <1>10, <1>11, <1>12 DEF GoodChain, t, p

\* Another chain in bucket i.
LEMMA TableUpdate ==
    ASSUME NEW nv, NEW r, NEW e \in Nat, NEW T, GoodTable(T, e, r, nv),
           NEW i \in 0 .. (DICTHT_SIZE(e) - 1), NEW c, GoodChain(c, nv),
           \A k \in ChainKeys(c) : Slot(Hash[k], e) = i, i < r => c = <<>>
    PROVE  /\ GoodTable([T EXCEPT ![i] = c], e, r, nv)
           /\ KeysOf([T EXCEPT ![i] = c], e) = (KeysOf(T, e) \ ChainKeys(T[i])) \cup ChainKeys(c)
           /\ ChainKeys(T[i]) \subseteq KeysOf(T, e)
<1> DEFINE N == DICTHT_SIZE(e)
           U == [T EXCEPT ![i] = c]
<1>1. DOMAIN T = 0 .. (N - 1)
  BY DEF GoodTable
<1> HIDE DEF N
<1>2. /\ DOMAIN U = 0 .. (N - 1) /\ U = [j \in DOMAIN U |-> U[j]]
      /\ U[i] = c /\ \A j \in 0 .. (N - 1) : j # i => U[j] = T[j]
  BY <1>1 DEF N
<1> HIDE DEF U
<1>3. GoodTable(U, e, r, nv)
  <2>1. ASSUME NEW j \in 0 .. (N - 1)
        PROVE  /\ GoodChain(U[j], nv) /\ (j < r => U[j] = <<>>)
               /\ \A k \in ChainKeys(U[j]) : Slot(Hash[k], e) = j
    <3>1. CASE j = i
      BY <1>2, <3>1
    <3>2. CASE j # i
      BY <1>2, <3>2 DEF GoodTable, N
    <3>3. QED
      BY <3>1, <3>2
  <2>2. QED
    BY <1>2, <2>1 DEF GoodTable, N
<1>4. \A k \in DOMAIN Hash : Slot(Hash[k], e) \in 0 .. (N - 1)
  BY DictAssumption, SlotIs DEF N
<1>5. ChainKeys(c) \subseteq DOMAIN Hash
  BY ChainIs
<1>6. GoodChain(T[i], nv) /\ \A k \in ChainKeys(T[i]) : Slot(Hash[k], e) = i
  BY DEF GoodTable
<1>7. ChainKeys(T[i]) \subseteq DOMAIN Hash
  BY <1>6, ChainIs
<1>8. e # -1
  OBVIOUS
<1>9. KeysOf(U, e) = (KeysOf(T, e) \ ChainKeys(T[i])) \cup ChainKeys(c)
  <2>1. ASSUME NEW k \in DOMAIN Hash
        PROVE  k \in ChainKeys(U[Slot(Hash[k], e)]) <=>
                   (k \in ChainKeys(T[Slot(Hash[k], e)]) /\ k \notin ChainKeys(T[i])) \/ k \in ChainKeys(c)
    <3>1. CASE Slot(Hash[k], e) = i
      BY <1>2, <3>1
    <3>2. CASE Slot(Hash[k], e) # i
      BY <1>2, <1>4, <1>6, <3>2
    <3>3. QED
      BY <3>1, <3>2
  <2>2. QED
    BY <1>5, <1>7, <1>8, <2>1 DEF KeysOf
<1>10. ChainKeys(T[i]) \subseteq KeysOf(T, e)
  BY <1>6, <1>7, <1>8 DEF KeysOf
<1>11. QED
  BY <1>3, <1>9, <1>10 DEF U

\* TableUpdate, with its hypotheses and its conclusions by name.
Fits(T, e, r, nv, i, c) ==
    /\ e \in Nat /\ GoodTable(T, e, r, nv) /\ i \in 0 .. (DICTHT_SIZE(e) - 1) /\ GoodChain(c, nv)
    /\ \A k \in ChainKeys(c) : Slot(Hash[k], e) = i
    /\ i < r => c = <<>>

Fitted(T, e, r, nv, i, c) ==
    /\ GoodTable([T EXCEPT ![i] = c], e, r, nv)
    /\ KeysOf([T EXCEPT ![i] = c], e) = (KeysOf(T, e) \ ChainKeys(T[i])) \cup ChainKeys(c)
    /\ ChainKeys(T[i]) \subseteq KeysOf(T, e)

\* A chain put in its bucket leaves the array sound (TableUpdate by name).
LEMMA Fitting ==
    ASSUME NEW T, NEW e, NEW r, NEW nv, NEW i, NEW c, Fits(T, e, r, nv, i, c)
    PROVE  Fitted(T, e, r, nv, i, c)
BY TableUpdate DEF Fits, Fitted

\* An array without keys.
LEMMA EmptyTableIs ==
    ASSUME NEW nv, NEW r, NEW e \in Nat \cup {-1}
    PROVE  GoodTable(EmptyTable(e), e, r, nv) /\ KeysOf(EmptyTable(e), e) = {}
<1> DEFINE N == DICTHT_SIZE(e)
           T == EmptyTable(e)
<1>1. T = [i \in 0 .. (N - 1) |-> <<>>]
  BY DEF EmptyTable
<1> HIDE DEF N, T
<1>2. DOMAIN T = 0 .. (N - 1) /\ \A i \in 0 .. (N - 1) : T[i] = <<>>
  BY <1>1
<1>3. GoodTable(T, e, r, nv)
  BY <1>1, <1>2, EmptyChain DEF GoodTable, N
<1>4. ASSUME NEW k \in DOMAIN Hash, e # -1 PROVE k \notin ChainKeys(T[Slot(Hash[k], e)])
  <2>1. Slot(Hash[k], e) \in 0 .. (N - 1)
    BY <1>4, DictAssumption, SlotIs DEF N
  <2>2. QED
    BY <1>2, <2>1, EmptyChain
<1>5. QED
  BY <1>3, <1>4 DEF KeysOf, T

-----------------------------------------------------------------------------
(* A dict and the set of its keys. *)

\* d has these fields.
Fields == {"table", "exp", "used", "rehashidx", "pauseAutoResize", "no_value", "asserts"}

Pair(x, a, b) == x = <<a, b>>

FieldsAre(d, T1, T2, e1, e2, u1, u2, r, p, nv, a) ==
    /\ DOMAIN d = Fields /\ d = [x \in DOMAIN d |-> d[x]]
    /\ Pair(d.table, T1, T2) /\ Pair(d.exp, e1, e2) /\ Pair(d.used, u1, u2)
    /\ d.rehashidx = r /\ d.pauseAutoResize = p /\ d.no_value = nv /\ d.asserts = a

\* One half of a pair changed.
LEMMA PairIs ==
    ASSUME NEW x, NEW y, NEW z, NEW w, Pair(x, y, z)
    PROVE  /\ Pair([x EXCEPT ![1] = w], w, z) /\ Pair([x EXCEPT ![2] = w], y, w)
           /\ x[1] = y /\ x[2] = z
<1>1. Pair([x EXCEPT ![1] = w], w, z)
  BY DEF Pair
<1>2. Pair([x EXCEPT ![2] = w], y, w)
  BY DEF Pair
<1>3. QED
  BY <1>1, <1>2 DEF Pair

\* Other arrays.
LEMMA WithAll ==
    ASSUME NEW d, NEW T1, NEW T2, NEW e1, NEW e2, NEW u1, NEW u2, NEW r, NEW p, NEW nv, NEW a,
           FieldsAre(d, T1, T2, e1, e2, u1, u2, r, p, nv, a), NEW A, NEW B, NEW C, NEW D, NEW E, NEW F, NEW s
    PROVE  FieldsAre([d EXCEPT !.table = <<A, B>>, !.exp = <<C, D>>, !.used = <<E, F>>, !.rehashidx = s],
                     A, B, C, D, E, F, s, p, nv, a)
<1>1. \A x, y : Pair(<<x, y>>, x, y)
  BY DEF Pair
<1>2. QED
  BY <1>1 DEF FieldsAre, Fields

\* Another second array.
LEMMA WithSecond ==
    ASSUME NEW d, NEW T1, NEW T2, NEW e1, NEW e2, NEW u1, NEW u2, NEW r, NEW p, NEW nv, NEW a,
           FieldsAre(d, T1, T2, e1, e2, u1, u2, r, p, nv, a), NEW B, NEW D, NEW F, NEW s
    PROVE  FieldsAre([d EXCEPT !.table[2] = B, !.exp[2] = D, !.used[2] = F, !.rehashidx = s],
                     T1, B, e1, D, u1, F, s, p, nv, a)
<1>1. QED
  BY PairIs DEF FieldsAre, Fields

\* One more key in the second array, and one less in the first.
LEMMA WithMoved ==
    ASSUME NEW d, NEW T1, NEW T2, NEW e1, NEW e2, NEW u1, NEW u2, NEW r, NEW p, NEW nv, NEW a,
           FieldsAre(d, T1, T2, e1, e2, u1, u2, r, p, nv, a), NEW h, NEW c
    PROVE  FieldsAre([d EXCEPT !.table[2][h] = c, !.used[1] = @ - 1, !.used[2] = @ + 1],
                     T1, [T2 EXCEPT ![h] = c], e1, e2, u1 - 1, u2 + 1, r, p, nv, a)
<1> DEFINE U == [T2 EXCEPT ![h] = c]
           m == u1 - 1
           n == u2 + 1
           f == [d EXCEPT !.table[2][h] = c, !.used[1] = @ - 1, !.used[2] = @ + 1]
<1>1. /\ Pair(d.table, T1, T2) /\ Pair(d.exp, e1, e2) /\ Pair(d.used, u1, u2) /\ DOMAIN d = Fields
  BY DEF FieldsAre
<1>2. /\ DOMAIN f = Fields /\ f = [x \in DOMAIN f |-> f[x]]
      /\ f.exp = d.exp /\ f.rehashidx = d.rehashidx /\ f.pauseAutoResize = d.pauseAutoResize
      /\ f.no_value = d.no_value /\ f.asserts = d.asserts
  BY <1>1 DEF Fields
<1>3. f.table = [d.table EXCEPT ![2] = [d.table[2] EXCEPT ![h] = c]]
  BY <1>1 DEF Fields
<1>4. f.used = [[d.used EXCEPT ![1] = d.used[1] - 1] EXCEPT ![2] = d.used[2] + 1]
  BY <1>1 DEF Fields, Pair
<1>5. d.table[2] = T2 /\ d.used[1] = u1 /\ d.used[2] = u2
  BY <1>1, PairIs
<1>6. f.table = [d.table EXCEPT ![2] = U] /\ f.used = [[d.used EXCEPT ![1] = m] EXCEPT ![2] = n]
  BY <1>3, <1>4, <1>5
<1> HIDE DEF f, U, m, n
<1>7. Pair([d.table EXCEPT ![2] = U], T1, U)
  BY <1>1, PairIs
<1>8. Pair([d.used EXCEPT ![1] = m], m, u2)
  BY <1>1, PairIs
<1>9. Pair([[d.used EXCEPT ![1] = m] EXCEPT ![2] = n], m, n)
  BY <1>8, PairIs
<1>10. FieldsAre(f, T1, U, e1, e2, m, n, r, p, nv, a)
  BY <1>1, <1>2, <1>6, <1>7, <1>9 DEF FieldsAre
<1>11. QED
  BY <1>10 DEF f, U, m, n

\* Another chain.
LEMMA WithChain ==
    ASSUME NEW d, NEW T1, NEW T2, NEW e1, NEW e2, NEW u1, NEW u2, NEW r, NEW p, NEW nv, NEW a,
           FieldsAre(d, T1, T2, e1, e2, u1, u2, r, p, nv, a), NEW h, NEW c, NEW n
    PROVE  /\ FieldsAre([d EXCEPT !.table[1][h] = c], [T1 EXCEPT ![h] = c], T2, e1, e2, u1, u2, r, p, nv, a)
           /\ FieldsAre([d EXCEPT !.table[1][h] = c, !.used[1] = n], [T1 EXCEPT ![h] = c], T2, e1, e2, n, u2, r, p, nv, a)
           /\ FieldsAre([d EXCEPT !.table[2][h] = c, !.used[2] = n], T1, [T2 EXCEPT ![h] = c], e1, e2, u1, n, r, p, nv, a)
<1> DEFINE U1 == [T1 EXCEPT ![h] = c]
           U2 == [T2 EXCEPT ![h] = c]
           f == [d EXCEPT !.table[1][h] = c]
           g == [d EXCEPT !.table[1][h] = c, !.used[1] = n]
           k == [d EXCEPT !.table[2][h] = c, !.used[2] = n]
<1>1. /\ Pair(d.table, T1, T2) /\ Pair(d.exp, e1, e2) /\ Pair(d.used, u1, u2) /\ DOMAIN d = Fields
  BY DEF FieldsAre
<1>2. d.table[1] = T1 /\ d.table[2] = T2
  BY <1>1, PairIs
<1>3. /\ DOMAIN f = Fields /\ f = [x \in DOMAIN f |-> f[x]]
      /\ f.exp = d.exp /\ f.rehashidx = d.rehashidx /\ f.pauseAutoResize = d.pauseAutoResize
      /\ f.no_value = d.no_value /\ f.asserts = d.asserts /\ f.used = d.used
      /\ f.table = [d.table EXCEPT ![1] = U1]
  BY <1>1, <1>2 DEF Fields
<1>4. /\ DOMAIN g = Fields /\ g = [x \in DOMAIN g |-> g[x]]
      /\ g.exp = d.exp /\ g.rehashidx = d.rehashidx /\ g.pauseAutoResize = d.pauseAutoResize
      /\ g.no_value = d.no_value /\ g.asserts = d.asserts /\ g.used = [d.used EXCEPT ![1] = n]
      /\ g.table = [d.table EXCEPT ![1] = U1]
  BY <1>1, <1>2 DEF Fields
<1>5. /\ DOMAIN k = Fields /\ k = [x \in DOMAIN k |-> k[x]]
      /\ k.exp = d.exp /\ k.rehashidx = d.rehashidx /\ k.pauseAutoResize = d.pauseAutoResize
      /\ k.no_value = d.no_value /\ k.asserts = d.asserts /\ k.used = [d.used EXCEPT ![2] = n]
      /\ k.table = [d.table EXCEPT ![2] = U2]
  BY <1>1, <1>2 DEF Fields
<1> HIDE DEF f, g, k, U1, U2
<1>6. /\ Pair([d.table EXCEPT ![1] = U1], U1, T2) /\ Pair([d.table EXCEPT ![2] = U2], T1, U2)
      /\ Pair([d.used EXCEPT ![1] = n], n, u2) /\ Pair([d.used EXCEPT ![2] = n], u1, n)
  BY <1>1, PairIs
<1>7. FieldsAre(f, U1, T2, e1, e2, u1, u2, r, p, nv, a)
  BY <1>1, <1>3, <1>6 DEF FieldsAre
<1>8. FieldsAre(g, U1, T2, e1, e2, n, u2, r, p, nv, a)
  BY <1>1, <1>4, <1>6 DEF FieldsAre
<1>9. FieldsAre(k, T1, U2, e1, e2, u1, n, r, p, nv, a)
  BY <1>1, <1>5, <1>6 DEF FieldsAre
<1>10. QED
  BY <1>7, <1>8, <1>9 DEF f, g, k, U1, U2

\* Another index of rehashing, another count of pauses.
LEMMA WithIndex ==
    ASSUME NEW d, NEW T1, NEW T2, NEW e1, NEW e2, NEW u1, NEW u2, NEW r, NEW p, NEW nv, NEW a,
           FieldsAre(d, T1, T2, e1, e2, u1, u2, r, p, nv, a), NEW h, NEW c, NEW n
    PROVE  /\ FieldsAre([d EXCEPT !.rehashidx = c], T1, T2, e1, e2, u1, u2, c, p, nv, a)
           /\ FieldsAre([d EXCEPT !.pauseAutoResize = c], T1, T2, e1, e2, u1, u2, r, c, nv, a)
<1>4. FieldsAre([d EXCEPT !.rehashidx = c], T1, T2, e1, e2, u1, u2, c, p, nv, a)
  BY DEF FieldsAre, Fields
<1>5. FieldsAre([d EXCEPT !.pauseAutoResize = c], T1, T2, e1, e2, u1, u2, r, c, nv, a)
  BY DEF FieldsAre, Fields
<1>6. QED BY <1>4, <1>5

Shape(d) ==
    FieldsAre(d, d.table[1], d.table[2], d.exp[1], d.exp[2], d.used[1], d.used[2], d.rehashidx,
              d.pauseAutoResize, d.no_value, d.asserts)

CountIs(n, S) == IsFiniteSet(S) /\ n = Cardinality(S) /\ n \in Nat

\* Sound parts of a dict with the keys K1 in its first and K2 in its second array.
GoodFields(T1, T2, e1, e2, u1, u2, r, p, nv, a, K1, K2) ==
    /\ e1 \in Nat \cup {-1} /\ e2 \in Nat \cup {-1}
    /\ GoodTable(T1, e1, r, nv) /\ GoodTable(T2, e2, 0, nv)
    /\ K1 = KeysOf(T1, e1) /\ K2 = KeysOf(T2, e2) /\ K1 \cap K2 = {}
    /\ CountIs(u1, K1) /\ CountIs(u2, K2)
    /\ r \in -1 .. DICTHT_SIZE(e1) /\ (r = -1 <=> e2 = -1) /\ (r # -1 => e1 # -1)
    /\ p \in Nat /\ nv \in BOOLEAN /\ a = TRUE

KeysIn(d, t) == KeysOf(d.table[t], d.exp[t])

\* d is sound and holds the keys K.
GoodDict(d, K) ==
    /\ Shape(d)
    /\ GoodFields(d.table[1], d.table[2], d.exp[1], d.exp[2], d.used[1], d.used[2], d.rehashidx,
                  d.pauseAutoResize, d.no_value, d.asserts, KeysIn(d, 1), KeysIn(d, 2))
    /\ K = KeysIn(d, 1) \cup KeysIn(d, 2)

\* f holds the keys K, and is for the rest of the kind of d.
Becomes(f, d, K) ==
    GoodDict(f, K) /\ f.no_value = d.no_value /\ f.pauseAutoResize = d.pauseAutoResize

\* A dict from its fields.
LEMMA FromFields ==
    ASSUME NEW d, NEW T1, NEW T2, NEW e1, NEW e2, NEW u1, NEW u2, NEW r, NEW p, NEW nv, NEW a,
           NEW K1, NEW K2,
           FieldsAre(d, T1, T2, e1, e2, u1, u2, r, p, nv, a),
           GoodFields(T1, T2, e1, e2, u1, u2, r, p, nv, a, K1, K2)
    PROVE  /\ GoodDict(d, K1 \cup K2) /\ d.no_value = nv /\ d.pauseAutoResize = p
           /\ d.exp[1] = e1 /\ d.exp[2] = e2 /\ d.rehashidx = r
           /\ d.table[1] = T1 /\ d.table[2] = T2
<1>1. /\ d.table[1] = T1 /\ d.table[2] = T2 /\ d.exp[1] = e1 /\ d.exp[2] = e2
      /\ d.used[1] = u1 /\ d.used[2] = u2 /\ d.rehashidx = r /\ d.pauseAutoResize = p
      /\ d.no_value = nv /\ d.asserts = a
  BY DEF FieldsAre, Pair
<1>2. Shape(d)
  BY <1>1 DEF Shape
<1>3. KeysIn(d, 1) = K1 /\ KeysIn(d, 2) = K2
  BY <1>1 DEF KeysIn, GoodFields
<1>4. QED
  BY <1>1, <1>2, <1>3 DEF GoodDict

\* The keys are finitely many.
LEMMA DictFinite ==
    ASSUME NEW d, NEW K, GoodDict(d, K)
    PROVE  /\ IsFiniteSet(K) /\ K \subseteq DOMAIN Hash
           /\ dictSize(d) = Cardinality(K) /\ dictSize(d) \in Nat
           /\ dictSize(d) = 0 <=> K = {}
<1> DEFINE A == KeysIn(d, 1)
           B == KeysIn(d, 2)
<1>1. /\ IsFiniteSet(A) /\ IsFiniteSet(B) /\ A \cap B = {} /\ K = A \cup B
      /\ d.used[1] = Cardinality(A) /\ d.used[2] = Cardinality(B)
      /\ d.used[1] \in Nat /\ d.used[2] \in Nat
  BY DEF GoodDict, GoodFields, CountIs
<1>2. A \subseteq DOMAIN Hash /\ B \subseteq DOMAIN Hash
  BY DEF KeysIn, KeysOf
<1> HIDE DEF A, B
<1>3. IsFiniteSet(K)
  BY <1>1, FS_Union
<1>4. Cardinality(A \cup B) = Cardinality(A) + Cardinality(B) - Cardinality(A \cap B)
  BY <1>1, FS_Union
<1>5. Cardinality({}) = 0
  BY FS_EmptySet
<1>6. Cardinality(K) = d.used[1] + d.used[2]
  <2>1. Cardinality(A \cap B) = 0
    BY <1>1, <1>5
  <2>2. Cardinality(K) = Cardinality(A \cup B)
    BY <1>1
  <2>3. Cardinality(A) \in Nat /\ Cardinality(B) \in Nat
    BY <1>1
  <2>4. QED
    BY <1>1, <1>4, <2>1, <2>2, <2>3
<1>7. Cardinality(K) = 0 <=> K = {}
  BY <1>3, FS_EmptySet
<1>8. QED
  BY <1>1, <1>2, <1>3, <1>6, <1>7 DEF dictSize

\* A new dict.
THEOREM DictCreateIs ==
    ASSUME NEW nv \in BOOLEAN
    PROVE  GoodDict(dictCreate(nv), {})
<1> DEFINE T == EmptyTable(-1)
<1>1. /\ GoodTable(T, -1, -1, nv) /\ GoodTable(T, -1, 0, nv) /\ KeysOf(T, -1) = {}
  BY EmptyTableIs
<1>2. DICTHT_SIZE(-1) = 0
  BY DEF DICTHT_SIZE
<1> HIDE DEF T
<1>3. CountIs(0, {})
  BY FS_EmptySet DEF CountIs
<1>4. GoodFields(T, T, -1, -1, 0, 0, -1, 0, nv, TRUE, {}, {})
  BY <1>1, <1>2, <1>3 DEF GoodFields
<1>5. FieldsAre(dictCreate(nv), T, T, -1, -1, 0, 0, -1, 0, nv, TRUE)
  <2> DEFINE f == dictCreate(nv)
  <2>1. /\ f.table = <<T, T>> /\ f.exp = <<-1, -1>> /\ f.used = <<0, 0>>
        /\ f.rehashidx = -1 /\ f.pauseAutoResize = 0 /\ f.no_value = nv /\ f.asserts = TRUE
        /\ DOMAIN f = Fields /\ f = [x \in DOMAIN f |-> f[x]]
    BY DEF dictCreate, T, Fields
  <2> HIDE DEF f
  <2>2. FieldsAre(f, T, T, -1, -1, 0, 0, -1, 0, nv, TRUE)
    BY <2>1 DEF FieldsAre, Pair
  <2>3. QED
    BY <2>2 DEF f
<1>6. GoodDict(dictCreate(nv), {} \cup {})
  BY <1>4, <1>5, FromFields
<1>7. QED
  BY <1>6

-----------------------------------------------------------------------------
(* Resizing. *)

\* _dictNextExp gives an exponent.
LEMMA NextExpIs ==
    ASSUME NEW size \in Nat
    PROVE  _dictNextExp(size) \in Nat
<1> DEFINE I == DICT_HT_INITIAL_EXP
           Ok(e) == size <= Pow2[e] /\ (e = I \/ Pow2[e - 1] < size)
           T == {n \in 0 .. size : size > Pow2[I + n] /\ \A m \in 0 .. n : ~ Ok(I + m)}
<1>1. I \in Nat
  BY DictAssumption
<1>2. \E e \in I .. (I + size) : Ok(e)
  <2> SUFFICES ASSUME \A e \in I .. (I + size) : ~ Ok(e) PROVE FALSE
    OBVIOUS
  <2> DEFINE V == {n \in 0 .. size : size > Pow2[I + n]}
  <2>1. 0 \in V
    <3>1. I \in I .. (I + size) /\ I + 0 = I /\ Pow2[I] \in Nat
      BY <1>1, Pow2Is
    <3>2. ~ Ok(I)
      BY <3>1
    <3>3. QED
      BY <3>1, <3>2
  <2>2. ASSUME NEW n \in 0 .. (size - 1), n \in V PROVE n + 1 \in V
    <3>1. I + (n + 1) \in I .. (I + size) /\ (I + (n + 1)) - 1 = I + n /\ I + (n + 1) # I
      BY <1>1
    <3>2. Pow2[I + n] < size
      BY <2>2, Pow2Is, <1>1
    <3>3. ~ Ok(I + (n + 1))
      BY <3>1
    <3>4. ~ (size <= Pow2[I + (n + 1)])
      BY <3>1, <3>2, <3>3
    <3>5. Pow2[I + (n + 1)] \in Nat
      BY <1>1, Pow2Is
    <3>6. QED
      BY <3>4, <3>5
  <2>3. size \in V
    <3> HIDE DEF V
    <3>1. \A n \in 0 .. size : n \in V
      BY <2>1, <2>2, UpTo
    <3>2. QED
      BY <3>1
  <2>4. I + size < Pow2[I + size] /\ Pow2[I + size] \in Nat
    BY <1>1, Pow2Grows, Pow2Is
  <2>5. QED
    BY <1>1, <2>3, <2>4
<1>3. _dictNextExp(size) = CHOOSE e \in I .. (I + size) : Ok(e)
  BY DEF _dictNextExp
<1>4. _dictNextExp(size) \in I .. (I + size)
  <2> HIDE DEF Ok, I
  <2>1. QED
    BY <1>2, <1>3
<1>5. QED
  BY <1>1, <1>4
\* What a resize leaves: the keys, and an array.
Resized(f, d, K) ==
    Becomes(f, d, K) /\ f.exp[1] # -1 /\ (f.rehashidx > 0 \/ f.exp = d.exp => f = d)

\* A count of zero is no key.
LEMMA CountZero ==
    ASSUME NEW n, NEW S, CountIs(n, S)
    PROVE  (n = 0 <=> S = {}) /\ n \in Nat
BY FS_EmptySet DEF CountIs

\* A new array of another size, filled at once or by rehashing.
LEMMA ResizeToIs ==
    ASSUME NEW d, NEW K, GoodDict(d, K), d.rehashidx = -1, NEW e \in Nat
    PROVE  Resized(ResizeTo(d, e), d, K)
<1> DEFINE T1 == d.table[1]
           T2 == d.table[2]
           e1 == d.exp[1]
           e2 == d.exp[2]
           u1 == d.used[1]
           u2 == d.used[2]
           p == d.pauseAutoResize
           nv == d.no_value
           A == KeysIn(d, 1)
           B == KeysIn(d, 2)
           E == EmptyTable(e)
           N == EmptyTable(-1)
<1>1. FieldsAre(d, T1, T2, e1, e2, u1, u2, -1, p, nv, TRUE)
  <2>1. d.asserts = TRUE
    BY DEF GoodDict, GoodFields
  <2>2. QED
    BY <2>1 DEF GoodDict, Shape
<1>2. GoodFields(T1, T2, e1, e2, u1, u2, -1, p, nv, d.asserts, A, B) /\ K = A \cup B
  BY DEF GoodDict
<1>3. d.asserts = TRUE /\ e2 = -1 /\ CountIs(u1, A) /\ GoodTable(T1, e1, -1, nv) /\ nv \in BOOLEAN
  BY <1>2 DEF GoodFields
<1>4. B = {} /\ A = KeysOf(T1, e1)
  BY <1>3 DEF KeysIn, KeysOf
<1>5. /\ GoodTable(E, e, -1, nv) /\ GoodTable(E, e, 0, nv) /\ KeysOf(E, e) = {}
      /\ GoodTable(N, -1, 0, nv) /\ KeysOf(N, -1) = {}
  BY EmptyTableIs
<1>6. CountIs(0, {})
  BY FS_EmptySet DEF CountIs
<1>7. u1 = 0 <=> A = {}
  BY <1>3, CountZero
<1>8. e # -1 /\ DICTHT_SIZE(e) \in Nat
  BY SlotIs
<1> HIDE DEF A, B, E, N, T1, T2, e1, e2, u1, u2, p, nv
<1>9. CASE e = e1
  BY <1>8, <1>9 DEF ResizeTo, e1, Resized, Becomes
<1>10. CASE e # e1 /\ u1 = 0
  <2> DEFINE f == [d EXCEPT !.table = <<E, N>>, !.exp = <<e, -1>>, !.used = <<0, 0>>, !.rehashidx = -1]
  <2>1. ResizeTo(d, e) = f
    BY <1>10 DEF ResizeTo, e1, u1, E, N
  <2>2. FieldsAre(f, E, N, e, -1, 0, 0, -1, p, nv, TRUE)
    <3> DEFINE none == -1
               zero == 0
               g == [d EXCEPT !.table = <<E, N>>, !.exp = <<e, none>>, !.used = <<zero, zero>>,
                              !.rehashidx = none]
    <3>1. FieldsAre(d, T1, T2, e1, e2, u1, u2, none, p, nv, TRUE)
      BY <1>1
    <3>2. f = g
      OBVIOUS
    <3> HIDE DEF none, zero
    <3>3. FieldsAre(g, E, N, e, none, zero, zero, none, p, nv, TRUE)
      BY <3>1, WithAll
    <3> HIDE DEF f, g
    <3>4. FieldsAre(f, E, N, e, none, zero, zero, none, p, nv, TRUE)
      BY <3>2, <3>3
    <3>5. QED
      BY <3>4 DEF none, zero
  <2> HIDE DEF f
  <2>3. GoodFields(E, N, e, -1, 0, 0, -1, p, nv, TRUE, {}, {})
    BY <1>2, <1>3, <1>5, <1>6, <1>8 DEF GoodFields
  <2>4. /\ GoodDict(f, {} \cup {}) /\ f.no_value = nv /\ f.pauseAutoResize = p /\ f.exp[1] = e
    BY <2>2, <2>3, FromFields
  <2>5. K = {}
    BY <1>2, <1>4, <1>7, <1>10
  <2>6. f.exp # d.exp /\ ~ (f.rehashidx > 0)
    <3>1. f.exp[1] = e /\ f.rehashidx = -1
      BY <2>2 DEF FieldsAre, Pair
    <3>2. QED
      BY <1>10, <3>1 DEF e1
  <2>7. QED
    BY <1>8, <2>1, <2>4, <2>5, <2>6 DEF Resized, Becomes, nv, p
<1>11. CASE e # e1 /\ u1 # 0
  <2> DEFINE f == [d EXCEPT !.table[2] = E, !.exp[2] = e, !.used[2] = 0, !.rehashidx = 0]
  <2>1. ResizeTo(d, e) = f
    BY <1>11 DEF ResizeTo, e1, u1, E
  <2>2. FieldsAre(f, T1, E, e1, e, u1, 0, 0, p, nv, TRUE)
    BY <1>1, WithSecond
  <2> HIDE DEF f
  <2>3. e1 # -1 /\ e1 \in Nat
    BY <1>2, <1>4, <1>7, <1>11 DEF KeysOf, GoodFields
  <2>4. DICTHT_SIZE(e1) \in Nat \ {0}
    BY <2>3, SlotIs
  <2>5. GoodTable(T1, e1, 0, nv)
    <3>1. \A i \in 0 .. (DICTHT_SIZE(e1) - 1) : ~ (i < 0)
      BY <2>4
    <3>2. QED
      BY <1>3, <3>1 DEF GoodTable
  <2>6. GoodFields(T1, E, e1, e, u1, 0, 0, p, nv, TRUE, A, {})
    <3>1. 0 \in -1 .. DICTHT_SIZE(e1)
      BY <2>4
    <3>2. QED
      BY <1>2, <1>3, <1>4, <1>5, <1>6, <1>8, <2>3, <2>5, <3>1 DEF GoodFields
  <2>7. /\ GoodDict(f, A \cup {}) /\ f.no_value = nv /\ f.pauseAutoResize = p /\ f.exp[1] = e1
    BY <2>2, <2>6, FromFields
  <2>8. K = A \cup {}
    BY <1>2, <1>4
  <2>9. f.exp # d.exp /\ ~ (f.rehashidx > 0)
    <3>1. f.exp[2] = e /\ f.rehashidx = 0
      BY <2>2 DEF FieldsAre, Pair
    <3>2. QED
      BY <1>3, <1>8, <3>1 DEF e2
  <2>10. QED
    BY <2>1, <2>3, <2>7, <2>8, <2>9 DEF Resized, Becomes, nv, p
<1>12. QED
  BY <1>9, <1>10, <1>11

\* _dictResize, outside a rehash.
LEMMA DictResizeIs ==
    ASSUME NEW d, NEW K, GoodDict(d, K), d.rehashidx = -1, NEW size \in Nat
    PROVE  Resized(_dictResize(d, size), d, K)
<1> DEFINE f == [d EXCEPT !.asserts = @ /\ ~ dictIsRehashing(d)]
<1>1. f = d
  <2>1. d.asserts = TRUE
    BY DEF GoodDict, GoodFields
  <2>2. (d.asserts /\ ~ dictIsRehashing(d)) = d.asserts
    BY <2>1 DEF dictIsRehashing
  <2>3. d = [x \in DOMAIN d |-> d[x]] /\ DOMAIN d = Fields
    BY DEF GoodDict, Shape, FieldsAre
  <2>4. QED
    BY <2>2, <2>3
<1>2. _dictResize(d, size) = ResizeTo(f, _dictNextExp(size))
  BY DEF _dictResize
<1> HIDE DEF f
<1>3. QED
  BY <1>1, <1>2, NextExpIs, ResizeToIs

\* dictExpand keeps the keys, and makes an array if there was none.
LEMMA DictExpandIs ==
    ASSUME NEW d, NEW K, GoodDict(d, K), NEW size \in Nat
    PROVE  /\ Becomes(dictExpand(d, size), d, K)
           /\ d.exp[1] # -1 \/ size > 0 => Resized(dictExpand(d, size), d, K)
<1>1. CASE dictIsRehashing(d) \/ d.used[1] > size \/ DICTHT_SIZE(d.exp[1]) >= size
  <2>1. dictExpand(d, size) = d
    BY <1>1 DEF dictExpand
  <2>2. ASSUME d.exp[1] = -1, size > 0 PROVE FALSE
    <3>1. DICTHT_SIZE(-1) = 0
      BY DEF DICTHT_SIZE
    <3>2. d.rehashidx = -1 /\ CountIs(d.used[1], KeysIn(d, 1))
      BY <2>2 DEF GoodDict, GoodFields
    <3>3. KeysIn(d, 1) = {}
      BY <2>2 DEF KeysIn, KeysOf
    <3>4. d.used[1] = 0
      BY <3>2, <3>3, CountZero
    <3>5. QED
      BY <1>1, <2>2, <3>1, <3>2, <3>4 DEF dictIsRehashing
  <2>3. QED
    BY <2>1, <2>2 DEF Becomes, Resized
<1>2. CASE ~ (dictIsRehashing(d) \/ d.used[1] > size \/ DICTHT_SIZE(d.exp[1]) >= size)
  <2>1. dictExpand(d, size) = _dictResize(d, size) /\ d.rehashidx = -1
    BY <1>2 DEF dictExpand, dictIsRehashing
  <2>2. QED
    BY <2>1, DictResizeIs DEF Resized
<1>3. QED
  BY <1>1, <1>2

\* dictShrink keeps the keys.
LEMMA DictShrinkIs ==
    ASSUME NEW d, NEW K, GoodDict(d, K), NEW size \in Nat
    PROVE  Becomes(dictShrink(d, size), d, K)
<1>1. CASE dictIsRehashing(d) \/ d.used[1] > size \/ DICTHT_SIZE(d.exp[1]) <= size
  BY <1>1 DEF dictShrink, Becomes
<1>2. CASE ~ (dictIsRehashing(d) \/ d.used[1] > size \/ DICTHT_SIZE(d.exp[1]) <= size)
  <2>1. dictShrink(d, size) = _dictResize(d, size) /\ d.rehashidx = -1
    BY <1>2 DEF dictShrink, dictIsRehashing
  <2>2. QED
    BY <2>1, DictResizeIs DEF Resized
<1>3. QED
  BY <1>1, <1>2

\* dictExpandIfNeeded always leaves an array.
LEMMA ExpandIfNeededIs ==
    ASSUME NEW d, NEW K, GoodDict(d, K)
    PROVE  Resized(dictExpandIfNeeded(d), d, K)
<1>1. d.used[1] \in Nat /\ (d.rehashidx # -1 => d.exp[1] # -1)
  BY DEF GoodDict, GoodFields, CountIs
<1>2. Pow2[DICT_HT_INITIAL_EXP] \in Nat \ {0}
  BY DictAssumption, Pow2Is
<1>3. CASE dictIsRehashing(d)
  BY <1>1, <1>3 DEF dictExpandIfNeeded, dictIsRehashing, Resized, Becomes
<1>4. CASE ~ dictIsRehashing(d) /\ d.exp[1] = -1
  <2>1. dictExpandIfNeeded(d) = dictExpand(d, Pow2[DICT_HT_INITIAL_EXP])
    BY <1>4 DEF dictExpandIfNeeded
  <2>2. QED
    BY <1>2, <2>1, DictExpandIs DEF Resized
<1>5. CASE ~ dictIsRehashing(d) /\ d.exp[1] # -1
  <2>1. dictExpandIfNeeded(d) = d \/ dictExpandIfNeeded(d) = dictExpand(d, d.used[1] + 1)
    BY <1>5 DEF dictExpandIfNeeded
  <2>2. d.used[1] + 1 \in Nat
    BY <1>1
  <2>3. Resized(dictExpand(d, d.used[1] + 1), d, K)
    BY <1>5, <2>2, DictExpandIs DEF Resized
  <2>4. QED
    BY <1>5, <2>1, <2>3 DEF Resized, Becomes
<1>6. QED
  BY <1>3, <1>4, <1>5

\* dictShrinkIfNeeded keeps the keys.
LEMMA ShrinkIfNeededIs ==
    ASSUME NEW d, NEW K, GoodDict(d, K)
    PROVE  Becomes(dictShrinkIfNeeded(d), d, K)
<1>1. d.used[1] \in Nat
  BY DEF GoodDict, GoodFields, CountIs
<1>2. dictShrinkIfNeeded(d) = d \/ dictShrinkIfNeeded(d) = dictShrink(d, d.used[1])
  BY DEF dictShrinkIfNeeded
<1>3. Becomes(dictShrink(d, d.used[1]), d, K)
  BY <1>1, DictShrinkIs
<1>4. QED
  BY <1>2, <1>3 DEF Becomes

-----------------------------------------------------------------------------
(* Rehashing. *)

\* The loop of rehashEntriesInBucketAtIndex.
MoveAll(d, idx, b, s) ==
    FoldLeft(LAMBDA e, entry : MoveEntry(e, entry.key, Destination(d, entry.key, idx)), b, s)

\* One step of MoveAll and the values of its accumulator.
MoveStep(d, idx, acc, x) == MoveEntry(acc, x.key, Destination(d, x.key, idx))

MoveRun(g, d, idx, b, s, D) ==
    /\ g \in [0 .. Len(s) -> D] /\ g[0] = b
    /\ \A n \in 1 .. Len(s) : g[n] = MoveStep(d, idx, g[n - 1], s[n])

\* MoveAll computes the last one.
LEMMA MoveFold ==
    ASSUME NEW d, NEW idx, NEW S, NEW s \in Seq(S), NEW D, NEW b \in D,
           \A x \in S : \A y \in D : MoveStep(d, idx, y, x) \in D
    PROVE  \E g : MoveRun(g, d, idx, b, s, D) /\ MoveAll(d, idx, b, s) = g[Len(s)]
<1> DEFINE N == Len(s)
           F == [p \in (1 .. N) \X D |-> MoveStep(d, idx, p[2], s[p[1]])]
           Eqn(it) == it = [V \in SUBSET (1 .. N) |->
                        IF V = {} THEN b ELSE MoveStep(d, idx, it[V \ {Max(V)}], s[Max(V)])]
           it == CHOOSE it : Eqn(it)
<1>1. N \in Nat /\ DOMAIN s = 1 .. N
  OBVIOUS
<1>2. \A i \in 1 .. N : s[i] \in S
  BY ElementOfSeq
<1>3. F \in [(1 .. N) \X D -> D]
  BY <1>2
<1>4. \E jt : Eqn(jt)
  <2>1. PICK jt \in [SUBSET (1 .. N) -> D] : Iterates(jt, N, b, F)
    <3> HIDE DEF F, N
    <3>1. QED
      BY <1>1, <1>3, IteratorExists
  <2>2. ASSUME NEW V \in SUBSET (1 .. N), V # {}
        PROVE  F[<<Max(V), jt[V \ {Max(V)}]>>] = MoveStep(d, idx, jt[V \ {Max(V)}], s[Max(V)])
    <3>1. Max(V) \in 1 .. N /\ V \ {Max(V)} \in SUBSET (1 .. N)
      BY <2>2, <1>1, MaxOfPart
    <3>2. jt[V \ {Max(V)}] \in D
      BY <3>1
    <3>3. QED
      BY <3>1, <3>2
  <2>3. Eqn(jt)
    <3> HIDE DEF F, N
    <3>1. QED
      BY <2>1, <2>2 DEF Iterates
  <2>4. QED
    BY <2>3
<1>5. Eqn(it)
  <2> HIDE DEF Eqn
  <2>1. QED
    BY <1>4
<1>6. MoveAll(d, idx, b, s) = it[1 .. N]
  BY <1>1 DEF MoveAll, FoldLeft, MapThenFoldSet, MoveStep
<1> HIDE DEF it
<1>7. it[{}] = b
  BY <1>5
<1>8. ASSUME NEW n \in 1 .. N
      PROVE  it[1 .. n] = MoveStep(d, idx, it[1 .. (n - 1)], s[n])
  <2>1. /\ 1 .. n \in SUBSET (1 .. N) /\ 1 .. n # {}
        /\ Max(1 .. n) = n /\ (1 .. n) \ {n} = 1 .. (n - 1)
    BY <1>1, MaxOfInitial
  <2>2. it[1 .. n] = MoveStep(d, idx, it[(1 .. n) \ {Max(1 .. n)}], s[Max(1 .. n)])
    BY <1>5, <2>1
  <2>3. QED
    BY <2>1, <2>2
<1>9. ASSUME NEW n \in 1 .. N, it[1 .. (n - 1)] \in D
      PROVE  it[1 .. n] = F[<<n, it[1 .. (n - 1)]>>]
  BY <1>8, <1>9
<1> DEFINE g == [n \in 0 .. N |-> it[1 .. n]]
<1>10. Accumulates(g, N, b, F, D)
  <2> HIDE DEF F, N, Eqn
  <2>1. QED
    BY <1>1, <1>3, <1>7, <1>9, AccumulatorOf
<1>11. g[N] = it[1 .. N]
  BY <1>1
<1>12. ASSUME NEW n \in 1 .. N PROVE g[n] = MoveStep(d, idx, g[n - 1], s[n])
  <2>1. n \in 0 .. N /\ n - 1 \in 0 .. N
    BY <1>1
  <2>2. QED
    BY <1>8, <2>1
<1>13. MoveRun(g, d, idx, b, s, D)
  <2> HIDE DEF g, F, Eqn
  <2>1. QED
    BY <1>10, <1>12 DEF MoveRun, Accumulates
<1>14. QED
  <2> HIDE DEF g
  <2>1. QED
    BY <1>6, <1>11, <1>13

\* A count with one more or one less.
LEMMA CountChange ==
    ASSUME NEW n, NEW S, CountIs(n, S), NEW x
    PROVE  /\ x \notin S => CountIs(n + 1, S \cup {x})
           /\ x \in S => CountIs(n - 1, S \ {x})
<1>1. IsFiniteSet(S) /\ n = Cardinality(S) /\ n \in Nat
  BY DEF CountIs
<1>2. ASSUME x \notin S PROVE CountIs(n + 1, S \cup {x})
  <2>1. IsFiniteSet(S \cup {x}) /\ Cardinality(S \cup {x}) = Cardinality(S) + 1
    BY <1>1, <1>2, FS_AddElement
  <2>2. QED
    BY <1>1, <2>1 DEF CountIs
<1>3. ASSUME x \in S PROVE CountIs(n - 1, S \ {x})
  <2>1. IsFiniteSet(S \ {x}) /\ Cardinality(S \ {x}) = Cardinality(S) - 1
    BY <1>1, <1>3, FS_RemoveElement
  <2>2. Cardinality(S \ {x}) \in Nat
    BY <2>1, FS_CardinalityType
  <2>3. QED
    BY <1>1, <2>1, <2>2 DEF CountIs
<1>4. QED
  BY <1>2, <1>3

\* The record with the fields.
Rec(T1, T2, e1, e2, u1, u2, r, p, nv, a) ==
    [table |-> <<T1, T2>>, exp |-> <<e1, e2>>, used |-> <<u1, u2>>, rehashidx |-> r,
     pauseAutoResize |-> p, no_value |-> nv, asserts |-> a]

\* The fields determine the record.
LEMMA RecIs ==
    ASSUME NEW d, NEW T1, NEW T2, NEW e1, NEW e2, NEW u1, NEW u2, NEW r, NEW p, NEW nv, NEW a
    PROVE  FieldsAre(d, T1, T2, e1, e2, u1, u2, r, p, nv, a)
               <=> d = Rec(T1, T2, e1, e2, u1, u2, r, p, nv, a)
<1>1. ASSUME FieldsAre(d, T1, T2, e1, e2, u1, u2, r, p, nv, a)
      PROVE  d = Rec(T1, T2, e1, e2, u1, u2, r, p, nv, a)
  BY <1>1 DEF FieldsAre, Fields, Rec, Pair
<1>2. ASSUME d = Rec(T1, T2, e1, e2, u1, u2, r, p, nv, a)
      PROVE  FieldsAre(d, T1, T2, e1, e2, u1, u2, r, p, nv, a)
  BY <1>2 DEF FieldsAre, Fields, Rec, Pair
<1>3. QED
  BY <1>1, <1>2

\* Where the keys of bucket idx go.
LEMMA DestinationIs ==
    ASSUME NEW d, d.exp[1] \in Nat, d.exp[2] \in Nat, NEW key \in DOMAIN Hash,
           NEW idx, idx = Slot(Hash[key], d.exp[1])
    PROVE  Destination(d, key, idx) = Slot(Hash[key], d.exp[2])
<1>1. Hash[key] \in Nat
  BY DictAssumption
<1>2. CASE d.exp[2] > d.exp[1]
  BY <1>2 DEF Destination
<1>3. CASE ~ (d.exp[2] > d.exp[1])
  <2>1. d.exp[2] <= d.exp[1]
    BY <1>3
  <2>2. QED
    BY <1>1, <1>3, <2>1, SlotOfSlot DEF Destination
<1>4. QED
  BY <1>2, <1>3

\* The first keys of a chain.
FirstKeys(s, n) == {s[j].key : j \in 1 .. n}

\* After n of the keys of s have moved from the first to the second array.
Moved(f, T1, e1, e2, u1, u2, r, p, nv, A, B, s, n) ==
    \E U : /\ FieldsAre(f, T1, U, e1, e2, u1 - n, u2 + n, r, p, nv, TRUE)
           /\ GoodTable(U, e2, 0, nv) /\ KeysOf(U, e2) = B \cup FirstKeys(s, n)
           /\ CountIs(u1 - n, A \ FirstKeys(s, n)) /\ CountIs(u2 + n, B \cup FirstKeys(s, n))

\* Moving the next one.
LEMMA MoveOne ==
    ASSUME NEW f, NEW T1, NEW e1 \in Nat, NEW e2 \in Nat, NEW u1 \in Nat, NEW u2 \in Nat, NEW r, NEW p,
           NEW nv \in BOOLEAN, NEW A, NEW B, A \cap B = {}, NEW s, GoodChain(s, nv), ChainKeys(s) \subseteq A,
           NEW n \in 0 .. (Len(s) - 1), Moved(f, T1, e1, e2, u1, u2, r, p, nv, A, B, s, n),
           NEW h, h = Slot(Hash[s[n + 1].key], e2)
    PROVE  Moved(MoveEntry(f, s[n + 1].key, h), T1, e1, e2, u1, u2, r, p, nv, A, B, s, n + 1)
<1> DEFINE key == s[n + 1].key
<1>1. PICK U : /\ FieldsAre(f, T1, U, e1, e2, u1 - n, u2 + n, r, p, nv, TRUE)
               /\ GoodTable(U, e2, 0, nv) /\ KeysOf(U, e2) = B \cup FirstKeys(s, n)
               /\ CountIs(u1 - n, A \ FirstKeys(s, n)) /\ CountIs(u2 + n, B \cup FirstKeys(s, n))
  BY DEF Moved
<1>2. Len(s) \in Nat /\ n + 1 \in 1 .. Len(s) /\ n \in Nat
  BY ChainIs
<1>3. key \in DOMAIN Hash /\ key \in A /\ key \notin B
  <2>1. key \in ChainKeys(s)
    BY <1>2 DEF ChainKeys
  <2>2. ChainKeys(s) \subseteq DOMAIN Hash
    BY ChainIs
  <2>3. QED
    BY <2>1, <2>2
<1>4. key \notin FirstKeys(s, n)
  <2> SUFFICES ASSUME NEW j \in 1 .. n, s[j].key = s[n + 1].key PROVE FALSE
    BY DEF FirstKeys
  <2>1. j \in 1 .. Len(s) /\ j # n + 1
    BY <1>2
  <2>2. QED
    BY <1>2, <2>1 DEF GoodChain
<1>5. FirstKeys(s, n + 1) = FirstKeys(s, n) \cup {key}
  <2>1. 1 .. (n + 1) = (1 .. n) \cup {n + 1}
    BY <1>2
  <2>2. QED
    BY <2>1 DEF FirstKeys
<1> HIDE DEF key
<1>6. h = Slot(Hash[key], e2) /\ h \in 0 .. (DICTHT_SIZE(e2) - 1)
  BY <1>3, DictAssumption, SlotIs DEF key
<1>7. GoodChain(U[h], nv) /\ \A k \in ChainKeys(U[h]) : Slot(Hash[k], e2) = h
  BY <1>1, <1>6 DEF GoodTable
<1>8. ChainKeys(U[h]) \subseteq KeysOf(U, e2)
  <2>1. ChainKeys(U[h]) \subseteq DOMAIN Hash
    BY <1>7, ChainIs
  <2>2. QED
    BY <1>7, <2>1 DEF KeysOf
<1>9. key \notin ChainKeys(U[h])
  BY <1>1, <1>3, <1>4, <1>8
<1>10. f.no_value = nv /\ f.table[2] = U
  BY <1>1 DEF FieldsAre, Pair
<1> DEFINE c == Push(f, key, U[h])
           V == [U EXCEPT ![h] = c]
           N == FirstKeys(s, n)
<1>11. GoodChain(c, nv) /\ ChainKeys(c) = ChainKeys(U[h]) \cup {key}
  BY <1>3, <1>7, <1>9, <1>10, PushIs
<1> HIDE DEF c
<1>12. GoodTable(V, e2, 0, nv) /\ KeysOf(V, e2) = (KeysOf(U, e2) \ ChainKeys(U[h])) \cup ChainKeys(c)
  <2>1. Fits(U, e2, 0, nv, h, c)
    BY <1>1, <1>6, <1>7, <1>11 DEF Fits
  <2>2. Fitted(U, e2, 0, nv, h, c)
    BY <2>1, Fitting
  <2>3. QED
    BY <2>2 DEF Fitted
<1>13. KeysOf(V, e2) = B \cup (N \cup {key})
  BY <1>1, <1>8, <1>11, <1>12
<1>14. CountIs((u1 - n) - 1, (A \ N) \ {key}) /\ CountIs((u2 + n) + 1, (B \cup N) \cup {key})
  <2>1. key \in A \ N /\ key \notin B \cup N
    BY <1>3, <1>4
  <2> HIDE DEF N
  <2>2. CountIs(u1 - n, A \ N) /\ CountIs(u2 + n, B \cup N)
    BY <1>1 DEF N
  <2>3. QED
    BY <2>1, <2>2, CountChange
<1>15. (u1 - n) - 1 = u1 - (n + 1) /\ (u2 + n) + 1 = u2 + (n + 1)
  BY <1>2
<1>16. (A \ N) \ {key} = A \ (N \cup {key}) /\ (B \cup N) \cup {key} = B \cup (N \cup {key})
  OBVIOUS
<1>17. CountIs(u1 - (n + 1), A \ (N \cup {key})) /\ CountIs(u2 + (n + 1), B \cup (N \cup {key}))
  <2> DEFINE m1 == (u1 - n) - 1
             m2 == (u2 + n) + 1
             M1 == (A \ N) \ {key}
             M2 == (B \cup N) \cup {key}
  <2>1. CountIs(m1, M1) /\ CountIs(m2, M2)
    BY <1>14
  <2>2. m1 = u1 - (n + 1) /\ m2 = u2 + (n + 1) /\ M1 = A \ (N \cup {key}) /\ M2 = B \cup (N \cup {key})
    BY <1>15, <1>16
  <2> HIDE DEF m1, m2, M1, M2
  <2>3. QED
    BY <2>1, <2>2
<1>18. MoveEntry(f, key, h) = [f EXCEPT !.table[2][h] = c, !.used[1] = @ - 1, !.used[2] = @ + 1]
  BY <1>10 DEF MoveEntry, c
<1>19. FieldsAre([f EXCEPT !.table[2][h] = c, !.used[1] = @ - 1, !.used[2] = @ + 1],
                 T1, V, e1, e2, (u1 - n) - 1, (u2 + n) + 1, r, p, nv, TRUE)
  BY <1>1, WithMoved
<1>20. FieldsAre(MoveEntry(f, key, h), T1, V, e1, e2, u1 - (n + 1), u2 + (n + 1), r, p, nv, TRUE)
  BY <1>15, <1>18, <1>19
<1> HIDE DEF V, N
<1>21. /\ GoodTable(V, e2, 0, nv) /\ KeysOf(V, e2) = B \cup FirstKeys(s, n + 1)
       /\ CountIs(u1 - (n + 1), A \ FirstKeys(s, n + 1)) /\ CountIs(u2 + (n + 1), B \cup FirstKeys(s, n + 1))
  BY <1>5, <1>12, <1>13, <1>17 DEF N
<1>22. QED
  BY <1>20, <1>21 DEF Moved, key

\* The keys of the chain s of bucket idx can move from the first to the second array.
Moving(d, T1, T2, e1, e2, u1, u2, r, p, nv, A, B, s, idx) ==
    /\ e1 \in Nat /\ e2 \in Nat /\ u1 \in Nat /\ u2 \in Nat /\ nv \in BOOLEAN
    /\ A \cap B = {} /\ GoodChain(s, nv) /\ ChainKeys(s) \subseteq A
    /\ FieldsAre(d, T1, T2, e1, e2, u1, u2, r, p, nv, TRUE)
    /\ GoodTable(T2, e2, 0, nv) /\ B = KeysOf(T2, e2) /\ CountIs(u1, A) /\ CountIs(u2, B)
    /\ \A k \in ChainKeys(s) : Slot(Hash[k], e1) = idx

\* And they do.
LEMMA MoveAllIs ==
    ASSUME NEW d, NEW T1, NEW T2, NEW e1, NEW e2, NEW u1, NEW u2, NEW r, NEW p, NEW nv,
           NEW A, NEW B, NEW s, NEW idx, Moving(d, T1, T2, e1, e2, u1, u2, r, p, nv, A, B, s, idx)
    PROVE  Moved(MoveAll(d, idx, d, s), T1, e1, e2, u1, u2, r, p, nv, A, B, s, Len(s))
<1> /\ e1 \in Nat /\ e2 \in Nat /\ u1 \in Nat /\ u2 \in Nat /\ nv \in BOOLEAN
    /\ A \cap B = {} /\ GoodChain(s, nv) /\ ChainKeys(s) \subseteq A
    /\ FieldsAre(d, T1, T2, e1, e2, u1, u2, r, p, nv, TRUE)
    /\ GoodTable(T2, e2, 0, nv) /\ B = KeysOf(T2, e2) /\ CountIs(u1, A) /\ CountIs(u2, B)
    /\ \A k \in ChainKeys(s) : Slot(Hash[k], e1) = idx
  BY DEF Moving
<1> DEFINE I == 0 .. (DICTHT_SIZE(e2) - 1)
           W == [I -> Seq(Entry)]
           R(U, m, n) == Rec(T1, U, e1, e2, m, n, r, p, nv, TRUE)
           D == {R(q[1], q[2], q[3]) : q \in W \X Int \X Int}
<1>1. s \in Seq(Entry) /\ Len(s) \in Nat
  BY ChainIs
<1>2. d.exp[1] = e1 /\ d.exp[2] = e2
  BY DEF FieldsAre, Pair
<1>3. ASSUME NEW U \in W, NEW m \in Int, NEW n \in Int PROVE R(U, m, n) \in D
  <2>1. <<U, m, n>> \in W \X Int \X Int
    <3> HIDE DEF W
    <3>1. QED
      OBVIOUS
  <2>2. <<U, m, n>>[1] = U /\ <<U, m, n>>[2] = m /\ <<U, m, n>>[3] = n
    OBVIOUS
  <2> HIDE DEF R, W
  <2>3. QED
    BY <2>1, <2>2
<1>4. d \in D
  <2>1. d = R(T2, u1, u2)
    BY RecIs
  <2>2. T2 \in W
    <3>1. DOMAIN T2 = I /\ T2 = [i \in DOMAIN T2 |-> T2[i]] /\ \A i \in I : GoodChain(T2[i], nv)
      BY DEF GoodTable
    <3>2. \A i \in I : T2[i] \in Seq(Entry)
      BY <3>1, ChainIs
    <3> HIDE DEF I
    <3>3. QED
      BY <3>1, <3>2
  <2>3. u1 \in Int /\ u2 \in Int
    OBVIOUS
  <2> HIDE DEF R, W, D
  <2>4. QED
    BY <1>3, <2>1, <2>2, <2>3
<1>5. ASSUME NEW x \in Entry, NEW y \in D PROVE MoveStep(d, idx, y, x) \in D
  <2> DEFINE h == Destination(d, x.key, idx)
  <2>1. PICK U \in W, m \in Int, n \in Int : y = R(U, m, n)
    <3> HIDE DEF R, W
    <3>1. PICK q \in W \X Int \X Int : y = R(q[1], q[2], q[3])
      BY <1>5
    <3>2. q[1] \in W /\ q[2] \in Int /\ q[3] \in Int
      OBVIOUS
    <3>3. QED
      BY <3>1, <3>2
  <2>2. FieldsAre(y, T1, U, e1, e2, m, n, r, p, nv, TRUE)
    BY <2>1, RecIs
  <2>3. y.table[2] = U /\ y.no_value = nv
    BY <2>2 DEF FieldsAre, Pair
  <2> HIDE DEF h
  <2> DEFINE c == Push(y, x.key, U[h])
             V == [U EXCEPT ![h] = c]
  <2>4. MoveStep(d, idx, y, x) = [y EXCEPT !.table[2][h] = c, !.used[1] = @ - 1, !.used[2] = @ + 1]
    BY <2>3 DEF MoveStep, MoveEntry, h
  <2>5. FieldsAre(MoveStep(d, idx, y, x), T1, V, e1, e2, m - 1, n + 1, r, p, nv, TRUE)
    <3> HIDE DEF c, R, W, D
    <3>1. FieldsAre([y EXCEPT !.table[2][h] = c, !.used[1] = @ - 1, !.used[2] = @ + 1],
                    T1, V, e1, e2, m - 1, n + 1, r, p, nv, TRUE)
      BY <2>2, WithMoved
    <3>2. QED
      BY <2>4, <3>1
  <2>6. MoveStep(d, idx, y, x) = R(V, m - 1, n + 1)
    <3> HIDE DEF V
    <3>1. QED
      BY <2>5, RecIs
  <2>7. V \in W
    <3>1. CASE h \in I
      <4>1. U[h] \in Seq(Entry)
        BY <3>1
      <4>2. [key |-> x.key, inline |-> y.no_value /\ U[h] = <<>>] \in Entry
        BY <1>5, <2>3 DEF Entry
      <4> DEFINE z == [key |-> x.key, inline |-> y.no_value /\ U[h] = <<>>]
      <4>3. c = <<z>> \o U[h]
        BY DEF Push
      <4> HIDE DEF z
      <4>4. <<z>> \o U[h] \in Seq(Entry)
        BY <4>1, <4>2 DEF z
      <4>5. c \in Seq(Entry)
        BY <4>3, <4>4
      <4> HIDE DEF c, I
      <4>6. QED
        BY <4>5
    <3>2. CASE h \notin I
      <4> HIDE DEF c, I
      <4>1. QED
        BY <3>2
    <3>3. QED
      BY <3>1, <3>2
  <2>8. m - 1 \in Int /\ n + 1 \in Int
    OBVIOUS
  <2> HIDE DEF V, R, W, D
  <2>9. QED
    BY <1>3, <2>6, <2>7, <2>8
<1>6. PICK g : MoveRun(g, d, idx, d, s, D) /\ MoveAll(d, idx, d, s) = g[Len(s)]
  <2> HIDE DEF D
  <2>1. QED
    BY <1>1, <1>4, <1>5, MoveFold
<1> DEFINE Q(n) == Moved(g[n], T1, e1, e2, u1, u2, r, p, nv, A, B, s, n)
           N == Len(s)
           T == {n \in 0 .. N : Q(n)}
<1>7. 0 \in T
  <2>1. g[0] = d
    BY <1>6 DEF MoveRun
  <2>2. FirstKeys(s, 0) = {} /\ u1 - 0 = u1 /\ u2 + 0 = u2
    BY DEF FirstKeys
  <2>3. A \ {} = A /\ B \cup {} = B
    OBVIOUS
  <2>4. Moved(d, T1, e1, e2, u1, u2, r, p, nv, A, B, s, 0)
    BY <2>2, <2>3 DEF Moved
  <2>5. QED
    BY <1>1, <2>1, <2>4
<1>8. ASSUME NEW n \in 0 .. (N - 1), n \in T PROVE n + 1 \in T
  <2>1. n + 1 \in 1 .. N /\ (n + 1) - 1 = n /\ n + 1 \in 0 .. N
    BY <1>1
  <2>2. g[n + 1] = MoveStep(d, idx, g[n], s[n + 1])
    BY <1>6, <2>1 DEF MoveRun
  <2> DEFINE key == s[n + 1].key
             h == Destination(d, key, idx)
  <2>3. key \in ChainKeys(s)
    BY <2>1 DEF ChainKeys
  <2>4. key \in DOMAIN Hash
    BY <2>3, ChainIs
  <2>5. h = Slot(Hash[key], e2)
    BY <1>2, <2>3, <2>4, DestinationIs
  <2>6. g[n + 1] = MoveEntry(g[n], key, h)
    BY <2>2 DEF MoveStep
  <2> HIDE DEF h
  <2>7. Q(n + 1)
    BY <1>8, <2>5, <2>6, MoveOne
  <2>8. QED
    BY <2>1, <2>7
<1>9. N \in T
  <2> HIDE DEF T, N
  <2>1. \A n \in 0 .. N : n \in T
    BY <1>1, <1>7, <1>8, UpTo DEF N
  <2>2. QED
    BY <1>1, <2>1 DEF N
<1>10. QED
  BY <1>6, <1>9

\* The fields of a dict that is rehashing.
LEMMA RehashingIs ==
    ASSUME NEW d, NEW K, GoodDict(d, K), d.rehashidx # -1
    PROVE  /\ d.exp[1] \in Nat /\ d.exp[2] \in Nat /\ d.rehashidx \in 0 .. DICTHT_SIZE(d.exp[1])
           /\ DICTHT_SIZE(d.exp[1]) \in Nat \ {0}
<1>1. d.exp[1] \in Nat /\ d.exp[2] \in Nat /\ d.rehashidx \in -1 .. DICTHT_SIZE(d.exp[1])
  BY DEF GoodDict, GoodFields
<1>2. DICTHT_SIZE(d.exp[1]) \in Nat \ {0}
  BY <1>1, SlotIs
<1>3. QED
  BY <1>1, <1>2

\* f is d without the entries of bucket idx in its first array.
Emptied(f, d, K, idx) ==
    /\ Becomes(f, d, K) /\ f.exp = d.exp /\ f.rehashidx = d.rehashidx /\ f.table[1][idx] = <<>>
    /\ \A j \in 0 .. (DICTHT_SIZE(d.exp[1]) - 1) : j # idx => f.table[1][j] = d.table[1][j]

\* rehashEntriesInBucketAtIndex moves every entry of a bucket to the second array and
\* loses none.
LEMMA RehashEntriesIs ==
    ASSUME NEW d, NEW K, GoodDict(d, K), d.rehashidx # -1,
           NEW idx \in 0 .. (DICTHT_SIZE(d.exp[1]) - 1)
    PROVE  Emptied(rehashEntriesInBucketAtIndex(d, idx), d, K, idx)
<1> DEFINE T1 == d.table[1]
           T2 == d.table[2]
           e1 == d.exp[1]
           e2 == d.exp[2]
           u1 == d.used[1]
           u2 == d.used[2]
           r == d.rehashidx
           p == d.pauseAutoResize
           nv == d.no_value
           A == KeysIn(d, 1)
           B == KeysIn(d, 2)
           s == d.table[1][idx]
           f == MoveAll(d, idx, d, s)
           g == [f EXCEPT !.table[1][idx] = <<>>]
<1>1. FieldsAre(d, T1, T2, e1, e2, u1, u2, r, p, nv, TRUE)
  <2>1. d.asserts = TRUE
    BY DEF GoodDict, GoodFields
  <2>2. QED
    BY <2>1 DEF GoodDict, Shape
<1>2. GoodFields(T1, T2, e1, e2, u1, u2, r, p, nv, TRUE, A, B) /\ K = A \cup B
  <2>1. d.asserts = TRUE
    BY DEF GoodDict, GoodFields
  <2>2. QED
    BY <2>1 DEF GoodDict
<1>3. e1 \in Nat /\ e2 \in Nat
  BY RehashingIs
<1>4. rehashEntriesInBucketAtIndex(d, idx) = g
  BY DEF rehashEntriesInBucketAtIndex, MoveAll
<1>5. d.exp = <<e1, e2>>
  BY <1>1 DEF FieldsAre, Pair
<1> SUFFICES Emptied(g, d, K, idx)
  BY <1>4
<1>6. s = T1[idx] /\ idx \in 0 .. (DICTHT_SIZE(e1) - 1) /\ r # -1
  OBVIOUS
<1>7. nv = d.no_value /\ p = d.pauseAutoResize /\ r = d.rehashidx /\ T1 = d.table[1]
  OBVIOUS
<1> HIDE DEF T1, T2, e1, e2, u1, u2, r, p, nv, A, B, s
<1>8. /\ GoodTable(T1, e1, r, nv) /\ GoodTable(T2, e2, 0, nv) /\ A = KeysOf(T1, e1) /\ B = KeysOf(T2, e2)
      /\ A \cap B = {} /\ CountIs(u1, A) /\ CountIs(u2, B) /\ nv \in BOOLEAN /\ u1 \in Nat /\ u2 \in Nat
  BY <1>2 DEF GoodFields, CountIs
<1>9. GoodChain(s, nv) /\ \A k \in ChainKeys(s) : Slot(Hash[k], e1) = idx
  BY <1>6, <1>8 DEF GoodTable
<1>10. Fits(T1, e1, r, nv, idx, <<>>)
  BY <1>3, <1>6, <1>8, EmptyChain DEF Fits
<1>11. Fitted(T1, e1, r, nv, idx, <<>>)
  BY <1>10, Fitting
<1>12. ChainKeys(s) \subseteq A
  BY <1>6, <1>8, <1>11 DEF Fitted
<1>13. Moved(f, T1, e1, e2, u1, u2, r, p, nv, A, B, s, Len(s))
  <2>1. Moving(d, T1, T2, e1, e2, u1, u2, r, p, nv, A, B, s, idx)
    BY <1>1, <1>3, <1>8, <1>9, <1>12 DEF Moving
  <2>2. QED
    BY <2>1, MoveAllIs
<1> DEFINE n == Len(s)
           C == ChainKeys(s)
<1>14. PICK U : /\ FieldsAre(f, T1, U, e1, e2, u1 - n, u2 + n, r, p, nv, TRUE)
                /\ GoodTable(U, e2, 0, nv) /\ KeysOf(U, e2) = B \cup FirstKeys(s, n)
                /\ CountIs(u1 - n, A \ FirstKeys(s, n)) /\ CountIs(u2 + n, B \cup FirstKeys(s, n))
  BY <1>13 DEF Moved
<1>15. FirstKeys(s, n) = C
  BY DEF FirstKeys, ChainKeys
<1> DEFINE m1 == u1 - n
           m2 == u2 + n
           V == [T1 EXCEPT ![idx] = <<>>]
           c == <<>>
<1>16. FieldsAre(f, T1, U, e1, e2, m1, m2, r, p, nv, TRUE)
  BY <1>14
<1> HIDE DEF f, m1, m2, n, C
<1>17. FieldsAre(g, V, U, e1, e2, m1, m2, r, p, nv, TRUE)
  <2>1. V = [T1 EXCEPT ![idx] = c] /\ g = [f EXCEPT !.table[1][idx] = c]
    OBVIOUS
  <2> HIDE DEF c, V, g
  <2>2. FieldsAre([f EXCEPT !.table[1][idx] = c], [T1 EXCEPT ![idx] = c], U, e1, e2, m1, m2, r, p, nv, TRUE)
    BY <1>16, WithChain
  <2>3. QED
    BY <2>1, <2>2
<1>18. V[idx] = <<>> /\ \A j \in 0 .. (DICTHT_SIZE(e1) - 1) : j # idx => V[j] = T1[j]
  <2>1. DOMAIN T1 = 0 .. (DICTHT_SIZE(e1) - 1)
    BY <1>8 DEF GoodTable
  <2>2. QED
    BY <1>6, <2>1
<1>19. GoodTable(V, e1, r, nv) /\ KeysOf(V, e1) = A \ C
  <2>1. ChainKeys(<<>>) = {} /\ T1[idx] = s
    BY <1>6, EmptyChain
  <2>2. QED
    BY <1>8, <1>11, <2>1 DEF Fitted, C
<1> HIDE DEF g, V
<1>20. GoodFields(V, U, e1, e2, m1, m2, r, p, nv, TRUE, A \ C, B \cup C)
  <2>1. (A \ C) \cap (B \cup C) = {}
    BY <1>8
  <2>2. CountIs(m1, A \ C) /\ CountIs(m2, B \cup C) /\ KeysOf(U, e2) = B \cup C
    BY <1>14, <1>15 DEF m1, m2
  <2>3. QED
    BY <1>2, <1>14, <1>19, <2>1, <2>2 DEF GoodFields
<1>21. /\ GoodDict(g, (A \ C) \cup (B \cup C)) /\ g.no_value = nv /\ g.pauseAutoResize = p
       /\ g.rehashidx = r /\ g.table[1] = V
  BY <1>17, <1>20, FromFields
<1>22. (A \ C) \cup (B \cup C) = K
  BY <1>2, <1>12 DEF C
<1>23. g.exp = <<e1, e2>>
  BY <1>17 DEF FieldsAre, Pair
<1>24. QED
  BY <1>5, <1>7, <1>18, <1>21, <1>22, <1>23 DEF Emptied, Becomes, e1

\* d is sound and holds K: its fields.
LEMMA FieldsOf ==
    ASSUME NEW d, NEW K, GoodDict(d, K)
    PROVE  /\ FieldsAre(d, d.table[1], d.table[2], d.exp[1], d.exp[2], d.used[1], d.used[2], d.rehashidx,
                        d.pauseAutoResize, d.no_value, TRUE)
           /\ GoodFields(d.table[1], d.table[2], d.exp[1], d.exp[2], d.used[1], d.used[2], d.rehashidx,
                         d.pauseAutoResize, d.no_value, TRUE, KeysIn(d, 1), KeysIn(d, 2))
           /\ K = KeysIn(d, 1) \cup KeysIn(d, 2)
<1>1. d.asserts = TRUE
  BY DEF GoodDict, GoodFields
<1>2. QED
  BY <1>1 DEF GoodDict, Shape

\* An array without keys below i too.
LEMMA TableAbove ==
    ASSUME NEW T, NEW e, NEW r, NEW nv, GoodTable(T, e, r, nv), NEW i,
           \A j \in 0 .. (DICTHT_SIZE(e) - 1) : j < i => T[j] = <<>>
    PROVE  GoodTable(T, e, i, nv)
BY DEF GoodTable

\* Rehashing goes on from i.
LEMMA SetIndex ==
    ASSUME NEW d, NEW K, GoodDict(d, K), d.rehashidx # -1, NEW i \in 0 .. DICTHT_SIZE(d.exp[1]),
           \A j \in 0 .. (DICTHT_SIZE(d.exp[1]) - 1) : j < i => d.table[1][j] = <<>>
    PROVE  /\ Becomes([d EXCEPT !.rehashidx = i], d, K) /\ [d EXCEPT !.rehashidx = i].exp = d.exp
           /\ [d EXCEPT !.rehashidx = i].rehashidx = i
<1> DEFINE T1 == d.table[1]
           T2 == d.table[2]
           e1 == d.exp[1]
           e2 == d.exp[2]
           u1 == d.used[1]
           u2 == d.used[2]
           r == d.rehashidx
           p == d.pauseAutoResize
           nv == d.no_value
           A == KeysIn(d, 1)
           B == KeysIn(d, 2)
           f == [d EXCEPT !.rehashidx = i]
<1>1. FieldsAre(d, T1, T2, e1, e2, u1, u2, r, p, nv, TRUE)
  BY FieldsOf
<1>2. GoodFields(T1, T2, e1, e2, u1, u2, r, p, nv, TRUE, A, B) /\ K = A \cup B
  BY FieldsOf
<1>3. d.exp = <<e1, e2>> /\ f.exp = d.exp /\ f.rehashidx = i
  BY <1>1 DEF FieldsAre, Pair, Fields
<1>4. GoodTable(T1, e1, i, nv)
  <2>1. GoodTable(T1, e1, r, nv)
    BY <1>2 DEF GoodFields
  <2>2. QED
    BY <2>1, TableAbove
<1>5. e1 \in Nat /\ e2 \in Nat
  BY RehashingIs
<1>6. i \in -1 .. DICTHT_SIZE(e1) /\ i # -1
  OBVIOUS
<1>7. nv = d.no_value /\ p = d.pauseAutoResize
  OBVIOUS
<1> HIDE DEF T1, T2, e1, e2, u1, u2, r, p, nv, A, B
<1>8. FieldsAre(f, T1, T2, e1, e2, u1, u2, i, p, nv, TRUE)
  BY <1>1, WithIndex
<1>9. GoodFields(T1, T2, e1, e2, u1, u2, i, p, nv, TRUE, A, B)
  BY <1>2, <1>4, <1>5, <1>6 DEF GoodFields
<1> HIDE DEF f
<1>10. GoodDict(f, A \cup B) /\ f.no_value = nv /\ f.pauseAutoResize = p
  BY <1>8, <1>9, FromFields
<1>11. QED
  BY <1>2, <1>3, <1>7, <1>10 DEF Becomes, f

\* What a step of rehashing leaves.
Stepped(f, d, K) ==
    Becomes(f, d, K) /\ (f.rehashidx # -1 => f.exp = d.exp) /\ (d.exp[1] # -1 => f.exp[1] # -1)

\* The second array takes the place of an empty first one.
LEMMA CompletedIs ==
    ASSUME NEW d, NEW K, GoodDict(d, K), d.rehashidx # -1
    PROVE  Stepped(dictCheckRehashingCompleted(d), d, K)
<1> DEFINE T1 == d.table[1]
           T2 == d.table[2]
           e1 == d.exp[1]
           e2 == d.exp[2]
           u1 == d.used[1]
           u2 == d.used[2]
           r == d.rehashidx
           p == d.pauseAutoResize
           nv == d.no_value
           A == KeysIn(d, 1)
           B == KeysIn(d, 2)
           N == EmptyTable(-1)
           none == -1
           zero == 0
           f == [d EXCEPT !.table = <<T2, N>>, !.exp = <<e2, none>>, !.used = <<u2, zero>>,
                          !.rehashidx = none]
<1>1. FieldsAre(d, T1, T2, e1, e2, u1, u2, r, p, nv, TRUE)
  BY FieldsOf
<1>2. GoodFields(T1, T2, e1, e2, u1, u2, r, p, nv, TRUE, A, B) /\ K = A \cup B
  BY FieldsOf
<1>3. CASE d.used[1] # 0
  BY <1>3 DEF dictCheckRehashingCompleted, Stepped, Becomes
<1>4. CASE d.used[1] = 0
  <2>1. dictCheckRehashingCompleted(d) = f
    BY <1>4 DEF dictCheckRehashingCompleted
  <2>2. GoodTable(N, -1, 0, nv) /\ KeysOf(N, -1) = {}
    BY EmptyTableIs
  <2>3. e1 \in Nat /\ e2 \in Nat /\ DICTHT_SIZE(e2) \in Nat
    BY RehashingIs, SlotIs
  <2>4. u1 = 0 /\ nv = d.no_value /\ p = d.pauseAutoResize
    BY <1>4
  <2>5. CountIs(0, {})
    BY FS_EmptySet DEF CountIs
  <2> HIDE DEF T1, T2, e1, e2, u1, u2, r, p, nv, A, B, N, none, zero
  <2>6. FieldsAre(f, T2, N, e2, none, u2, zero, none, p, nv, TRUE)
    BY <1>1, WithAll
  <2> HIDE DEF f
  <2>7. A = {}
    <3>1. CountIs(u1, A)
      BY <1>2 DEF GoodFields
    <3>2. QED
      BY <2>4, <3>1, CountZero
  <2>8. GoodTable(T2, e2, -1, nv)
    <3>1. GoodTable(T2, e2, 0, nv)
      BY <1>2 DEF GoodFields
    <3>2. \A j \in 0 .. (DICTHT_SIZE(e2) - 1) : ~ (j < -1)
      BY <2>3
    <3>3. QED
      BY <3>1, <3>2 DEF GoodTable
  <2>9. GoodFields(T2, N, e2, none, u2, zero, none, p, nv, TRUE, B, {})
    <3>1. -1 \in -1 .. DICTHT_SIZE(e2)
      BY <2>3
    <3>2. QED
      BY <1>2, <2>2, <2>3, <2>5, <2>8, <3>1 DEF GoodFields, none, zero
  <2>10. /\ GoodDict(f, B \cup {}) /\ f.no_value = nv /\ f.pauseAutoResize = p /\ f.rehashidx = none
         /\ f.exp[1] = e2
    BY <2>6, <2>9, FromFields
  <2>11. B \cup {} = K
    BY <1>2, <2>7
  <2>12. QED
    BY <2>1, <2>3, <2>4, <2>10, <2>11 DEF Stepped, Becomes, none
<1>5. QED
  BY <1>3, <1>4

\* A set of numbers has a least one.
LEMMA LeastOf ==
    ASSUME NEW N \in Nat, NEW S \in SUBSET (0 .. N), S # {}
    PROVE  \E m \in S : \A x \in S : m <= x
<1> SUFFICES ASSUME \A m \in S : \E x \in S : ~ (m <= x) PROVE FALSE
  OBVIOUS
<1> DEFINE T == {n \in 0 .. (N + 1) : \A x \in S : x >= n}
<1>1. 0 \in T
  OBVIOUS
<1>2. ASSUME NEW n \in 0 .. ((N + 1) - 1), n \in T PROVE n + 1 \in T
  <2>1. n \notin S
    <3>1. ASSUME n \in S PROVE FALSE
      <4>1. PICK x \in S : ~ (n <= x)
        BY <3>1
      <4>2. x >= n /\ x \in 0 .. N
        BY <1>2
      <4>3. QED
        BY <4>1, <4>2
    <3>2. QED
      BY <3>1
  <2>2. \A x \in S : x \in 0 .. N /\ x >= n /\ x # n
    BY <1>2, <2>1
  <2>3. \A x \in S : x >= n + 1
    BY <2>2
  <2>4. QED
    BY <2>3
<1>3. N + 1 \in T
  <2>1. N + 1 \in Nat
    OBVIOUS
  <2> HIDE DEF T
  <2>2. \A n \in 0 .. (N + 1) : n \in T
    BY <1>1, <1>2, <2>1, UpTo
  <2>3. QED
    BY <2>1, <2>2
<1>4. PICK x \in S : TRUE
  OBVIOUS
<1>5. x \in 0 .. N /\ x >= N + 1
  BY <1>3
<1>6. QED
  BY <1>5

\* NextFull finds a bucket.
LEMMA NextFullIs ==
    ASSUME NEW d, NEW K, GoodDict(d, K), d.rehashidx # -1, d.used[1] # 0
    PROVE  /\ NextFull(d) \in 0 .. (DICTHT_SIZE(d.exp[1]) - 1) /\ NextFull(d) >= d.rehashidx
           /\ \A j \in 0 .. (DICTHT_SIZE(d.exp[1]) - 1) : j < NextFull(d) => d.table[1][j] = <<>>
<1> DEFINE N == DICTHT_SIZE(d.exp[1])
           r == d.rehashidx
           T1 == d.table[1]
           e1 == d.exp[1]
           S == {i \in 0 .. N : i < N /\ i >= r /\ T1[i] # <<>>}
           Ok(i) == T1[i] # <<>> /\ \A j \in r .. (i - 1) : T1[j] = <<>>
<1>1. e1 \in Nat /\ r \in 0 .. N /\ N \in Nat \ {0}
  BY RehashingIs
<1>2. GoodTable(T1, e1, r, d.no_value) /\ CountIs(d.used[1], KeysIn(d, 1)) /\ KeysIn(d, 1) = KeysOf(T1, e1)
  BY FieldsOf DEF GoodFields, KeysIn
<1>3. \A j \in 0 .. (N - 1) : j < r => T1[j] = <<>>
  BY <1>2 DEF GoodTable
<1>4. PICK k : k \in KeysOf(T1, e1)
  BY <1>2, CountZero
<1>5. k \in DOMAIN Hash /\ k \in ChainKeys(T1[Slot(Hash[k], e1)])
  BY <1>4 DEF KeysOf
<1>6. Slot(Hash[k], e1) \in 0 .. (N - 1)
  BY <1>1, <1>5, DictAssumption, SlotIs
<1>7. NextFull(d) = CHOOSE i \in r .. (N - 1) : Ok(i)
  BY DEF NextFull
<1> HIDE DEF N, r, T1, e1
<1>8. Slot(Hash[k], e1) \in S
  <2>1. T1[Slot(Hash[k], e1)] # <<>>
    BY <1>5, EmptyChain
  <2>2. Slot(Hash[k], e1) \in 0 .. N /\ Slot(Hash[k], e1) < N /\ ~ (Slot(Hash[k], e1) < r)
    BY <1>1, <1>3, <1>6, <2>1
  <2>3. QED
    BY <1>1, <2>1, <2>2
<1>9. PICK m \in S : \A x \in S : m <= x
  <2>1. S \in SUBSET (0 .. N) /\ S # {} /\ N \in Nat
    BY <1>1, <1>8
  <2> HIDE DEF S
  <2>2. QED
    BY <2>1, LeastOf
<1>10. m \in r .. (N - 1) /\ Ok(m)
  <2>1. m \in 0 .. N /\ m < N /\ m >= r /\ T1[m] # <<>>
    OBVIOUS
  <2>2. ASSUME NEW j \in r .. (m - 1) PROVE T1[j] = <<>>
    <3>1. j \in 0 .. N /\ j < N /\ j >= r /\ ~ (m <= j)
      BY <1>1, <2>1
    <3>2. j \notin S
      BY <1>9, <3>1
    <3>3. QED
      BY <3>1, <3>2
  <2>3. QED
    BY <1>1, <2>1, <2>2
<1> DEFINE c == NextFull(d)
<1>11. c \in r .. (N - 1) /\ Ok(c)
  <2> HIDE DEF Ok
  <2>1. QED
    BY <1>7, <1>10
<1> HIDE DEF c
<1>12. ASSUME NEW j \in 0 .. (N - 1), j < c PROVE T1[j] = <<>>
  <2>1. CASE j < r
    BY <1>3, <2>1
  <2>2. CASE ~ (j < r)
    <3>1. j \in r .. (c - 1)
      BY <1>1, <1>11, <1>12, <2>2
    <3>2. QED
      BY <1>11, <3>1
  <2>3. QED
    BY <2>1, <2>2
<1>13. c \in 0 .. (N - 1) /\ c >= r
  BY <1>1, <1>11
<1>14. QED
  BY <1>12, <1>13 DEF c, N, r, T1

\* One after the other.
LEMMA Stepping ==
    ASSUME NEW d, NEW f, NEW g, NEW K, Becomes(f, d, K), f.exp = d.exp, Stepped(g, f, K)
    PROVE  Stepped(g, d, K)
BY DEF Stepped, Becomes

\* The first bucket with entries, or a stretch of empty ones.
LEMMA RehashBucketIs ==
    ASSUME NEW d, NEW K, GoodDict(d, K), d.rehashidx # -1, d.used[1] # 0
    PROVE  Stepped(RehashBucket(d, NextFull(d)), d, K)
<1> DEFINE i == NextFull(d)
           N == DICTHT_SIZE(d.exp[1])
<1>1. /\ i \in 0 .. (N - 1) /\ i >= d.rehashidx
      /\ \A j \in 0 .. (N - 1) : j < i => d.table[1][j] = <<>>
  BY NextFullIs
<1>2. N \in Nat \ {0} /\ d.rehashidx \in 0 .. N
  BY RehashingIs
<1>3. EMPTY_VISITS \in Nat
  BY DictAssumption
<1> SUFFICES Stepped(RehashBucket(d, i), d, K)
  OBVIOUS
<1> HIDE DEF i
<1>4. CASE i - d.rehashidx >= EMPTY_VISITS
  <2> DEFINE q == d.rehashidx + EMPTY_VISITS
  <2>1. q \in 0 .. N /\ \A j \in 0 .. (N - 1) : j < q => j < i
    <3> HIDE DEF N
    <3>1. QED
      BY <1>1, <1>2, <1>3, <1>4
  <2>2. RehashBucket(d, i) = [d EXCEPT !.rehashidx = q]
    BY <1>4 DEF RehashBucket
  <2> HIDE DEF q
  <2>3. Becomes([d EXCEPT !.rehashidx = q], d, K) /\ [d EXCEPT !.rehashidx = q].exp = d.exp
    BY <1>1, <2>1, SetIndex
  <2>4. QED
    BY <2>2, <2>3 DEF Stepped
<1>5. CASE ~ (i - d.rehashidx >= EMPTY_VISITS)
  <2> DEFINE f == rehashEntriesInBucketAtIndex(d, i)
             q == i + 1
             g == [f EXCEPT !.rehashidx = q]
  <2>1. RehashBucket(d, i) = dictCheckRehashingCompleted(g)
    BY <1>5 DEF RehashBucket
  <2>2. Emptied(f, d, K, i)
    BY <1>1, RehashEntriesIs
  <2> HIDE DEF f
  <2>3. GoodDict(f, K) /\ f.rehashidx # -1 /\ f.exp = d.exp /\ Becomes(f, d, K)
    BY <2>2 DEF Emptied, Becomes
  <2>4. q \in 0 .. N /\ q # -1
    BY <1>1, <1>2
  <2>5. ASSUME NEW j \in 0 .. (N - 1), j < q PROVE f.table[1][j] = <<>>
    <3>1. CASE j = i
      BY <2>2, <3>1 DEF Emptied
    <3>2. CASE j # i
      <4>1. j < i
        <5> HIDE DEF N
        <5>1. QED
          BY <1>1, <1>2, <2>5, <3>2
      <4>2. QED
        BY <1>1, <2>2, <3>2, <4>1 DEF Emptied
    <3>3. QED
      BY <3>1, <3>2
  <2> HIDE DEF q
  <2>6. Becomes(g, f, K) /\ g.exp = f.exp /\ g.rehashidx = q
    <3>1. q \in 0 .. DICTHT_SIZE(f.exp[1])
      BY <2>3, <2>4
    <3>2. \A j \in 0 .. (DICTHT_SIZE(f.exp[1]) - 1) : j < q => f.table[1][j] = <<>>
      BY <2>3, <2>5
    <3>3. QED
      BY <2>3, <3>1, <3>2, SetIndex
  <2> HIDE DEF g
  <2>7. GoodDict(g, K) /\ g.rehashidx # -1
    BY <2>4, <2>6 DEF Becomes
  <2>8. Stepped(dictCheckRehashingCompleted(g), g, K)
    BY <2>7, CompletedIs
  <2>9. Becomes(g, d, K) /\ g.exp = d.exp
    BY <2>3, <2>6 DEF Becomes
  <2>10. QED
    BY <2>1, <2>8, <2>9, Stepping
<1>6. QED
  BY <1>4, <1>5

\* dictRehash keeps the keys.
LEMMA DictRehashIs ==
    ASSUME NEW d, NEW K, GoodDict(d, K)
    PROVE  Stepped(dictRehash(d), d, K)
<1>1. CASE d.rehashidx = -1
  BY <1>1 DEF dictRehash, dictIsRehashing, Stepped, Becomes
<1>2. CASE d.rehashidx # -1 /\ d.used[1] = 0
  <2>1. dictRehash(d) = dictCheckRehashingCompleted(d)
    BY <1>2 DEF dictRehash, dictIsRehashing
  <2>2. QED
    BY <1>2, <2>1, CompletedIs
<1>3. CASE d.rehashidx # -1 /\ d.used[1] # 0
  <2>1. dictRehash(d) = RehashBucket(d, NextFull(d))
    BY <1>3 DEF dictRehash, dictIsRehashing
  <2>2. QED
    BY <1>3, <2>1, RehashBucketIs
<1>4. QED
  BY <1>1, <1>2, <1>3

\* _dictRehashStepIfNeeded keeps the keys.
LEMMA StepIfNeededIs ==
    ASSUME NEW d, NEW K, GoodDict(d, K), NEW key \in DOMAIN Hash,
           NEW idx, idx = Slot(Hash[key], d.exp[1])
    PROVE  Stepped(_dictRehashStepIfNeeded(d, idx), d, K)
<1>1. CASE dictIsRehashing(d) /\ idx >= d.rehashidx /\ d.table[1][idx] # <<>>
  <2> DEFINE f == rehashEntriesInBucketAtIndex(d, idx)
  <2>1. _dictRehashStepIfNeeded(d, idx) = dictCheckRehashingCompleted(f)
    BY <1>1 DEF _dictRehashStepIfNeeded
  <2>2. d.rehashidx # -1
    BY <1>1 DEF dictIsRehashing
  <2>3. d.exp[1] \in Nat
    BY <2>2, RehashingIs
  <2>4. idx \in 0 .. (DICTHT_SIZE(d.exp[1]) - 1)
    BY <2>3, DictAssumption, SlotIs
  <2>5. Emptied(f, d, K, idx)
    BY <2>2, <2>4, RehashEntriesIs
  <2> HIDE DEF f
  <2>6. GoodDict(f, K) /\ f.rehashidx # -1 /\ f.exp = d.exp /\ Becomes(f, d, K)
    BY <2>2, <2>5 DEF Emptied, Becomes
  <2>7. Stepped(dictCheckRehashingCompleted(f), f, K)
    BY <2>6, CompletedIs
  <2>8. QED
    BY <2>1, <2>6, <2>7, Stepping
<1>2. CASE ~ (dictIsRehashing(d) /\ idx >= d.rehashidx /\ d.table[1][idx] # <<>>)
  <2>1. _dictRehashStepIfNeeded(d, idx) = dictRehash(d)
    BY <1>2 DEF _dictRehashStepIfNeeded
  <2>2. QED
    BY <2>1, DictRehashIs
<1>3. QED
  BY <1>1, <1>2

-----------------------------------------------------------------------------
(* Looking up, adding, deleting. *)

\* The array that takes new keys, and the bucket of a key in array t.
Accepting(d) == IF d.rehashidx = -1 THEN 1 ELSE 2

Where(d, key, t) == <<t, Slot(Hash[key], d.exp[t])>>

\* r is the right answer to a search for key in a dict that holds K.
Answers(r, d, K, key) ==
    /\ r.dict = d /\ r.bucket = Where(d, key, Accepting(d))
    /\ r.found = NoLink <=> key \notin K
    /\ key \in K => \E t \in {1, 2} : r.found = Where(d, key, t) /\ key \in KeysIn(d, t)

\* Position tells whether array t holds the key.
LEMMA PositionInArray ==
    ASSUME NEW d, NEW K, GoodDict(d, K), NEW key \in DOMAIN Hash, NEW t \in {1, 2}, d.exp[t] # -1
    PROVE  Position(d.table[t][Slot(Hash[key], d.exp[t])], key) > 0 <=> key \in KeysIn(d, t)
<1> DEFINE T == d.table[t]
           e == d.exp[t]
           i == Slot(Hash[key], e)
<1>1. \E r : GoodTable(T, e, r, d.no_value)
  BY FieldsOf DEF GoodFields
<1>2. e \in Nat
  <2>1. d.exp[1] \in Nat \cup {-1} /\ d.exp[2] \in Nat \cup {-1}
    BY FieldsOf DEF GoodFields
  <2>2. QED
    BY <2>1
<1>3. i \in 0 .. (DICTHT_SIZE(e) - 1)
  BY <1>2, DictAssumption, SlotIs
<1>4. GoodChain(T[i], d.no_value)
  BY <1>1, <1>3 DEF GoodTable
<1>5. Position(T[i], key) > 0 <=> key \in ChainKeys(T[i])
  BY <1>4, PositionIs
<1>6. key \in KeysIn(d, t) <=> key \in ChainKeys(T[i])
  BY <1>2 DEF KeysIn, KeysOf
<1>7. QED
  BY <1>5, <1>6

\* The index taken before the step is good for the dict after it.
GoodIndex(d, key, idx) == idx \in Nat /\ (d.rehashidx > 0 => idx = Slot(Hash[key], d.exp[1]))

\* LinkAfterStep answers right.
LEMMA LinkIs ==
    ASSUME NEW d, NEW K, GoodDict(d, K), NEW key \in DOMAIN Hash, d.exp[1] # -1,
           NEW idx, GoodIndex(d, key, idx)
    PROVE  Answers(LinkAfterStep(d, key, idx), d, K, key)
<1> DEFINE tables == Searched(d, idx)
           full == {t \in tables : Position(d.table[t][Slot(Hash[key], d.exp[t])], key) > 0}
           Link(t) == <<t, Slot(Hash[key], d.exp[t])>>
           r == LinkAfterStep(d, key, idx)
<1>1. /\ r.dict = d
      /\ r.found = IF 1 \in full THEN Link(1) ELSE IF 2 \in full THEN Link(2) ELSE NoLink
      /\ r.bucket = IF 2 \in tables THEN Link(2) ELSE IF 1 \in tables THEN Link(1) ELSE NoLink
  BY DEF LinkAfterStep, LinksIn
<1>2. tables = {t \in {1, 2} : (t = 1 => idx >= d.rehashidx) /\ (t = 2 => d.rehashidx # -1)}
  BY DEF Searched, dictIsRehashing
<1>3. /\ d.exp[1] \in Nat /\ (d.rehashidx = -1 <=> d.exp[2] = -1) /\ K = KeysIn(d, 1) \cup KeysIn(d, 2)
      /\ GoodTable(d.table[1], d.exp[1], d.rehashidx, d.no_value) /\ idx \in Nat
      /\ d.rehashidx \in -1 .. DICTHT_SIZE(d.exp[1])
  BY FieldsOf DEF GoodFields, GoodIndex
<1>4. DICTHT_SIZE(d.exp[1]) \in Nat /\ d.rehashidx \in Int
  BY <1>3, SlotIs
<1>5. 1 \in full <=> key \in KeysIn(d, 1)
  <2>1. Position(d.table[1][Slot(Hash[key], d.exp[1])], key) > 0 <=> key \in KeysIn(d, 1)
    BY PositionInArray
  <2>2. ASSUME key \in KeysIn(d, 1) PROVE idx >= d.rehashidx
    <3>1. CASE d.rehashidx > 0
      <4>1. idx = Slot(Hash[key], d.exp[1])
        BY <3>1 DEF GoodIndex
      <4>2. key \in ChainKeys(d.table[1][idx])
        BY <2>2, <4>1 DEF KeysIn, KeysOf
      <4>3. d.table[1][idx] # <<>>
        BY <4>2, EmptyChain
      <4>4. idx \in 0 .. (DICTHT_SIZE(d.exp[1]) - 1)
        BY <1>3, <4>1, DictAssumption, SlotIs
      <4>5. ~ (idx < d.rehashidx)
        BY <1>3, <4>3, <4>4 DEF GoodTable
      <4>6. QED
        BY <1>3, <1>4, <4>5
    <3>2. CASE ~ (d.rehashidx > 0)
      BY <1>3, <1>4, <3>2
    <3>3. QED
      BY <3>1, <3>2
  <2>3. QED
    BY <1>2, <2>1, <2>2
<1>6. 2 \in full <=> key \in KeysIn(d, 2)
  <2>1. CASE d.exp[2] = -1
    BY <1>2, <1>3, <2>1 DEF KeysIn, KeysOf
  <2>2. CASE d.exp[2] # -1
    <3>1. Position(d.table[2][Slot(Hash[key], d.exp[2])], key) > 0 <=> key \in KeysIn(d, 2)
      BY <2>2, PositionInArray
    <3>2. 2 \in tables
      BY <1>2, <1>3, <2>2
    <3>3. QED
      BY <3>1, <3>2
  <2>3. QED
    BY <2>1, <2>2
<1>7. r.bucket = Link(Accepting(d))
  <2>1. CASE d.rehashidx = -1
    <3>1. 1 \in tables /\ 2 \notin tables
      BY <1>2, <1>3, <2>1
    <3>2. QED
      BY <1>1, <2>1, <3>1 DEF Accepting
  <2>2. CASE d.rehashidx # -1
    <3>1. 2 \in tables
      BY <1>2, <2>2
    <3>2. QED
      BY <1>1, <2>2, <3>1 DEF Accepting
  <2>3. QED
    BY <2>1, <2>2
<1>8. Link(1) # NoLink /\ Link(2) # NoLink
  BY DEF NoLink
<1> HIDE DEF r, full, tables
<1>9. r.found = NoLink <=> key \notin K
  BY <1>1, <1>3, <1>5, <1>6, <1>8
<1>10. ASSUME key \in K PROVE \E t \in {1, 2} : r.found = Where(d, key, t) /\ key \in KeysIn(d, t)
  <2>1. CASE key \in KeysIn(d, 1)
    <3>1. r.found = Where(d, key, 1)
      BY <1>1, <1>5, <2>1 DEF Where
    <3>2. QED
      BY <2>1, <3>1
  <2>2. CASE key \notin KeysIn(d, 1)
    <3>1. key \in KeysIn(d, 2)
      BY <1>3, <1>10, <2>2
    <3>2. r.found = Where(d, key, 2)
      BY <1>1, <1>5, <1>6, <2>2, <3>1 DEF Where
    <3>3. QED
      BY <3>1, <3>2
  <2>3. QED
    BY <2>1, <2>2
<1>11. QED
  BY <1>1, <1>7, <1>9, <1>10 DEF Answers, Where, r

\* The same, and f is d after steps of rehashing.
Finds(r, d, K, key) ==
    \E f : Becomes(f, d, K) /\ f.exp[1] # -1 /\ Answers(r, f, K, key)

\* A slot is a number.
LEMMA SlotNat ==
    ASSUME NEW h \in Nat, NEW e \in Nat \cup {-1}
    PROVE  Slot(h, e) \in Nat
<1>1. CASE e = -1
  BY <1>1 DEF Slot
<1>2. CASE e # -1
  <2>1. Slot(h, e) \in 0 .. (DICTHT_SIZE(e) - 1) /\ DICTHT_SIZE(e) \in Nat
    BY <1>2, SlotIs
  <2>2. QED
    BY <2>1
<1>3. QED
  BY <1>1, <1>2

\* dictFindLinkInternal, in a dict with an array.
LEMMA FindInternalIs ==
    ASSUME NEW d, NEW K, GoodDict(d, K), NEW key \in DOMAIN Hash, d.exp[1] # -1
    PROVE  Finds(dictFindLinkInternal(d, key), d, K, key)
<1> DEFINE idx == Slot(Hash[key], d.exp[1])
           f == _dictRehashStepIfNeeded(d, idx)
<1>1. dictFindLinkInternal(d, key) = LinkAfterStep(f, key, idx)
  BY DEF dictFindLinkInternal
<1>2. Stepped(f, d, K)
  BY StepIfNeededIs
<1>3. idx \in Nat
  <2>1. d.exp[1] \in Nat \cup {-1} /\ Hash[key] \in Nat
    BY FieldsOf, DictAssumption DEF GoodFields
  <2>2. QED
    BY <2>1, SlotNat
<1>4. GoodDict(f, K) /\ f.exp[1] # -1 /\ Becomes(f, d, K)
  BY <1>2 DEF Stepped, Becomes
<1> HIDE DEF f
<1>5. GoodIndex(f, key, idx)
  <2>1. f.rehashidx > 0 => f.exp = d.exp
    <3>1. f.rehashidx > 0 => f.rehashidx # -1
      OBVIOUS
    <3>2. QED
      BY <1>2, <3>1 DEF Stepped
  <2>2. QED
    BY <1>3, <2>1 DEF GoodIndex
<1> HIDE DEF idx
<1>6. Answers(LinkAfterStep(f, key, idx), f, K, key)
  BY <1>4, <1>5, LinkIs
<1>7. QED
  BY <1>1, <1>4, <1>6 DEF Finds

\* A dict with keys has an array.
LEMMA ArrayOf ==
    ASSUME NEW d, NEW K, GoodDict(d, K), K # {}
    PROVE  d.exp[1] # -1
<1> SUFFICES ASSUME d.exp[1] = -1 PROVE FALSE
  OBVIOUS
<1>1. d.exp[2] = -1
  BY FieldsOf DEF GoodFields
<1>2. KeysIn(d, 1) = {} /\ KeysIn(d, 2) = {}
  BY <1>1 DEF KeysIn, KeysOf
<1>3. QED
  BY <1>2, FieldsOf

\* What dictFindLink returns: whether the key is there, and where it would go.
Found(r, d, K, key) ==
    /\ Becomes(r.dict, d, K) /\ (r.found # NoLink <=> key \in K)
    /\ r.bucket = NoLink \/ (r.bucket = Where(r.dict, key, Accepting(r.dict)) /\ r.dict.exp[1] # -1)

\* dictFindLink finds a key in whichever array it is, in the middle of a rehash
\* too, and moves entries without losing one.
THEOREM DictFindIs ==
    ASSUME NEW d, NEW K, GoodDict(d, K), NEW key \in DOMAIN Hash
    PROVE  Found(dictFindLink(d, key), d, K, key)
<1>1. dictSize(d) = 0 <=> K = {}
  BY DictFinite
<1>2. CASE dictSize(d) = 0
  <2>1. dictFindLink(d, key) = [dict |-> d, found |-> NoLink, bucket |-> NoLink]
    BY <1>2 DEF dictFindLink
  <2>2. QED
    BY <1>1, <1>2, <2>1 DEF Found, Becomes
<1>3. CASE dictSize(d) # 0
  <2> DEFINE r == dictFindLinkInternal(d, key)
  <2>1. dictFindLink(d, key) = r
    BY <1>3 DEF dictFindLink
  <2>2. Finds(r, d, K, key)
    BY <1>1, <1>3, ArrayOf, FindInternalIs
  <2> HIDE DEF r
  <2>3. PICK f : Becomes(f, d, K) /\ f.exp[1] # -1 /\ Answers(r, f, K, key)
    BY <2>2 DEF Finds
  <2>4. QED
    BY <2>1, <2>3 DEF Answers, Found
<1>4. QED
  BY <1>2, <1>3

\* A new key at the bucket a search gave.
LEMMA InsertAtLinkIs ==
    ASSUME NEW d, NEW K, GoodDict(d, K), NEW key \in DOMAIN Hash, key \notin K, d.exp[1] # -1
    PROVE  Becomes(dictInsertKeyAtLink(d, key, Where(d, key, Accepting(d))), d, K \cup {key})
<1> DEFINE T1 == d.table[1]
           T2 == d.table[2]
           e1 == d.exp[1]
           e2 == d.exp[2]
           u1 == d.used[1]
           u2 == d.used[2]
           r == d.rehashidx
           p == d.pauseAutoResize
           nv == d.no_value
           A == KeysIn(d, 1)
           B == KeysIn(d, 2)
<1>1. FieldsAre(d, T1, T2, e1, e2, u1, u2, r, p, nv, TRUE)
  BY FieldsOf
<1>2. GoodFields(T1, T2, e1, e2, u1, u2, r, p, nv, TRUE, A, B) /\ K = A \cup B
  BY FieldsOf
<1>3. nv = d.no_value /\ p = d.pauseAutoResize /\ r = d.rehashidx /\ e1 # -1
  OBVIOUS
<1>4. key \notin A /\ key \notin B /\ Hash[key] \in Nat
  BY <1>2, DictAssumption
<1>5. CASE r = -1
  <2> DEFINE i == Slot(Hash[key], e1)
             c == Push(d, key, T1[i])
             f == [d EXCEPT !.table[1][i] = c, !.used[1] = u1 + 1]
             V == [T1 EXCEPT ![i] = c]
             n == u1 + 1
  <2>1. e1 \in Nat
    BY <1>2, <1>3 DEF GoodFields
  <2>2. i \in 0 .. (DICTHT_SIZE(e1) - 1)
    BY <1>4, <2>1, SlotIs
  <2>3. GoodTable(T1, e1, r, nv) /\ A = KeysOf(T1, e1) /\ CountIs(u1, A) /\ nv \in BOOLEAN
    BY <1>2 DEF GoodFields
  <2>4. i \in DOMAIN T1
    BY <2>2, <2>3 DEF GoodTable
  <2>5. dictInsertKeyAtLink(d, key, Where(d, key, Accepting(d))) = f
    <3>1. Accepting(d) = 1 /\ ~ dictIsRehashing(d)
      BY <1>5 DEF Accepting, dictIsRehashing
    <3>2. Where(d, key, 1) = <<1, i>> /\ <<1, i>>[1] = 1 /\ <<1, i>>[2] = i
      BY DEF Where
    <3>3. QED
      BY <2>4, <3>1, <3>2 DEF dictInsertKeyAtLink
  <2>6. GoodChain(T1[i], nv) /\ \A k \in ChainKeys(T1[i]) : Slot(Hash[k], e1) = i
    BY <2>2, <2>3 DEF GoodTable
  <2>7. key \notin ChainKeys(T1[i])
    BY <1>4, <2>1, <2>3 DEF KeysOf
  <2>8. GoodChain(c, nv) /\ ChainKeys(c) = ChainKeys(T1[i]) \cup {key}
    BY <2>3, <2>6, <2>7, PushIs
  <2> SUFFICES Becomes(f, d, K \cup {key})
    BY <2>5
  <2> HIDE DEF c
  <2>9. Fits(T1, e1, r, nv, i, c)
    <3>1. ~ (i < r)
      BY <1>5, <2>1, <2>2, SlotIs, <1>4
    <3>2. QED
      BY <2>1, <2>2, <2>3, <2>6, <2>8, <3>1 DEF Fits
  <2> HIDE DEF T1, T2, e1, e2, u1, u2, r, p, nv, A, B, i
  <2>10. Fitted(T1, e1, r, nv, i, c)
    BY <2>9, Fitting
  <2>11. GoodTable(V, e1, r, nv) /\ KeysOf(V, e1) = A \cup {key}
    BY <2>3, <2>8, <2>10 DEF Fitted
  <2>12. CountIs(n, A \cup {key})
    BY <1>4, <2>3, CountChange
  <2>13. FieldsAre(f, V, T2, e1, e2, n, u2, r, p, nv, TRUE)
    <3>1. f = [d EXCEPT !.table[1][i] = c, !.used[1] = n]
      OBVIOUS
    <3> HIDE DEF n, f
    <3>2. FieldsAre([d EXCEPT !.table[1][i] = c, !.used[1] = n], V, T2, e1, e2, n, u2, r, p, nv, TRUE)
      BY <1>1, WithChain
    <3>3. QED
      BY <3>1, <3>2
  <2> HIDE DEF n, f, V
  <2>14. GoodFields(V, T2, e1, e2, n, u2, r, p, nv, TRUE, A \cup {key}, B)
    <3>1. (A \cup {key}) \cap B = {}
      BY <1>2, <1>4 DEF GoodFields
    <3>2. QED
      BY <1>2, <2>11, <2>12, <3>1 DEF GoodFields
  <2>15. GoodDict(f, (A \cup {key}) \cup B) /\ f.no_value = nv /\ f.pauseAutoResize = p
    BY <2>13, <2>14, FromFields
  <2>16. (A \cup {key}) \cup B = K \cup {key}
    BY <1>2
  <2>17. QED
    BY <1>3, <2>15, <2>16 DEF Becomes
<1>6. CASE r # -1
  <2> DEFINE i == Slot(Hash[key], e2)
             c == Push(d, key, T2[i])
             f == [d EXCEPT !.table[2][i] = c, !.used[2] = u2 + 1]
             V == [T2 EXCEPT ![i] = c]
             n == u2 + 1
  <2>1. e2 \in Nat
    BY <1>2, <1>6 DEF GoodFields
  <2>2. i \in 0 .. (DICTHT_SIZE(e2) - 1)
    BY <1>4, <2>1, SlotIs
  <2>3. GoodTable(T2, e2, 0, nv) /\ B = KeysOf(T2, e2) /\ CountIs(u2, B) /\ nv \in BOOLEAN
    BY <1>2 DEF GoodFields
  <2>4. i \in DOMAIN T2
    BY <2>2, <2>3 DEF GoodTable
  <2>5. dictInsertKeyAtLink(d, key, Where(d, key, Accepting(d))) = f
    <3>1. Accepting(d) = 2 /\ dictIsRehashing(d)
      BY <1>6 DEF Accepting, dictIsRehashing
    <3>2. Where(d, key, 2) = <<2, i>> /\ <<2, i>>[1] = 2 /\ <<2, i>>[2] = i
      BY DEF Where
    <3>3. QED
      BY <2>4, <3>1, <3>2 DEF dictInsertKeyAtLink
  <2>6. GoodChain(T2[i], nv) /\ \A k \in ChainKeys(T2[i]) : Slot(Hash[k], e2) = i
    BY <2>2, <2>3 DEF GoodTable
  <2>7. key \notin ChainKeys(T2[i])
    BY <1>4, <2>1, <2>3 DEF KeysOf
  <2>8. GoodChain(c, nv) /\ ChainKeys(c) = ChainKeys(T2[i]) \cup {key}
    BY <2>3, <2>6, <2>7, PushIs
  <2> SUFFICES Becomes(f, d, K \cup {key})
    BY <2>5
  <2> HIDE DEF c
  <2>9. Fits(T2, e2, 0, nv, i, c)
    BY <2>1, <2>2, <2>3, <2>6, <2>8 DEF Fits
  <2> HIDE DEF T1, T2, e1, e2, u1, u2, r, p, nv, A, B, i
  <2>10. Fitted(T2, e2, 0, nv, i, c)
    BY <2>9, Fitting
  <2>11. GoodTable(V, e2, 0, nv) /\ KeysOf(V, e2) = B \cup {key}
    BY <2>3, <2>8, <2>10 DEF Fitted
  <2>12. CountIs(n, B \cup {key})
    BY <1>4, <2>3, CountChange
  <2>13. FieldsAre(f, T1, V, e1, e2, u1, n, r, p, nv, TRUE)
    <3>1. f = [d EXCEPT !.table[2][i] = c, !.used[2] = n]
      OBVIOUS
    <3> HIDE DEF n, f
    <3>2. FieldsAre([d EXCEPT !.table[2][i] = c, !.used[2] = n], T1, V, e1, e2, u1, n, r, p, nv, TRUE)
      BY <1>1, WithChain
    <3>3. QED
      BY <3>1, <3>2
  <2> HIDE DEF n, f, V
  <2>14. GoodFields(T1, V, e1, e2, u1, n, r, p, nv, TRUE, A, B \cup {key})
    <3>1. A \cap (B \cup {key}) = {}
      BY <1>2, <1>4 DEF GoodFields
    <3>2. QED
      BY <1>2, <2>11, <2>12, <3>1 DEF GoodFields
  <2>15. GoodDict(f, A \cup (B \cup {key})) /\ f.no_value = nv /\ f.pauseAutoResize = p
    BY <2>13, <2>14, FromFields
  <2>16. A \cup (B \cup {key}) = K \cup {key}
    BY <1>2
  <2>17. QED
    BY <1>3, <2>15, <2>16 DEF Becomes
<1>7. QED
  BY <1>5, <1>6

\* A key taken out of the first array.
LEMMA UnlinkFirst ==
    ASSUME NEW d, NEW K, GoodDict(d, K), NEW key \in DOMAIN Hash, key \in KeysIn(d, 1)
    PROVE  Becomes(Unlink(d, key, Where(d, key, 1)), d, K \ {key})
<1> DEFINE T1 == d.table[1]
           T2 == d.table[2]
           e1 == d.exp[1]
           e2 == d.exp[2]
           u1 == d.used[1]
           u2 == d.used[2]
           r == d.rehashidx
           p == d.pauseAutoResize
           nv == d.no_value
           A == KeysIn(d, 1)
           B == KeysIn(d, 2)
<1>1. FieldsAre(d, T1, T2, e1, e2, u1, u2, r, p, nv, TRUE)
  BY FieldsOf
<1>2. GoodFields(T1, T2, e1, e2, u1, u2, r, p, nv, TRUE, A, B) /\ K = A \cup B
  BY FieldsOf
<1>3. nv = d.no_value /\ p = d.pauseAutoResize
  OBVIOUS
<1>4. Hash[key] \in Nat /\ A \cap B = {}
  BY <1>2, DictAssumption DEF GoodFields
<1>5. QED
  <2> DEFINE i == Slot(Hash[key], e1)
             c == RemoveAt(T1[i], Position(T1[i], key))
             f == [d EXCEPT !.table[1][i] = c, !.used[1] = u1 - 1]
             V == [T1 EXCEPT ![i] = c]
             n == u1 - 1
  <2>1. key \in A
    OBVIOUS
  <2>2. GoodTable(T1, e1, r, nv) /\ A = KeysOf(T1, e1) /\ CountIs(u1, A)
    BY <1>2 DEF GoodFields
  <2>3. e1 \in Nat /\ key \in ChainKeys(T1[i])
    BY <1>2, <2>1, <2>2 DEF KeysOf, GoodFields
  <2>4. i \in 0 .. (DICTHT_SIZE(e1) - 1)
    BY <1>4, <2>3, SlotIs
  <2>5. Unlink(d, key, Where(d, key, 1)) = f
    <3>1. Where(d, key, 1) = <<1, i>> /\ <<1, i>>[1] = 1 /\ <<1, i>>[2] = i
      BY DEF Where
    <3>2. QED
      BY <3>1 DEF Unlink
  <2>6. GoodChain(T1[i], nv) /\ (i < r => T1[i] = <<>>) /\ \A k \in ChainKeys(T1[i]) : Slot(Hash[k], e1) = i
    BY <2>2, <2>4 DEF GoodTable
  <2>7. GoodChain(c, nv) /\ ChainKeys(c) = ChainKeys(T1[i]) \ {key}
    BY <2>3, <2>6, ChainRemove
  <2> SUFFICES Becomes(f, d, K \ {key})
    BY <2>5
  <2> HIDE DEF c
  <2>8. Fits(T1, e1, r, nv, i, c)
    <3>1. ~ (i < r)
      BY <2>3, <2>6, EmptyChain
    <3>2. QED
      BY <2>2, <2>3, <2>4, <2>6, <2>7, <3>1 DEF Fits
  <2> HIDE DEF T1, T2, e1, e2, u1, u2, r, p, nv, A, B, i
  <2>9. Fitted(T1, e1, r, nv, i, c)
    BY <2>8, Fitting
  <2>10. GoodTable(V, e1, r, nv) /\ KeysOf(V, e1) = A \ {key}
    BY <2>2, <2>3, <2>7, <2>9 DEF Fitted
  <2>11. CountIs(n, A \ {key})
    BY <2>1, <2>2, CountChange
  <2>12. FieldsAre(f, V, T2, e1, e2, n, u2, r, p, nv, TRUE)
    <3>1. f = [d EXCEPT !.table[1][i] = c, !.used[1] = n]
      OBVIOUS
    <3> HIDE DEF n, f
    <3>2. FieldsAre([d EXCEPT !.table[1][i] = c, !.used[1] = n], V, T2, e1, e2, n, u2, r, p, nv, TRUE)
      BY <1>1, WithChain
    <3>3. QED
      BY <3>1, <3>2
  <2> HIDE DEF n, f, V
  <2>13. GoodFields(V, T2, e1, e2, n, u2, r, p, nv, TRUE, A \ {key}, B)
    <3>1. (A \ {key}) \cap B = {}
      BY <1>4
    <3>2. QED
      BY <1>2, <2>10, <2>11, <3>1 DEF GoodFields
  <2>14. GoodDict(f, (A \ {key}) \cup B) /\ f.no_value = nv /\ f.pauseAutoResize = p
    <3> DEFINE C == A \ {key}
    <3>1. GoodFields(V, T2, e1, e2, n, u2, r, p, nv, TRUE, C, B)
      BY <2>13
    <3> SUFFICES GoodDict(f, C \cup B) /\ f.no_value = nv /\ f.pauseAutoResize = p
      OBVIOUS
    <3> HIDE DEF C
    <3>2. QED
      BY <2>12, <3>1, FromFields
  <2>15. (A \ {key}) \cup B = K \ {key}
    BY <1>2, <1>4, <2>1
  <2>16. QED
    BY <1>3, <2>14, <2>15 DEF Becomes

\* A key taken out of the second array.
LEMMA UnlinkSecond ==
    ASSUME NEW d, NEW K, GoodDict(d, K), NEW key \in DOMAIN Hash, key \in KeysIn(d, 2)
    PROVE  Becomes(Unlink(d, key, Where(d, key, 2)), d, K \ {key})
<1> DEFINE T1 == d.table[1]
           T2 == d.table[2]
           e1 == d.exp[1]
           e2 == d.exp[2]
           u1 == d.used[1]
           u2 == d.used[2]
           r == d.rehashidx
           p == d.pauseAutoResize
           nv == d.no_value
           A == KeysIn(d, 1)
           B == KeysIn(d, 2)
<1>1. FieldsAre(d, T1, T2, e1, e2, u1, u2, r, p, nv, TRUE)
  BY FieldsOf
<1>2. GoodFields(T1, T2, e1, e2, u1, u2, r, p, nv, TRUE, A, B) /\ K = A \cup B
  BY FieldsOf
<1>3. nv = d.no_value /\ p = d.pauseAutoResize
  OBVIOUS
<1>4. Hash[key] \in Nat /\ A \cap B = {}
  BY <1>2, DictAssumption DEF GoodFields
<1>5. QED
  <2> DEFINE i == Slot(Hash[key], e2)
             c == RemoveAt(T2[i], Position(T2[i], key))
             f == [d EXCEPT !.table[2][i] = c, !.used[2] = u2 - 1]
             V == [T2 EXCEPT ![i] = c]
             n == u2 - 1
  <2>1. key \in B
    OBVIOUS
  <2>2. GoodTable(T2, e2, 0, nv) /\ B = KeysOf(T2, e2) /\ CountIs(u2, B)
    BY <1>2 DEF GoodFields
  <2>3. e2 \in Nat /\ key \in ChainKeys(T2[i])
    BY <1>2, <2>1, <2>2 DEF KeysOf, GoodFields
  <2>4. i \in 0 .. (DICTHT_SIZE(e2) - 1)
    BY <1>4, <2>3, SlotIs
  <2>5. Unlink(d, key, Where(d, key, 2)) = f
    <3>1. Where(d, key, 2) = <<2, i>> /\ <<2, i>>[1] = 2 /\ <<2, i>>[2] = i
      BY DEF Where
    <3>2. QED
      BY <3>1 DEF Unlink
  <2>6. GoodChain(T2[i], nv) /\ \A k \in ChainKeys(T2[i]) : Slot(Hash[k], e2) = i
    BY <2>2, <2>4 DEF GoodTable
  <2>7. GoodChain(c, nv) /\ ChainKeys(c) = ChainKeys(T2[i]) \ {key}
    BY <2>3, <2>6, ChainRemove
  <2> SUFFICES Becomes(f, d, K \ {key})
    BY <2>5
  <2> HIDE DEF c
  <2>8. Fits(T2, e2, 0, nv, i, c)
    BY <2>2, <2>3, <2>4, <2>6, <2>7 DEF Fits
  <2> HIDE DEF T1, T2, e1, e2, u1, u2, r, p, nv, A, B, i
  <2>9. Fitted(T2, e2, 0, nv, i, c)
    BY <2>8, Fitting
  <2>10. GoodTable(V, e2, 0, nv) /\ KeysOf(V, e2) = B \ {key}
    BY <2>2, <2>3, <2>7, <2>9 DEF Fitted
  <2>11. CountIs(n, B \ {key})
    BY <2>1, <2>2, CountChange
  <2>12. FieldsAre(f, T1, V, e1, e2, u1, n, r, p, nv, TRUE)
    <3>1. f = [d EXCEPT !.table[2][i] = c, !.used[2] = n]
      OBVIOUS
    <3> HIDE DEF n, f
    <3>2. FieldsAre([d EXCEPT !.table[2][i] = c, !.used[2] = n], T1, V, e1, e2, u1, n, r, p, nv, TRUE)
      BY <1>1, WithChain
    <3>3. QED
      BY <3>1, <3>2
  <2> HIDE DEF n, f, V
  <2>13. GoodFields(T1, V, e1, e2, u1, n, r, p, nv, TRUE, A, B \ {key})
    <3>1. A \cap (B \ {key}) = {}
      BY <1>4
    <3>2. QED
      BY <1>2, <2>10, <2>11, <3>1 DEF GoodFields
  <2>14. GoodDict(f, A \cup (B \ {key})) /\ f.no_value = nv /\ f.pauseAutoResize = p
    <3> DEFINE C == B \ {key}
    <3>1. GoodFields(T1, V, e1, e2, u1, n, r, p, nv, TRUE, A, C)
      BY <2>13
    <3> SUFFICES GoodDict(f, A \cup C) /\ f.no_value = nv /\ f.pauseAutoResize = p
      OBVIOUS
    <3> HIDE DEF C
    <3>2. QED
      BY <2>12, <3>1, FromFields
  <2>15. A \cup (B \ {key}) = K \ {key}
    BY <1>2, <1>4, <2>1
  <2>16. QED
    BY <1>3, <2>14, <2>15 DEF Becomes

\* Where dictFindLink() says a new key goes; it may say nothing of an empty dict.
GoodBucket(d, key, link) ==
    link = NoLink \/ (link = Where(d, key, Accepting(d)) /\ d.exp[1] # -1)

\* A search for a key that is not there, and its insertion.
LEMMA InsertFound ==
    ASSUME NEW d, NEW K, NEW key \in DOMAIN Hash, key \notin K, NEW r, Finds(r, d, K, key)
    PROVE  /\ r.found = NoLink
           /\ Becomes(dictInsertKeyAtLink(r.dict, key, r.bucket), d, K \cup {key})
<1>1. PICK f : Becomes(f, d, K) /\ f.exp[1] # -1 /\ Answers(r, f, K, key)
  BY DEF Finds
<1>2. r.dict = f /\ r.bucket = Where(f, key, Accepting(f)) /\ r.found = NoLink
  BY <1>1 DEF Answers
<1>3. Becomes(dictInsertKeyAtLink(f, key, Where(f, key, Accepting(f))), f, K \cup {key})
  BY <1>1, InsertAtLinkIs DEF Becomes
<1>4. QED
  BY <1>1, <1>2, <1>3 DEF Becomes

\* dictSetKeyAtLink adds the key exactly once: a link that dictExpandIfNeeded()
\* made stale is looked up again, and the assertions on it hold.
THEOREM DictSetKeyAtLinkIs ==
    ASSUME NEW d, NEW K, GoodDict(d, K), NEW key \in DOMAIN Hash, key \notin K,
           NEW link, GoodBucket(d, key, link)
    PROVE  Becomes(dictSetKeyAtLink(d, key, link), d, K \cup {key})
<1> DEFINE e == dictExpandIfNeeded(d)
           r == dictFindLinkInternal(e, key)
<1>1. Resized(e, d, K)
  BY ExpandIfNeededIs
<1>2. dictSetKeyAtLink(d, key, link) = InsertExpanded(d, e, key, link)
  BY DEF dictSetKeyAtLink
<1> HIDE DEF e
<1>3. GoodDict(e, K) /\ e.exp[1] # -1 /\ Becomes(e, d, K)
  BY <1>1 DEF Resized, Becomes
<1>4. CASE e.exp # d.exp \/ link = NoLink
  <2> DEFINE f == [r.dict EXCEPT !.asserts = @ /\ r.found = NoLink]
  <2>1. InsertExpanded(d, e, key, link) = dictInsertKeyAtLink(f, key, r.bucket)
    BY <1>4 DEF InsertExpanded
  <2>2. Finds(r, e, K, key)
    BY <1>3, FindInternalIs
  <2> HIDE DEF r
  <2>3. r.found = NoLink /\ Becomes(dictInsertKeyAtLink(r.dict, key, r.bucket), e, K \cup {key})
    BY <2>2, InsertFound
  <2>4. f = r.dict
    <3>1. PICK h : GoodDict(h, K) /\ r.dict = h
      BY <2>2 DEF Finds, Answers, Becomes
    <3>2. h.asserts = TRUE /\ h = [x \in DOMAIN h |-> h[x]] /\ DOMAIN h = Fields
      BY <3>1 DEF GoodDict, GoodFields, Shape, FieldsAre
    <3>3. (h.asserts /\ r.found = NoLink) = h.asserts
      BY <2>3, <3>2
    <3>4. [h EXCEPT !.asserts = h.asserts] = h
      BY <3>2
    <3>5. f = [h EXCEPT !.asserts = h.asserts]
      BY <3>1, <3>3
    <3>6. QED
      BY <3>1, <3>4, <3>5
  <2> HIDE DEF f
  <2>5. QED
    BY <1>2, <1>3, <2>1, <2>3, <2>4 DEF Becomes
<1>5. CASE ~ (e.exp # d.exp \/ link = NoLink)
  <2>1. InsertExpanded(d, e, key, link) = dictInsertKeyAtLink(e, key, link)
    BY <1>5 DEF InsertExpanded
  <2>2. e = d
    BY <1>1, <1>5 DEF Resized
  <2>3. link = Where(d, key, Accepting(d)) /\ d.exp[1] # -1
    BY <1>5 DEF GoodBucket
  <2>4. QED
    BY <1>2, <2>1, <2>2, <2>3, InsertAtLinkIs
<1>6. QED
  BY <1>4, <1>5

\* dictAdd adds a key that is not there and leaves alone one that is, the step of
\* rehashing and the growth on the way included.
THEOREM DictAddIs ==
    ASSUME NEW d, NEW K, GoodDict(d, K), NEW key \in DOMAIN Hash,
           d.pauseAutoResize = 0 \/ d.exp[1] # -1
    PROVE  Becomes(dictAdd(d, key), d, K \cup {key})
<1> DEFINE idx == Slot(Hash[key], d.exp[1])
           f == _dictRehashStepIfNeeded(d, idx)
           g == _dictExpandIfNeeded(f)
           r == LinkAfterStep(g, key, idx)
<1>1. dictAdd(d, key) = InsertUnlessFound(r, key)
  BY DEF dictAdd
<1>2. Stepped(f, d, K)
  BY StepIfNeededIs
<1>3. idx \in Nat
  <2>1. d.exp[1] \in Nat \cup {-1} /\ Hash[key] \in Nat
    BY FieldsOf, DictAssumption DEF GoodFields
  <2>2. QED
    BY <2>1, SlotNat
<1> HIDE DEF f
<1>4. GoodDict(f, K) /\ Becomes(f, d, K)
  BY <1>2 DEF Stepped, Becomes
<1>5. Becomes(g, f, K) /\ g.exp[1] # -1 /\ (g.rehashidx > 0 => g = f)
  <2>1. CASE f.pauseAutoResize > 0
    <3>1. g = f
      BY <2>1 DEF _dictExpandIfNeeded
    <3>2. d.exp[1] # -1
      BY <1>4, <2>1 DEF Becomes
    <3>3. QED
      BY <1>2, <1>4, <3>1, <3>2 DEF Becomes, Stepped
  <2>2. CASE ~ (f.pauseAutoResize > 0)
    <3>1. g = dictExpandIfNeeded(f)
      BY <2>2 DEF _dictExpandIfNeeded
    <3>2. Resized(dictExpandIfNeeded(f), f, K)
      BY <1>4, ExpandIfNeededIs
    <3>3. QED
      BY <3>1, <3>2 DEF Resized
  <2>3. QED
    BY <2>1, <2>2
<1> HIDE DEF g
<1>6. GoodDict(g, K) /\ Becomes(g, d, K)
  BY <1>4, <1>5 DEF Becomes
<1>7. GoodIndex(g, key, idx)
  <2>1. g.rehashidx > 0 => g.exp = d.exp
    <3>1. g.rehashidx > 0 => g.rehashidx # -1
      OBVIOUS
    <3>2. QED
      BY <1>2, <1>5, <3>1 DEF Stepped
  <2>2. QED
    BY <1>3, <2>1 DEF GoodIndex
<1> HIDE DEF idx
<1>8. Answers(r, g, K, key)
  BY <1>5, <1>6, <1>7, LinkIs
<1> HIDE DEF r
<1>9. CASE key \in K
  <2>1. r.found # NoLink /\ r.dict = g
    BY <1>8, <1>9 DEF Answers
  <2>2. InsertUnlessFound(r, key) = g
    BY <2>1 DEF InsertUnlessFound
  <2>3. K \cup {key} = K
    BY <1>9
  <2>4. QED
    BY <1>1, <1>6, <2>2, <2>3
<1>10. CASE key \notin K
  <2>1. r.found = NoLink
    BY <1>8, <1>10 DEF Answers
  <2>2. InsertUnlessFound(r, key) = dictInsertKeyAtLink(r.dict, key, r.bucket)
    BY <2>1 DEF InsertUnlessFound
  <2>3. Finds(r, d, K, key)
    BY <1>5, <1>6, <1>8 DEF Finds
  <2>4. Becomes(dictInsertKeyAtLink(r.dict, key, r.bucket), d, K \cup {key})
    BY <1>10, <2>3, InsertFound
  <2>5. QED
    BY <1>1, <2>2, <2>4
<1>11. QED
  BY <1>9, <1>10

\* What a deletion returns.
Deleted(r, d, K, key) == Becomes(r.dict, d, K \ {key}) /\ (r.found # NoLink <=> key \in K)

\* dictUnlink and dictDelete take out the key, from whichever array it is in, and
\* say whether it was there; shrinking afterwards loses nothing.
THEOREM DictDeleteIs ==
    ASSUME NEW d, NEW K, GoodDict(d, K), NEW key \in DOMAIN Hash
    PROVE  Deleted(dictGenericDelete(d, key), d, K, key)
<1>1. dictSize(d) = 0 <=> K = {}
  BY DictFinite
<1>2. CASE dictSize(d) = 0
  <2>1. dictGenericDelete(d, key) = [dict |-> d, found |-> NoLink, bucket |-> NoLink]
    BY <1>2 DEF dictGenericDelete
  <2>2. K \ {key} = K /\ key \notin K
    BY <1>1, <1>2
  <2>3. QED
    BY <2>1, <2>2 DEF Deleted, Becomes
<1>3. CASE dictSize(d) # 0
  <2> DEFINE r == dictFindLinkInternal(d, key)
  <2>1. dictGenericDelete(d, key) = DeleteAt(r, key)
    BY <1>3 DEF dictGenericDelete
  <2>2. Finds(r, d, K, key)
    BY <1>1, <1>3, ArrayOf, FindInternalIs
  <2>a. r = [dict |-> r.dict, found |-> r.found, bucket |-> r.bucket]
    BY DEF dictFindLinkInternal, LinkAfterStep, LinksIn
  <2> HIDE DEF r
  <2>3. PICK f : Becomes(f, d, K) /\ f.exp[1] # -1 /\ Answers(r, f, K, key)
    BY <2>2 DEF Finds
  <2>4. r.dict = f /\ (r.found = NoLink <=> key \notin K)
    BY <2>3 DEF Answers
  <2>5. CASE key \notin K
    <3>1. DeleteAt(r, key) = r /\ K \ {key} = K
      BY <2>4, <2>5 DEF DeleteAt
    <3>2. QED
      BY <2>1, <2>3, <2>4, <2>5, <3>1 DEF Deleted
  <2>6. CASE key \in K
    <3> DEFINE u == Unlink(r.dict, key, r.found)
               v == _dictShrinkIfNeeded(u)
    <3>1. DeleteAt(r, key) = [r EXCEPT !.dict = v]
      BY <2>4, <2>6 DEF DeleteAt
    <3>2. PICK t \in {1, 2} : r.found = Where(f, key, t) /\ key \in KeysIn(f, t)
      BY <2>3, <2>6 DEF Answers
    <3>3. Becomes(u, f, K \ {key})
      <4>1. GoodDict(f, K)
        BY <2>3 DEF Becomes
      <4>2. CASE t = 1
        <5>1. key \in KeysIn(f, 1) /\ u = Unlink(f, key, Where(f, key, 1))
          BY <2>4, <3>2, <4>2
        <5> HIDE DEF u
        <5>2. QED
          BY <4>1, <5>1, UnlinkFirst
      <4>3. CASE t = 2
        <5>1. key \in KeysIn(f, 2) /\ u = Unlink(f, key, Where(f, key, 2))
          BY <2>4, <3>2, <4>3
        <5> HIDE DEF u
        <5>2. QED
          BY <4>1, <5>1, UnlinkSecond
      <4>4. QED
        BY <4>2, <4>3
    <3> HIDE DEF u
    <3>4. Becomes(v, u, K \ {key})
      <4>1. GoodDict(u, K \ {key})
        BY <3>3 DEF Becomes
      <4>2. v = u \/ v = dictShrinkIfNeeded(u)
        BY DEF _dictShrinkIfNeeded
      <4>3. Becomes(dictShrinkIfNeeded(u), u, K \ {key})
        BY <4>1, ShrinkIfNeededIs
      <4>4. QED
        BY <4>1, <4>2, <4>3 DEF Becomes
    <3> HIDE DEF v
    <3>5. Becomes(v, d, K \ {key})
      BY <2>3, <3>3, <3>4 DEF Becomes
    <3>6. DeleteAt(r, key).dict = v /\ DeleteAt(r, key).found = r.found
      BY <2>a, <3>1
    <3>7. QED
      BY <2>1, <2>4, <2>6, <3>5, <3>6 DEF Deleted
  <2>7. QED
    BY <2>5, <2>6
<1>4. QED
  BY <1>2, <1>3

\* Pausing and resuming.
LEMMA PauseIs ==
    ASSUME NEW d, NEW K, GoodDict(d, K), NEW n \in Nat
    PROVE  /\ GoodDict([d EXCEPT !.pauseAutoResize = n], K)
           /\ [d EXCEPT !.pauseAutoResize = n].pauseAutoResize = n
           /\ [d EXCEPT !.pauseAutoResize = n].no_value = d.no_value
<1> DEFINE T1 == d.table[1]
           T2 == d.table[2]
           e1 == d.exp[1]
           e2 == d.exp[2]
           u1 == d.used[1]
           u2 == d.used[2]
           r == d.rehashidx
           p == d.pauseAutoResize
           nv == d.no_value
           A == KeysIn(d, 1)
           B == KeysIn(d, 2)
           f == [d EXCEPT !.pauseAutoResize = n]
<1>1. FieldsAre(d, T1, T2, e1, e2, u1, u2, r, p, nv, TRUE)
  BY FieldsOf
<1>2. GoodFields(T1, T2, e1, e2, u1, u2, r, p, nv, TRUE, A, B) /\ K = A \cup B
  BY FieldsOf
<1>3. nv = d.no_value
  OBVIOUS
<1> HIDE DEF T1, T2, e1, e2, u1, u2, r, p, nv, A, B
<1>4. FieldsAre(f, T1, T2, e1, e2, u1, u2, r, n, nv, TRUE)
  BY <1>1, WithIndex
<1>5. GoodFields(T1, T2, e1, e2, u1, u2, r, n, nv, TRUE, A, B)
  BY <1>2 DEF GoodFields
<1> HIDE DEF f
<1>6. GoodDict(f, A \cup B) /\ f.no_value = nv /\ f.pauseAutoResize = n
  BY <1>4, <1>5, FromFields
<1>7. QED
  BY <1>2, <1>3, <1>6 DEF f

\* The pause of resizing nests, and changes nothing else.
THEOREM DictPauseIs ==
    ASSUME NEW d, NEW K, GoodDict(d, K)
    PROVE  /\ GoodDict(dictPauseAutoResize(d), K)
           /\ dictPauseAutoResize(d).pauseAutoResize = d.pauseAutoResize + 1
           /\ d.pauseAutoResize > 0 =>
                  GoodDict(dictResumeAutoResize(d), K)
                  /\ dictResumeAutoResize(d).pauseAutoResize = d.pauseAutoResize - 1
<1> DEFINE p == d.pauseAutoResize
           m == p + 1
           n == p - 1
<1>1. p \in Nat
  BY FieldsOf DEF GoodFields
<1>2. dictPauseAutoResize(d) = [d EXCEPT !.pauseAutoResize = m]
  BY DEF dictPauseAutoResize
<1>3. dictResumeAutoResize(d) = [d EXCEPT !.pauseAutoResize = n]
  BY DEF dictResumeAutoResize
<1>4. m \in Nat /\ (p > 0 => n \in Nat)
  BY <1>1
<1> HIDE DEF m, n
<1>5. GoodDict([d EXCEPT !.pauseAutoResize = m], K) /\ [d EXCEPT !.pauseAutoResize = m].pauseAutoResize = m
  BY <1>4, PauseIs
<1>6. n \in Nat => GoodDict([d EXCEPT !.pauseAutoResize = n], K) /\ [d EXCEPT !.pauseAutoResize = n].pauseAutoResize = n
  BY PauseIs
<1>7. QED
  BY <1>2, <1>3, <1>4, <1>5, <1>6 DEF m, n

-----------------------------------------------------------------------------
(* Folds over the buckets and over the calls of dictRehash. *)

Upto(n) == [i \in 1 .. n |-> i]

\* 1, 2, ..., n.
LEMMA UptoIs ==
    ASSUME NEW n \in Nat
    PROVE  Upto(n) \in Seq(Nat) /\ Len(Upto(n)) = n /\ \A i \in 1 .. n : Upto(n)[i] = i
BY DEF Upto

\* The loop of dictGetSomeKeys.
RehashAll(b, s) == FoldLeft(LAMBDA e, i : dictRehash(e), b, s)

\* The keys of a chain, first to last.
KeysInOrder(c) == [j \in 1 .. Len(c) |-> c[j].key]

\* The loop of an iterator over the buckets of one array.
KeysFrom(T, b, s) ==
    FoldLeft(LAMBDA a, i : a \o [j \in 1 .. Len(T[i - 1]) |-> T[i - 1][j].key], b, s)

\* One step of RehashAll and the values of its accumulator.
RehashStep(acc, x) == dictRehash(acc)

RehashRun(g, b, s, D) ==
    /\ g \in [0 .. Len(s) -> D] /\ g[0] = b
    /\ \A n \in 1 .. Len(s) : g[n] = RehashStep(g[n - 1], s[n])

\* RehashAll computes the last one.
LEMMA RehashFold ==
    ASSUME NEW S, NEW s \in Seq(S), NEW D, NEW b \in D,
           \A x \in S : \A y \in D : RehashStep(y, x) \in D
    PROVE  \E g : RehashRun(g, b, s, D) /\ RehashAll(b, s) = g[Len(s)]
<1> DEFINE N == Len(s)
           F == [p \in (1 .. N) \X D |-> RehashStep(p[2], s[p[1]])]
           Eqn(it) == it = [V \in SUBSET (1 .. N) |->
                        IF V = {} THEN b ELSE RehashStep(it[V \ {Max(V)}], s[Max(V)])]
           it == CHOOSE it : Eqn(it)
<1>1. N \in Nat /\ DOMAIN s = 1 .. N
  OBVIOUS
<1>2. \A i \in 1 .. N : s[i] \in S
  BY ElementOfSeq
<1>3. F \in [(1 .. N) \X D -> D]
  BY <1>2
<1>4. \E jt : Eqn(jt)
  <2>1. PICK jt \in [SUBSET (1 .. N) -> D] : Iterates(jt, N, b, F)
    <3> HIDE DEF F, N
    <3>1. QED
      BY <1>1, <1>3, IteratorExists
  <2>2. ASSUME NEW V \in SUBSET (1 .. N), V # {}
        PROVE  F[<<Max(V), jt[V \ {Max(V)}]>>] = RehashStep(jt[V \ {Max(V)}], s[Max(V)])
    <3>1. Max(V) \in 1 .. N /\ V \ {Max(V)} \in SUBSET (1 .. N)
      BY <2>2, <1>1, MaxOfPart
    <3>2. jt[V \ {Max(V)}] \in D
      BY <3>1
    <3>3. QED
      BY <3>1, <3>2
  <2>3. Eqn(jt)
    <3> HIDE DEF F, N
    <3>1. QED
      BY <2>1, <2>2 DEF Iterates
  <2>4. QED
    BY <2>3
<1>5. Eqn(it)
  <2> HIDE DEF Eqn
  <2>1. QED
    BY <1>4
<1>6. RehashAll(b, s) = it[1 .. N]
  BY <1>1 DEF RehashAll, FoldLeft, MapThenFoldSet, RehashStep
<1> HIDE DEF it
<1>7. it[{}] = b
  BY <1>5
<1>8. ASSUME NEW n \in 1 .. N
      PROVE  it[1 .. n] = RehashStep(it[1 .. (n - 1)], s[n])
  <2>1. /\ 1 .. n \in SUBSET (1 .. N) /\ 1 .. n # {}
        /\ Max(1 .. n) = n /\ (1 .. n) \ {n} = 1 .. (n - 1)
    BY <1>1, MaxOfInitial
  <2>2. it[1 .. n] = RehashStep(it[(1 .. n) \ {Max(1 .. n)}], s[Max(1 .. n)])
    BY <1>5, <2>1
  <2>3. QED
    BY <2>1, <2>2
<1>9. ASSUME NEW n \in 1 .. N, it[1 .. (n - 1)] \in D
      PROVE  it[1 .. n] = F[<<n, it[1 .. (n - 1)]>>]
  BY <1>8, <1>9
<1> DEFINE g == [n \in 0 .. N |-> it[1 .. n]]
<1>10. Accumulates(g, N, b, F, D)
  <2> HIDE DEF F, N, Eqn
  <2>1. QED
    BY <1>1, <1>3, <1>7, <1>9, AccumulatorOf
<1>11. g[N] = it[1 .. N]
  BY <1>1
<1>12. ASSUME NEW n \in 1 .. N PROVE g[n] = RehashStep(g[n - 1], s[n])
  <2>1. n \in 0 .. N /\ n - 1 \in 0 .. N
    BY <1>1
  <2>2. QED
    BY <1>8, <2>1
<1>13. RehashRun(g, b, s, D)
  <2> HIDE DEF g, F, Eqn
  <2>1. QED
    BY <1>10, <1>12 DEF RehashRun, Accumulates
<1>14. QED
  <2> HIDE DEF g
  <2>1. QED
    BY <1>6, <1>11, <1>13

\* One step of KeysFrom and the values of its accumulator.
KeysStep(T, acc, x) == acc \o [j \in 1 .. Len(T[x - 1]) |-> T[x - 1][j].key]

KeysRun(g, T, b, s, D) ==
    /\ g \in [0 .. Len(s) -> D] /\ g[0] = b
    /\ \A n \in 1 .. Len(s) : g[n] = KeysStep(T, g[n - 1], s[n])

\* KeysFrom computes the last one.
LEMMA KeysFold ==
    ASSUME NEW T, NEW S, NEW s \in Seq(S), NEW D, NEW b \in D,
           \A x \in S : \A y \in D : KeysStep(T, y, x) \in D
    PROVE  \E g : KeysRun(g, T, b, s, D) /\ KeysFrom(T, b, s) = g[Len(s)]
<1> DEFINE N == Len(s)
           F == [p \in (1 .. N) \X D |-> KeysStep(T, p[2], s[p[1]])]
           Eqn(it) == it = [V \in SUBSET (1 .. N) |->
                        IF V = {} THEN b ELSE KeysStep(T, it[V \ {Max(V)}], s[Max(V)])]
           it == CHOOSE it : Eqn(it)
<1>1. N \in Nat /\ DOMAIN s = 1 .. N
  OBVIOUS
<1>2. \A i \in 1 .. N : s[i] \in S
  BY ElementOfSeq
<1>3. F \in [(1 .. N) \X D -> D]
  BY <1>2
<1>4. \E jt : Eqn(jt)
  <2>1. PICK jt \in [SUBSET (1 .. N) -> D] : Iterates(jt, N, b, F)
    <3> HIDE DEF F, N
    <3>1. QED
      BY <1>1, <1>3, IteratorExists
  <2>2. ASSUME NEW V \in SUBSET (1 .. N), V # {}
        PROVE  F[<<Max(V), jt[V \ {Max(V)}]>>] = KeysStep(T, jt[V \ {Max(V)}], s[Max(V)])
    <3>1. Max(V) \in 1 .. N /\ V \ {Max(V)} \in SUBSET (1 .. N)
      BY <2>2, <1>1, MaxOfPart
    <3>2. jt[V \ {Max(V)}] \in D
      BY <3>1
    <3>3. QED
      BY <3>1, <3>2
  <2>3. Eqn(jt)
    <3> HIDE DEF F, N
    <3>1. QED
      BY <2>1, <2>2 DEF Iterates
  <2>4. QED
    BY <2>3
<1>5. Eqn(it)
  <2> HIDE DEF Eqn
  <2>1. QED
    BY <1>4
<1>6. KeysFrom(T, b, s) = it[1 .. N]
  BY <1>1 DEF KeysFrom, FoldLeft, MapThenFoldSet, KeysStep
<1> HIDE DEF it
<1>7. it[{}] = b
  BY <1>5
<1>8. ASSUME NEW n \in 1 .. N
      PROVE  it[1 .. n] = KeysStep(T, it[1 .. (n - 1)], s[n])
  <2>1. /\ 1 .. n \in SUBSET (1 .. N) /\ 1 .. n # {}
        /\ Max(1 .. n) = n /\ (1 .. n) \ {n} = 1 .. (n - 1)
    BY <1>1, MaxOfInitial
  <2>2. it[1 .. n] = KeysStep(T, it[(1 .. n) \ {Max(1 .. n)}], s[Max(1 .. n)])
    BY <1>5, <2>1
  <2>3. QED
    BY <2>1, <2>2
<1>9. ASSUME NEW n \in 1 .. N, it[1 .. (n - 1)] \in D
      PROVE  it[1 .. n] = F[<<n, it[1 .. (n - 1)]>>]
  BY <1>8, <1>9
<1> DEFINE g == [n \in 0 .. N |-> it[1 .. n]]
<1>10. Accumulates(g, N, b, F, D)
  <2> HIDE DEF F, N, Eqn
  <2>1. QED
    BY <1>1, <1>3, <1>7, <1>9, AccumulatorOf
<1>11. g[N] = it[1 .. N]
  BY <1>1
<1>12. ASSUME NEW n \in 1 .. N PROVE g[n] = KeysStep(T, g[n - 1], s[n])
  <2>1. n \in 0 .. N /\ n - 1 \in 0 .. N
    BY <1>1
  <2>2. QED
    BY <1>8, <2>1
<1>13. KeysRun(g, T, b, s, D)
  <2> HIDE DEF g, F, Eqn
  <2>1. QED
    BY <1>10, <1>12 DEF KeysRun, Accumulates
<1>14. QED
  <2> HIDE DEF g
  <2>1. QED
    BY <1>6, <1>11, <1>13

\* The values that a dict takes.
Arrays == UNION {[0 .. (n - 1) -> Seq(Entry)] : n \in Nat}

Dicts ==
    [table : Arrays \X Arrays, exp : Int \X Int, used : Int \X Int, rehashidx : Int,
     pauseAutoResize : Int, no_value : BOOLEAN, asserts : BOOLEAN]

\* A sound array is one.
LEMMA ArrayIs ==
    ASSUME NEW T, NEW e \in Nat \cup {-1}, NEW r, NEW nv, GoodTable(T, e, r, nv)
    PROVE  T \in Arrays
<1> DEFINE N == DICTHT_SIZE(e)
<1>1. N \in Nat
  <2>1. CASE e = -1
    BY <2>1 DEF DICTHT_SIZE
  <2>2. CASE e # -1
    BY <2>2, SlotIs
  <2>3. QED
    BY <2>1, <2>2
<1>2. DOMAIN T = 0 .. (N - 1) /\ T = [i \in DOMAIN T |-> T[i]] /\ \A i \in 0 .. (N - 1) : GoodChain(T[i], nv)
  BY DEF GoodTable
<1> HIDE DEF N
<1>3. \A i \in 0 .. (N - 1) : T[i] \in Seq(Entry)
  BY <1>2, ChainIs
<1>4. T \in [0 .. (N - 1) -> Seq(Entry)]
  BY <1>2, <1>3
<1>5. QED
  BY <1>1, <1>4 DEF Arrays

\* A sound dict is one.
LEMMA DictIs ==
    ASSUME NEW d, NEW K, GoodDict(d, K)
    PROVE  d \in Dicts
<1>1. /\ d.exp[1] \in Int /\ d.exp[2] \in Int /\ d.used[1] \in Int /\ d.used[2] \in Int
      /\ d.rehashidx \in Int /\ d.pauseAutoResize \in Int /\ d.no_value \in BOOLEAN
      /\ d.exp[1] \in Nat \cup {-1} /\ d.exp[2] \in Nat \cup {-1}
  <2>1. /\ d.exp[1] \in Nat \cup {-1} /\ d.exp[2] \in Nat \cup {-1} /\ d.used[1] \in Nat /\ d.used[2] \in Nat
        /\ d.rehashidx \in -1 .. DICTHT_SIZE(d.exp[1]) /\ d.pauseAutoResize \in Nat /\ d.no_value \in BOOLEAN
    BY FieldsOf DEF GoodFields, CountIs
  <2>2. QED
    BY <2>1
<1>2. d.table[1] \in Arrays /\ d.table[2] \in Arrays
  <2>1. /\ GoodTable(d.table[1], d.exp[1], d.rehashidx, d.no_value)
        /\ GoodTable(d.table[2], d.exp[2], 0, d.no_value)
    BY FieldsOf DEF GoodFields
  <2>2. QED
    BY <1>1, <2>1, ArrayIs
<1>3. d = Rec(d.table[1], d.table[2], d.exp[1], d.exp[2], d.used[1], d.used[2], d.rehashidx,
              d.pauseAutoResize, d.no_value, TRUE)
  BY FieldsOf, RecIs
<1> DEFINE T1 == d.table[1]
           T2 == d.table[2]
           e1 == d.exp[1]
           e2 == d.exp[2]
           u1 == d.used[1]
           u2 == d.used[2]
           r == d.rehashidx
           p == d.pauseAutoResize
           nv == d.no_value
<1>4. d = Rec(T1, T2, e1, e2, u1, u2, r, p, nv, TRUE)
  BY <1>3
<1>5. T1 \in Arrays /\ T2 \in Arrays /\ e1 \in Int /\ e2 \in Int /\ u1 \in Int /\ u2 \in Int
      /\ r \in Int /\ p \in Int /\ nv \in BOOLEAN
  BY <1>1, <1>2
<1> HIDE DEF T1, T2, e1, e2, u1, u2, r, p, nv
<1>6. <<T1, T2>> \in Arrays \X Arrays /\ <<e1, e2>> \in Int \X Int /\ <<u1, u2>> \in Int \X Int
  BY <1>5
<1>7. Rec(T1, T2, e1, e2, u1, u2, r, p, nv, TRUE) \in Dicts
  BY <1>5, <1>6 DEF Rec, Dicts
<1>8. QED
  BY <1>4, <1>7

\* However often a random pick steps the rehash, it loses no key.
THEOREM DictGetSomeKeysIs ==
    ASSUME NEW d, NEW K, GoodDict(d, K), NEW count \in Nat
    PROVE  Becomes(dictGetSomeKeys(d, count), d, K)
<1> DEFINE D == {f \in Dicts : Becomes(f, d, K)}
           s == Upto(count)
<1>1. dictGetSomeKeys(d, count) = RehashAll(d, s)
  BY DEF dictGetSomeKeys, RehashAll, Upto
<1>2. s \in Seq(Nat) /\ Len(s) = count
  BY UptoIs
<1>3. d \in D
  BY DictIs DEF Becomes
<1>4. ASSUME NEW x \in Nat, NEW y \in D PROVE RehashStep(y, x) \in D
  <2>1. GoodDict(y, K) /\ Becomes(y, d, K)
    BY DEF Becomes
  <2>2. Stepped(dictRehash(y), y, K)
    BY <2>1, DictRehashIs
  <2>3. Becomes(dictRehash(y), d, K) /\ GoodDict(dictRehash(y), K)
    BY <2>1, <2>2 DEF Stepped, Becomes
  <2>4. dictRehash(y) \in Dicts
    BY <2>3, DictIs
  <2>5. QED
    BY <2>3, <2>4 DEF RehashStep
<1> HIDE DEF s, D
<1>5. PICK g : RehashRun(g, d, s, D) /\ RehashAll(d, s) = g[Len(s)]
  BY <1>2, <1>3, <1>4, RehashFold
<1>6. g[Len(s)] \in D
  BY <1>2, <1>5 DEF RehashRun
<1>7. QED
  BY <1>1, <1>5, <1>6 DEF D

-----------------------------------------------------------------------------
(* The contents. *)

\* Two sequences without repetition and without a common element.
LEMMA JoinInjective ==
    ASSUME NEW S, NEW a \in Seq(S), NEW b \in Seq(S), IsInjective(a), IsInjective(b),
           ToSet(a) \cap ToSet(b) = {}
    PROVE  IsInjective(a \o b)
<1> DEFINE t == a \o b
           m == Len(a)
           n == Len(b)
<1>1. /\ t \in Seq(S) /\ m \in Nat /\ n \in Nat /\ Len(t) = m + n
      /\ (\A i \in 1 .. m : t[i] = a[i]) /\ (\A i \in 1 .. n : t[m + i] = b[i])
  <2>1. t \in Seq(S) /\ Joined(a, b)
    BY Join
  <2>2. QED
    BY <2>1 DEF Joined
<1>2. DOMAIN a = 1 .. m /\ DOMAIN b = 1 .. n
  OBVIOUS
<1>3. DOMAIN t = 1 .. (m + n)
  BY <1>1
<1> HIDE DEF t, m, n
<1>4. \A i \in 1 .. (m + n) : i \in 1 .. m \/ (i - m \in 1 .. n /\ m + (i - m) = i)
  BY <1>1
<1>5. \A i \in 1 .. (m + n) : i \notin 1 .. m => i - m \in 1 .. n /\ t[i] = b[i - m]
  <2> SUFFICES ASSUME NEW i \in 1 .. (m + n), i \notin 1 .. m PROVE i - m \in 1 .. n /\ t[i] = b[i - m]
    OBVIOUS
  <2>1. i - m \in 1 .. n /\ m + (i - m) = i
    BY <1>4
  <2>2. t[m + (i - m)] = b[i - m]
    BY <1>1, <2>1
  <2>3. QED
    BY <2>1, <2>2
<1>6. (\A i \in 1 .. m : a[i] \in ToSet(a)) /\ (\A i \in 1 .. n : b[i] \in ToSet(b))
  BY <1>2 DEF ToSet
<1>7. (\A i, j \in 1 .. m : a[i] = a[j] => i = j) /\ (\A i, j \in 1 .. n : b[i] = b[j] => i = j)
  BY <1>2 DEF IsInjective
<1>8. ASSUME NEW i \in 1 .. (m + n), NEW j \in 1 .. (m + n), t[i] = t[j] PROVE i = j
  <2>1. CASE i \in 1 .. m /\ j \in 1 .. m
    BY <1>1, <1>7, <1>8, <2>1
  <2>2. CASE i \in 1 .. m /\ j \notin 1 .. m
    BY <1>1, <1>5, <1>6, <1>8, <2>2
  <2>3. CASE i \notin 1 .. m /\ j \in 1 .. m
    BY <1>1, <1>5, <1>6, <1>8, <2>3
  <2>4. CASE i \notin 1 .. m /\ j \notin 1 .. m
    <3>1. i - m \in 1 .. n /\ j - m \in 1 .. n /\ b[i - m] = b[j - m]
      BY <1>5, <1>8, <2>4
    <3>2. i - m = j - m
      BY <1>7, <3>1
    <3>3. QED
      BY <1>1, <3>2
  <2>5. QED
    BY <2>1, <2>2, <2>3, <2>4
<1>9. QED
  BY <1>3, <1>8 DEF IsInjective, t

\* The keys of a chain in a sequence.
LEMMA KeysInOrderIs ==
    ASSUME NEW c, NEW nv, GoodChain(c, nv)
    PROVE  /\ KeysInOrder(c) \in Seq(DOMAIN Hash) /\ IsInjective(KeysInOrder(c))
           /\ ToSet(KeysInOrder(c)) = ChainKeys(c)
<1> DEFINE t == KeysInOrder(c)
           n == Len(c)
<1>1. n \in Nat /\ \A j \in 1 .. n : c[j].key \in DOMAIN Hash
  BY ChainIs
<1>2. t = [j \in 1 .. n |-> c[j].key]
  BY DEF KeysInOrder
<1>3. \A j, k \in 1 .. n : c[j].key = c[k].key => j = k
  BY DEF GoodChain
<1> HIDE DEF t, n
<1>4. t \in Seq(DOMAIN Hash) /\ DOMAIN t = 1 .. n
  BY <1>1, <1>2
<1>5. IsInjective(t)
  BY <1>2, <1>3, <1>4 DEF IsInjective
<1>6. ToSet(t) = ChainKeys(c)
  BY <1>2, <1>4 DEF ToSet, ChainKeys, n
<1>7. QED
  BY <1>4, <1>5, <1>6 DEF t

\* An iterator returns the keys of an array, each once.
LEMMA TableKeysAre ==
    ASSUME NEW T, NEW e \in Nat \cup {-1}, NEW r, NEW nv, GoodTable(T, e, r, nv)
    PROVE  /\ TableKeys(T, DICTHT_SIZE(e)) \in Seq(DOMAIN Hash) /\ IsInjective(TableKeys(T, DICTHT_SIZE(e)))
           /\ ToSet(TableKeys(T, DICTHT_SIZE(e))) = KeysOf(T, e)
<1> DEFINE N == DICTHT_SIZE(e)
           H == DOMAIN Hash
           D == Seq(H)
           S == 1 .. N
           s == Upto(N)
           B(n) == {k \in H : e # -1 /\ Slot(Hash[k], e) < n /\ k \in ChainKeys(T[Slot(Hash[k], e)])}
<1>1. N \in Nat /\ \A k \in H : e # -1 => Slot(Hash[k], e) \in 0 .. (N - 1)
  <2>1. CASE e = -1
    BY <2>1 DEF DICTHT_SIZE
  <2>2. CASE e # -1
    BY <2>2, DictAssumption, SlotIs
  <2>3. QED
    BY <2>1, <2>2
<1>2. TableKeys(T, N) = KeysFrom(T, <<>>, s)
  BY DEF TableKeys, KeysFrom, Upto
<1>3. \A i \in 0 .. (N - 1) : GoodChain(T[i], nv) /\ \A k \in ChainKeys(T[i]) : Slot(Hash[k], e) = i
  BY DEF GoodTable
<1>4. KeysOf(T, e) = B(N)
  <2>1. \A k \in H : e # -1 => Slot(Hash[k], e) < N
    <3> HIDE DEF N, H
    <3>1. QED
      BY <1>1
  <2>2. QED
    BY <2>1 DEF KeysOf
<1>a. N > 0 => e # -1
  BY DEF DICTHT_SIZE
<1> SUFFICES /\ TableKeys(T, N) \in D /\ IsInjective(TableKeys(T, N))
             /\ ToSet(TableKeys(T, N)) = KeysOf(T, e)
  OBVIOUS
<1> HIDE DEF N
<1>5. s \in Seq(S) /\ Len(s) = N /\ \A i \in 1 .. N : s[i] = i
  <2>1. Len(Upto(N)) = N /\ \A i \in 1 .. N : Upto(N)[i] = i
    BY <1>1, UptoIs
  <2>2. Upto(N) \in Seq(1 .. N)
    BY <1>1 DEF Upto
  <2>3. QED
    BY <2>1, <2>2
<1>6. \A y \in D : \A x \in S : KeysStep(T, y, x) = y \o KeysInOrder(T[x - 1])
  BY DEF KeysStep, KeysInOrder
<1>7. \A x \in S : x - 1 \in 0 .. (N - 1)
  BY <1>1
<1>8. \A x \in S : KeysInOrder(T[x - 1]) \in D
  BY <1>3, <1>7, KeysInOrderIs
<1> HIDE DEF s, S, H
<1>9. \A x \in S : \A y \in D : KeysStep(T, y, x) \in D
  <2> SUFFICES ASSUME NEW x \in S, NEW y \in D PROVE y \o KeysInOrder(T[x - 1]) \in D
    BY <1>6
  <2> DEFINE z == KeysInOrder(T[x - 1])
  <2>1. z \in D
    BY <1>8
  <2> HIDE DEF z
  <2>2. y \o z \in D
    BY <2>1
  <2>3. QED
    BY <2>2 DEF z
<1>10. <<>> \in D
  OBVIOUS
<1> DEFINE b == <<>>
<1>11. PICK g : KeysRun(g, T, b, s, D) /\ KeysFrom(T, b, s) = g[Len(s)]
  <2> HIDE DEF D, b
  <2>1. b \in D
    BY <1>10 DEF b
  <2>2. QED
    BY <1>5, <1>9, <2>1, KeysFold
<1> DEFINE Q(n) == g[n] \in D /\ IsInjective(g[n]) /\ ToSet(g[n]) = B(n)
           V == {n \in 0 .. N : Q(n)}
<1>12. 0 \in V
  <2>1. g[0] = b
    BY <1>11 DEF KeysRun
  <2>2. DOMAIN b = {}
    OBVIOUS
  <2>3. IsInjective(b) /\ ToSet(b) = {}
    BY <2>2 DEF IsInjective, ToSet
  <2>4. B(0) = {}
    <3>1. \A k \in H : e # -1 => ~ (Slot(Hash[k], e) < 0)
      BY <1>1
    <3>2. QED
      BY <3>1
  <2>5. b \in D /\ 0 \in 0 .. N
    BY <1>1
  <2> HIDE DEF B, b, D
  <2>6. Q(0)
    BY <2>1, <2>3, <2>4, <2>5
  <2>7. QED
    BY <2>5, <2>6
<1>13. ASSUME NEW n \in 0 .. (N - 1), n \in V PROVE n + 1 \in V
  <2>1. n + 1 \in 1 .. N /\ (n + 1) - 1 = n /\ n + 1 \in 0 .. N /\ n \in Nat /\ N > 0
    BY <1>1
  <2> DEFINE c == T[n]
             t == KeysInOrder(c)
  <2>2. g[n + 1] = g[n] \o t
    <3>1. g[n + 1] = KeysStep(T, g[n], s[n + 1])
      BY <1>5, <1>11, <2>1 DEF KeysRun
    <3>2. g[n] \in D /\ s[n + 1] = n + 1 /\ n + 1 \in S
      BY <1>5, <1>13, <2>1 DEF S
    <3>3. KeysStep(T, g[n], n + 1) = g[n] \o KeysInOrder(T[(n + 1) - 1])
      BY <1>6, <3>2
    <3>4. QED
      BY <2>1, <3>1, <3>2, <3>3
  <2>3. GoodChain(c, nv) /\ \A k \in ChainKeys(c) : Slot(Hash[k], e) = n
    BY <1>3
  <2>4. t \in D /\ IsInjective(t) /\ ToSet(t) = ChainKeys(c) /\ ChainKeys(c) \subseteq H
    BY <2>3, KeysInOrderIs, ChainIs DEF H
  <2> HIDE DEF t
  <2>5. B(n) \cap ChainKeys(c) = {}
    <3>1. \A k \in B(n) : Slot(Hash[k], e) < n
      OBVIOUS
    <3>2. ~ (n < n)
      BY <2>1
    <3>3. QED
      BY <2>3, <3>1, <3>2
  <2>6. B(n + 1) = B(n) \cup ChainKeys(c)
    <3>1. e # -1
      BY <1>a, <2>1
    <3>2. ASSUME NEW k \in H
          PROVE  k \in B(n + 1) <=> (k \in B(n) \/ k \in ChainKeys(c))
      <4>1. Slot(Hash[k], e) \in 0 .. (N - 1)
        BY <1>1, <3>1
      <4> DEFINE i == Slot(Hash[k], e)
      <4>2. i < n + 1 <=> (i < n \/ i = n)
        <5> HIDE DEF i
        <5>1. i \in 0 .. (N - 1)
          BY <4>1 DEF i
        <5>2. QED
          BY <1>1, <2>1, <5>1
      <4>3. QED
        BY <2>3, <3>1, <4>2
    <3>3. QED
      BY <2>4, <3>2
  <2> HIDE DEF B, c
  <2>7. IsInjective(g[n]) /\ ToSet(g[n]) = B(n) /\ g[n] \in D
    BY <1>13
  <2>8. IsInjective(g[n] \o t)
    BY <2>4, <2>5, <2>7, JoinInjective
  <2>9. g[n] \o t \in D /\ ToSet(g[n] \o t) = ToSet(g[n]) \cup ToSet(t)
    BY <2>4, <2>7, JoinToSet
  <2>10. QED
    BY <2>1, <2>2, <2>4, <2>6, <2>7, <2>8, <2>9
<1>14. N \in V
  <2> HIDE DEF V
  <2>1. \A n \in 0 .. N : n \in V
    BY <1>1, <1>12, <1>13, UpTo
  <2>2. QED
    BY <1>1, <2>1
<1>15. QED
  <2>1. Q(N)
    BY <1>14
  <2> HIDE DEF B
  <2>2. QED
    BY <1>2, <1>4, <1>5, <1>11, <2>1

\* Every key is where its hash says.
LEMMA PlacedIs ==
    ASSUME NEW T, NEW e \in Nat \cup {-1}, NEW r \in Int, NEW nv, GoodTable(T, e, r, nv),
           NEW i \in DOMAIN T, NEW j \in DOMAIN T[i]
    PROVE  /\ Slot(Hash[T[i][j].key], e) = i /\ i >= r
           /\ T[i][j].inline => nv /\ j = Len(T[i])
<1>1. DOMAIN T = 0 .. (DICTHT_SIZE(e) - 1)
  BY DEF GoodTable
<1>2. i \in Int
  BY <1>1
<1>3. /\ GoodChain(T[i], nv) /\ (i < r => T[i] = <<>>)
      /\ \A k \in ChainKeys(T[i]) : Slot(Hash[k], e) = i
  BY <1>1 DEF GoodTable
<1>4. T[i] \in Seq(Entry) /\ j \in 1 .. Len(T[i])
  BY <1>3, ChainIs
<1>5. T[i][j].key \in ChainKeys(T[i])
  BY <1>4 DEF ChainKeys
<1>6. T[i] # <<>>
  BY <1>5, EmptyChain
<1>7. T[i][j].inline => nv /\ j = Len(T[i])
  BY <1>3, <1>4 DEF GoodChain
<1>8. QED
  BY <1>2, <1>3, <1>5, <1>6, <1>7

\* A dict that the operations keep sound has every key in the bucket its hash
\* names, in an array that a lookup reads, counts its keys right, and iterates over
\* each exactly once.
THEOREM DictSoundIs ==
    ASSUME NEW d, NEW K, GoodDict(d, K)
    PROVE  WellPlaced(d) /\ Holds(d, K) /\ d.asserts = TRUE
<1> DEFINE A == KeysIn(d, 1)
           B == KeysIn(d, 2)
           a == TableKeys(d.table[1], DICTHT_SIZE(d.exp[1]))
           b == TableKeys(d.table[2], DICTHT_SIZE(d.exp[2]))
           S == DOMAIN Hash
<1>1. /\ d.exp[1] \in Nat \cup {-1} /\ d.exp[2] \in Nat \cup {-1}
      /\ GoodTable(d.table[1], d.exp[1], d.rehashidx, d.no_value)
      /\ GoodTable(d.table[2], d.exp[2], 0, d.no_value)
      /\ A \cap B = {} /\ CountIs(d.used[1], A) /\ CountIs(d.used[2], B)
      /\ d.rehashidx \in -1 .. DICTHT_SIZE(d.exp[1]) /\ (d.rehashidx = -1 <=> d.exp[2] = -1)
      /\ K = A \cup B /\ d.asserts = TRUE
  BY DEF GoodDict, GoodFields
<1>2. A = KeysOf(d.table[1], d.exp[1]) /\ B = KeysOf(d.table[2], d.exp[2])
  BY DEF KeysIn
<1>3. /\ a \in Seq(S) /\ IsInjective(a) /\ ToSet(a) = A
      /\ b \in Seq(S) /\ IsInjective(b) /\ ToSet(b) = B
  BY <1>1, <1>2, TableKeysAre
<1>4. d.rehashidx \in Int /\ d.rehashidx <= DICTHT_SIZE(d.exp[1])
  BY <1>1
<1>5. WellPlaced(d)
  <2>1. ASSUME NEW i \in DOMAIN d.table[1], NEW j \in DOMAIN d.table[1][i]
        PROVE  /\ Slot(Hash[d.table[1][i][j].key], d.exp[1]) = i /\ i >= d.rehashidx
               /\ d.table[1][i][j].inline => d.no_value /\ j = Len(d.table[1][i])
    <3> DEFINE T == d.table[1]
               e == d.exp[1]
               r == d.rehashidx
               nv == d.no_value
    <3>1. e \in Nat \cup {-1} /\ r \in Int /\ GoodTable(T, e, r, nv) /\ i \in DOMAIN T /\ j \in DOMAIN T[i]
      BY <1>1, <1>4
    <3> SUFFICES Slot(Hash[T[i][j].key], e) = i /\ i >= r /\ (T[i][j].inline => nv /\ j = Len(T[i]))
      OBVIOUS
    <3> HIDE DEF T, e, r, nv
    <3>2. QED
      BY <3>1, PlacedIs
  <2>2. ASSUME NEW i \in DOMAIN d.table[2], NEW j \in DOMAIN d.table[2][i]
        PROVE  /\ Slot(Hash[d.table[2][i][j].key], d.exp[2]) = i
               /\ d.table[2][i][j].inline => d.no_value /\ j = Len(d.table[2][i])
    BY <1>1, PlacedIs
  <2>3. QED
    BY <2>1, <2>2 DEF WellPlaced
<1> DEFINE I == Iterate(d)
<1>6. I = a \o b
  BY DEF Iterate
<1>7. dictSize(d) = Cardinality(K) /\ dictSize(d) = d.used[1] + d.used[2]
  BY DictFinite DEF dictSize
<1>8. d.used[1] = Len(a) /\ d.used[2] = Len(b)
  <2> HIDE DEF a, b, A, B
  <2>1. Cardinality(A) = Len(a) /\ Cardinality(B) = Len(b)
    BY <1>3, DistinctCount
  <2>2. QED
    BY <1>1, <2>1 DEF CountIs
<1>9. d.used[1] = Len(TableKeys(d.table[1], DICTHT_SIZE(d.exp[1])))
      /\ d.used[2] = Len(TableKeys(d.table[2], DICTHT_SIZE(d.exp[2])))
  BY <1>8
<1> HIDE DEF a, b, A, B, S
<1>10. a \o b \in Seq(S) /\ ToSet(a \o b) = K
  BY <1>1, <1>3, JoinToSet
<1>11. Len(a \o b) = Cardinality(K)
  <2>1. Joined(a, b)
    BY <1>3, Join
  <2>2. QED
    BY <1>7, <1>8, <2>1 DEF Joined
<1>12. {I[i] : i \in 1 .. Len(I)} = K
  <2>1. I \in Seq(S) /\ ToSet(I) = K
    BY <1>6, <1>10
  <2> HIDE DEF I
  <2>2. DOMAIN I = 1 .. Len(I)
    BY <2>1
  <2>3. QED
    BY <2>1, <2>2 DEF ToSet
<1>13. Len(I) = Cardinality(K)
  BY <1>6, <1>11
<1>14. dictIsRehashing(d) <=> d.exp[2] # -1
  BY <1>1 DEF dictIsRehashing
<1>15. Holds(d, K)
  BY <1>4, <1>9, <1>12, <1>13, <1>14 DEF Holds
<1>16. QED
  BY <1>1, <1>5, <1>15

-----------------------------------------------------------------------------
(* Heights by place. L has the heights of n nodes in their order; place 0 is
   the header and place n + 1 the end.                                       *)

HeightsUpTo(L, n) == n \in Nat /\ L \in [1 .. n -> Nat \ {0}]

\* The header, or a node that reaches level i.
Reaches(L, a, i) == a = 0 \/ L[a] > i

\* b is the first place behind a that reaches level i, or the end.
NextAt(L, n, a, i, b) ==
    /\ b \in (a + 1) .. (n + 1) /\ (b <= n => L[b] > i)
    /\ \A c \in (a + 1) .. (b - 1) : L[c] <= i

\* u is the last place before p that reaches level i.
PrevAt(L, p, i, u) ==
    /\ u \in 0 .. (p - 1) /\ Reaches(L, u, i)
    /\ \A c \in (u + 1) .. (p - 1) : L[c] <= i

\* M is L with a node of height h put in at place p.
Opened(M, L, n, p, h) ==
    /\ HeightsUpTo(L, n) /\ p \in 1 .. (n + 1) /\ h \in Nat \ {0}
    /\ M = [c \in 1 .. (n + 1) |-> IF c < p THEN L[c] ELSE IF c = p THEN h ELSE L[c - 1]]

\* M is L without the node at place p.
Closed(M, L, n, p) ==
    /\ HeightsUpTo(L, n) /\ p \in 1 .. n
    /\ M = [c \in 1 .. (n - 1) |-> IF c < p THEN L[c] ELSE L[c + 1]]

\* There is one next place and one previous place.
LEMMA NextUnique ==
    ASSUME NEW L, NEW n \in Nat, NEW a \in 0 .. n, NEW i \in Nat, NEW b, NEW c, HeightsUpTo(L, n),
           NextAt(L, n, a, i, b), NextAt(L, n, a, i, c)
    PROVE  b = c
<1>1. b \in Int /\ c \in Int /\ (b < c => L[b] \in Nat) /\ (c < b => L[c] \in Nat)
  BY DEF NextAt, HeightsUpTo
<1>2. QED
  BY <1>1 DEF NextAt

\* There is one previous place.
LEMMA PrevUnique ==
    ASSUME NEW L, NEW n \in Nat, NEW p \in 1 .. (n + 1), NEW i \in Nat, NEW u, NEW v, HeightsUpTo(L, n),
           PrevAt(L, p, i, u), PrevAt(L, p, i, v)
    PROVE  u = v
<1>1. u \in Int /\ v \in Int /\ (u > 0 => L[u] \in Nat) /\ (v > 0 => L[v] \in Nat)
  BY DEF PrevAt, HeightsUpTo
<1>2. QED
  BY <1>1 DEF PrevAt, Reaches

\* A place whose next one is at or behind p is the last one before p.
LEMMA PrevIs ==
    ASSUME NEW L, NEW n \in Nat, NEW p \in 1 .. (n + 1), NEW i \in Nat, NEW a \in 0 .. (p - 1),
           NEW b, Reaches(L, a, i), NextAt(L, n, a, i, b)
    PROVE  b >= p => PrevAt(L, p, i, a)
BY DEF NextAt, PrevAt

\* The next place of a previous one is not before p.
LEMMA NextBehind ==
    ASSUME NEW L, NEW n \in Nat, NEW p \in 1 .. (n + 1), NEW i \in Nat, NEW u, NEW b,
           HeightsUpTo(L, n), PrevAt(L, p, i, u), NextAt(L, n, u, i, b)
    PROVE  b >= p /\ b \in 1 .. (n + 1) /\ u \in 0 .. n
<1>1. b \in Int /\ u \in Int /\ (b <= n => L[b] \in Nat)
  BY DEF PrevAt, NextAt, HeightsUpTo
<1>2. QED
  BY <1>1 DEF PrevAt, NextAt

\* The next places when a node was put in at p: of the places before it, of those
\* behind it, and of the node.
OpenedFacts(M, L, n, p, h) ==
    /\ p \in Int /\ 1 <= p /\ p <= n + 1 /\ h \in Nat /\ M[p] = h
    /\ \A c \in Int : 1 <= c /\ c < p => M[c] = L[c] /\ L[c] \in Nat
    /\ \A c \in Int : p < c /\ c <= n + 1 => M[c] = L[c - 1] /\ L[c - 1] \in Nat
    /\ \A c \in Int : p <= c /\ c <= n => M[c + 1] = L[c] /\ L[c] \in Nat

\* With the new node these are heights again.
LEMMA OpenedHeights ==
    ASSUME NEW M, NEW L, NEW n \in Nat, NEW p, NEW h, Opened(M, L, n, p, h)
    PROVE  HeightsUpTo(M, n + 1) /\ OpenedFacts(M, L, n, p, h)
<1>1. /\ p \in Int /\ 1 <= p /\ p <= n + 1 /\ h \in Nat \ {0}
      /\ L \in [1 .. n -> Nat \ {0}] /\ \A c \in 1 .. n : L[c] \in Nat \ {0}
  BY DEF Opened, HeightsUpTo
<1>2. M = [c \in 1 .. (n + 1) |-> IF c < p THEN L[c] ELSE IF c = p THEN h ELSE L[c - 1]]
  BY DEF Opened
<1>3. ASSUME NEW c \in 1 .. (n + 1)
      PROVE  M[c] = (IF c < p THEN L[c] ELSE IF c = p THEN h ELSE L[c - 1]) /\ M[c] \in Nat \ {0}
  BY <1>1, <1>2
<1>4. OpenedFacts(M, L, n, p, h)
  <2>1. M[p] = h
    BY <1>1, <1>3
  <2>2. ASSUME NEW c \in Int, 1 <= c, c < p PROVE M[c] = L[c] /\ L[c] \in Nat
    BY <1>1, <1>3, <2>2
  <2>3. ASSUME NEW c \in Int, p < c, c <= n + 1 PROVE M[c] = L[c - 1] /\ L[c - 1] \in Nat
    <3>1. c - 1 \in 1 .. n
      BY <1>1, <2>3
    <3>2. QED
      BY <1>1, <1>3, <2>3, <3>1
  <2>4. ASSUME NEW c \in Int, p <= c, c <= n PROVE M[c + 1] = L[c] /\ L[c] \in Nat
    <3>1. c + 1 \in 1 .. (n + 1) /\ c \in 1 .. n /\ c + 1 > p /\ (c + 1) - 1 = c
      BY <1>1, <2>4
    <3>2. M[c + 1] = L[(c + 1) - 1]
      BY <1>1, <1>3, <3>1
    <3>3. QED
      BY <1>1, <3>1, <3>2
  <2>5. QED
    BY <1>1, <2>1, <2>2, <2>3, <2>4 DEF OpenedFacts
<1>5. M \in [1 .. (n + 1) -> Nat \ {0}] /\ n + 1 \in Nat
  BY <1>2, <1>3
<1>6. QED
  BY <1>4, <1>5 DEF HeightsUpTo

\* The next places of those before the new node.
LEMMA OpenedBelow ==
    ASSUME NEW M, NEW L, NEW n \in Nat, NEW p, NEW h, Opened(M, L, n, p, h), NEW i \in Nat,
           NEW a \in 0 .. n, a < p, NEW b, NextAt(L, n, a, i, b)
    PROVE  /\ b < p => NextAt(M, n + 1, a, i, b)
           /\ b >= p /\ i < h => NextAt(M, n + 1, a, i, p)
           /\ b >= p /\ i >= h => NextAt(M, n + 1, a, i, b + 1)
<1>0. OpenedFacts(M, L, n, p, h)
  BY OpenedHeights
<1>1. b \in Int /\ a + 1 <= b /\ b <= n + 1 /\ p \in Int /\ h \in Nat
  BY <1>0 DEF NextAt, OpenedFacts
<1>2. ASSUME b < p PROVE NextAt(M, n + 1, a, i, b)
  BY <1>0, <1>1, <1>2 DEF NextAt, OpenedFacts
<1>3. ASSUME b >= p, i < h PROVE NextAt(M, n + 1, a, i, p)
  BY <1>0, <1>1, <1>3 DEF NextAt, OpenedFacts
<1>4. ASSUME b >= p, i >= h PROVE NextAt(M, n + 1, a, i, b + 1)
  BY <1>0, <1>1, <1>4 DEF NextAt, OpenedFacts
<1>5. QED
  BY <1>2, <1>3, <1>4

\* The next places of those behind it.
LEMMA OpenedAbove ==
    ASSUME NEW M, NEW L, NEW n \in Nat, NEW p, NEW h, Opened(M, L, n, p, h), NEW i \in Nat,
           NEW a \in 0 .. n, a >= p, NEW b, NextAt(L, n, a, i, b)
    PROVE  NextAt(M, n + 1, a + 1, i, b + 1)
<1>0. OpenedFacts(M, L, n, p, h)
  BY OpenedHeights
<1>1. b \in Int /\ a + 1 <= b /\ b <= n + 1 /\ p \in Int /\ h \in Nat
  BY <1>0 DEF NextAt, OpenedFacts
<1>2. QED
  BY <1>1, <1>0 DEF NextAt, OpenedFacts

\* The next places of the new node.
LEMMA OpenedNew ==
    ASSUME NEW M, NEW L, NEW n \in Nat, NEW p, NEW h, Opened(M, L, n, p, h), NEW i \in Nat,
           NEW u, PrevAt(L, p, i, u), NEW b, NextAt(L, n, u, i, b)
    PROVE  NextAt(M, n + 1, p, i, b + 1)
<1>0. OpenedFacts(M, L, n, p, h)
  BY OpenedHeights
<1>1. b \in Int /\ b <= n + 1 /\ p \in Int /\ h \in Nat /\ u \in Int /\ u < p
  BY <1>0 DEF NextAt, OpenedFacts, PrevAt
<1>2. b >= p /\ u \in 0 .. n
  BY NextBehind DEF Opened
<1>3. QED
  BY <1>1, <1>2, <1>0 DEF NextAt, OpenedFacts

\* The next places when the node at p was taken out.
ClosedFacts(M, L, n, p) ==
    /\ p \in Int /\ 1 <= p /\ p <= n /\ n - 1 \in Nat
    /\ \A c \in Int : 1 <= c /\ c <= n => L[c] \in Nat
    /\ \A c \in Int : 1 <= c /\ c < p => M[c] = L[c]
    /\ \A c \in Int : p < c /\ c <= n => M[c - 1] = L[c]
    /\ \A c \in Int : p <= c /\ c < n => M[c] = L[c + 1]

\* Without the node these are heights again.
LEMMA ClosedHeights ==
    ASSUME NEW M, NEW L, NEW n \in Nat, NEW p, Closed(M, L, n, p)
    PROVE  HeightsUpTo(M, n - 1) /\ ClosedFacts(M, L, n, p)
<1>1. /\ p \in Int /\ 1 <= p /\ p <= n
      /\ L \in [1 .. n -> Nat \ {0}] /\ \A c \in 1 .. n : L[c] \in Nat \ {0}
  BY DEF Closed, HeightsUpTo
<1>2. M = [c \in 1 .. (n - 1) |-> IF c < p THEN L[c] ELSE L[c + 1]]
  BY DEF Closed
<1>3. ASSUME NEW c \in 1 .. (n - 1)
      PROVE  M[c] = (IF c < p THEN L[c] ELSE L[c + 1]) /\ M[c] \in Nat \ {0}
  <2>1. c \in 1 .. n /\ c + 1 \in 1 .. n
    OBVIOUS
  <2>2. QED
    BY <1>1, <1>2, <2>1
<1>4. ClosedFacts(M, L, n, p)
  <2>2. ASSUME NEW c \in Int, 1 <= c, c < p PROVE M[c] = L[c]
    BY <1>1, <1>3, <2>2
  <2>3. ASSUME NEW c \in Int, p < c, c <= n PROVE M[c - 1] = L[c]
    <3>1. c - 1 \in 1 .. (n - 1) /\ ~(c - 1 < p) /\ (c - 1) + 1 = c
      BY <1>1, <2>3
    <3>2. M[c - 1] = L[(c - 1) + 1]
      BY <1>3, <3>1
    <3>3. QED
      BY <3>1, <3>2
  <2>4. ASSUME NEW c \in Int, p <= c, c < n PROVE M[c] = L[c + 1]
    <3>1. c \in 1 .. (n - 1) /\ ~(c < p)
      BY <1>1, <2>4
    <3>2. QED
      BY <1>3, <3>1
  <2>5. QED
    BY <1>1, <2>2, <2>3, <2>4 DEF ClosedFacts
<1>5. M \in [1 .. (n - 1) -> Nat \ {0}] /\ n - 1 \in Nat
  BY <1>1, <1>2, <1>3
<1>6. QED
  BY <1>4, <1>5 DEF HeightsUpTo

\* The next places of those before it.
LEMMA ClosedBelow ==
    ASSUME NEW M, NEW L, NEW n \in Nat, NEW p, Closed(M, L, n, p), NEW i \in Nat,
           NEW a \in 0 .. n, a < p, NEW b, NextAt(L, n, a, i, b)
    PROVE  /\ b < p => NextAt(M, n - 1, a, i, b)
           /\ b > p => NextAt(M, n - 1, a, i, b - 1)
           /\ b = p => \A d : NextAt(L, n, p, i, d) => NextAt(M, n - 1, a, i, d - 1)
<1>0. ClosedFacts(M, L, n, p)
  BY ClosedHeights
<1>1. b \in Int /\ a + 1 <= b /\ b <= n + 1 /\ p \in Int
  BY <1>0 DEF NextAt, ClosedFacts
<1>2. ASSUME b < p PROVE NextAt(M, n - 1, a, i, b)
  BY <1>0, <1>1, <1>2 DEF NextAt, ClosedFacts
<1>3. ASSUME b > p PROVE NextAt(M, n - 1, a, i, b - 1)
  BY <1>0, <1>1, <1>3 DEF NextAt, ClosedFacts
<1>4. ASSUME b = p, NEW d, NextAt(L, n, p, i, d) PROVE NextAt(M, n - 1, a, i, d - 1)
  <2>1. d \in Int /\ p < d /\ d <= n + 1
    BY <1>4 DEF NextAt
  <2>2. QED
    BY <1>0, <1>1, <1>4, <2>1 DEF NextAt, ClosedFacts
<1>5. QED
  BY <1>2, <1>3, <1>4

\* The next places of those behind it.
LEMMA ClosedAbove ==
    ASSUME NEW M, NEW L, NEW n \in Nat, NEW p, Closed(M, L, n, p), NEW i \in Nat,
           NEW a \in 0 .. n, a > p, NEW b, NextAt(L, n, a, i, b)
    PROVE  NextAt(M, n - 1, a - 1, i, b - 1)
<1>0. ClosedFacts(M, L, n, p)
  BY ClosedHeights
<1>1. b \in Int /\ a + 1 <= b /\ b <= n + 1 /\ p \in Int
  BY <1>0 DEF NextAt, ClosedFacts
<1>2. QED
  BY <1>0, <1>1 DEF NextAt, ClosedFacts

-----------------------------------------------------------------------------
(* The list. *)

\* ord has the elements of a score map in order.
OrderOf(ord, score) ==
    /\ DOMAIN score \subseteq Nat \ {0} /\ score \in [DOMAIN score -> Int]
    /\ ord \in Seq(DOMAIN score) /\ ToSet(ord) = DOMAIN score
    /\ \A i, j \in 1 .. Len(ord) : i < j => Precedes(score, ord[i], ord[j])

\* The node at a place, and the heights of the nodes by place.
NodeAt(ord, a) == IF a = 0 THEN HEAD ELSE IF a <= Len(ord) THEN ord[a] ELSE NIL
HeightsOf(levels, ord) == [a \in 1 .. Len(ord) |-> levels[ord[a]]]
TopOf(L, a) == IF a = 0 THEN ZSKIPLIST_MAXLEVEL ELSE L[a]

\* Level i of the node at place a points to the next node that reaches it, and its
\* span is the distance.
LinksAt(F, P, L, ord, level, a, i) ==
    \E b : /\ NextAt(L, Len(ord), a, i, b) /\ F[NodeAt(ord, a)][i] = NodeAt(ord, b)
           /\ i > 0 => P[NodeAt(ord, a)][i] = IF b <= Len(ord) THEN b - a
                                              ELSE IF i < level THEN Len(ord) - a ELSE 0

ColumnAt(F, P, L, ord, level, a) ==
    /\ DOMAIN F[NodeAt(ord, a)] = 0 .. (TopOf(L, a) - 1) /\ DOMAIN P[NodeAt(ord, a)] = 0 .. (TopOf(L, a) - 1)
    /\ \A i \in 0 .. (TopOf(L, a) - 1) : LinksAt(F, P, L, ord, level, a, i)

LevelIs(level, levels) ==
    /\ level \in Levels /\ \A x \in DOMAIN levels : levels[x] <= level
    /\ level = 1 \/ \E x \in DOMAIN levels : levels[x] = level

BackIs(B, ord) ==
    /\ DOMAIN B = ToSet(ord) /\ \A a \in 1 .. Len(ord) : B[ord[a]] = IF a = 1 THEN NIL ELSE ord[a - 1]

\* z is the record of a list, with these fields.
ZFields == {"level", "length", "tail", "asserts", "score", "levels", "backward", "forward", "span"}

ZRecord(z) == DOMAIN z = ZFields /\ z = [f \in DOMAIN z |-> z[f]]

ListIs(z, level, length, tail, asserts, score, levels, B, F, P) ==
    /\ ZRecord(z) /\ z.level = level /\ z.length = length /\ z.tail = tail /\ z.asserts = asserts
    /\ z.score = score /\ z.levels = levels /\ z.backward = B /\ z.forward = F /\ z.span = P

\* The parts of a list that is linked in the order ord.
GoodParts(level, length, tail, score, levels, B, F, P, ord) ==
    /\ OrderOf(ord, score) /\ levels \in [DOMAIN score -> Levels]
    /\ length = Len(ord) /\ LevelIs(level, levels)
    /\ tail = (IF Len(ord) = 0 THEN NIL ELSE ord[Len(ord)])
    /\ BackIs(B, ord)
    /\ DOMAIN F = DOMAIN score \cup {HEAD} /\ DOMAIN P = DOMAIN score \cup {HEAD}
    /\ \A a \in 0 .. Len(ord) : ColumnAt(F, P, HeightsOf(levels, ord), ord, level, a)

GoodList(z, ord) ==
    /\ ZRecord(z) /\ z.asserts = TRUE
    /\ GoodParts(z.level, z.length, z.tail, z.score, z.levels, z.backward, z.forward, z.span, ord)

\* An order has every element once.
LEMMA OrderIs ==
    ASSUME NEW ord, NEW score, OrderOf(ord, score)
    PROVE  /\ Len(ord) \in Nat /\ DOMAIN ord = 1 .. Len(ord)
           /\ \A a \in 1 .. Len(ord) : ord[a] \in DOMAIN score /\ ord[a] \in Nat \ {0} /\ ord[a] \in Int
           /\ \A x \in DOMAIN score : score[x] \in Int /\ x \in Nat \ {0} /\ \E a \in 1 .. Len(ord) : ord[a] = x
           /\ \A a, b \in 1 .. Len(ord) : ord[a] = ord[b] => a = b
<1>1. Len(ord) \in Nat /\ DOMAIN ord = 1 .. Len(ord) /\ \A a \in 1 .. Len(ord) : ord[a] \in DOMAIN score
  BY DEF OrderOf
<1>2. DOMAIN score \subseteq Nat \ {0} /\ \A x \in DOMAIN score : score[x] \in Int
  BY DEF OrderOf
<1>3. \A x \in DOMAIN score : \E a \in 1 .. Len(ord) : ord[a] = x
  <2>1. ToSet(ord) = DOMAIN score
    BY DEF OrderOf
  <2>2. QED
    BY <1>1, <2>1 DEF ToSet
<1>4. ASSUME NEW a \in 1 .. Len(ord), NEW b \in 1 .. Len(ord), ord[a] = ord[b], a < b PROVE FALSE
  <2>1. Precedes(score, ord[a], ord[b])
    BY <1>4 DEF OrderOf
  <2>2. score[ord[a]] \in Int /\ ord[a] \in Int
    BY <1>1, <1>2
  <2>3. QED
    BY <1>4, <2>1, <2>2 DEF Precedes
<1>5. \A a, b \in 1 .. Len(ord) : ord[a] = ord[b] => a = b
  <2>1. SUFFICES ASSUME NEW a \in 1 .. Len(ord), NEW b \in 1 .. Len(ord), ord[a] = ord[b], a # b PROVE FALSE
    OBVIOUS
  <2>2. CASE a < b
    BY <1>4, <2>1, <2>2
  <2>3. CASE b < a
    BY <1>4, <2>1, <2>3
  <2>4. QED
    BY <1>1, <2>1, <2>2, <2>3
<1>6. QED
  BY <1>1, <1>2, <1>3, <1>5

\* The nodes by place are different.
LEMMA NodesDiffer ==
    ASSUME NEW ord, NEW score, OrderOf(ord, score)
    PROVE  /\ \A a \in 0 .. Len(ord) : NodeAt(ord, a) \in DOMAIN score \cup {HEAD} /\ NodeAt(ord, a) # NIL
           /\ \A x \in DOMAIN score \cup {HEAD} : \E a \in 0 .. Len(ord) : x = NodeAt(ord, a)
           /\ \A a \in 1 .. Len(ord) : NodeAt(ord, a) = ord[a] /\ NodeAt(ord, a) # HEAD
           /\ \A a, b \in 0 .. (Len(ord) + 1) : NodeAt(ord, a) = NodeAt(ord, b) => a = b
           /\ NodeAt(ord, Len(ord) + 1) = NIL /\ NodeAt(ord, 0) = HEAD
           /\ HEAD \notin DOMAIN score /\ NIL \notin DOMAIN score
<1> DEFINE n == Len(ord)
<1>1. n \in Nat /\ \A a \in 1 .. n : ord[a] \in DOMAIN score /\ ord[a] \in Nat \ {0}
  BY OrderIs
<1>2. \A a, b \in 1 .. n : ord[a] = ord[b] => a = b
  BY OrderIs
<1>3. \A x \in DOMAIN score : x \in Nat \ {0} /\ \E a \in 1 .. n : ord[a] = x
  BY OrderIs
<1> SUFFICES /\ \A a \in 0 .. n : NodeAt(ord, a) \in DOMAIN score \cup {HEAD} /\ NodeAt(ord, a) # NIL
             /\ \A x \in DOMAIN score \cup {HEAD} : \E a \in 0 .. n : x = NodeAt(ord, a)
             /\ \A a \in 1 .. n : NodeAt(ord, a) = ord[a] /\ NodeAt(ord, a) # HEAD
             /\ \A a, b \in 0 .. (n + 1) : NodeAt(ord, a) = NodeAt(ord, b) => a = b
             /\ NodeAt(ord, n + 1) = NIL /\ NodeAt(ord, 0) = HEAD
             /\ HEAD \notin DOMAIN score /\ NIL \notin DOMAIN score
  OBVIOUS
<1>4. /\ \A a \in 1 .. n : NodeAt(ord, a) = ord[a]
      /\ NodeAt(ord, n + 1) = -1 /\ NodeAt(ord, 0) = 0
  BY <1>1 DEF NodeAt, HEAD, NIL
<1> HIDE DEF n
<1>5. HEAD = 0 /\ NIL = -1
  BY DEF HEAD, NIL
<1>6. \A a \in 0 .. n : NodeAt(ord, a) \in DOMAIN score \cup {HEAD} /\ NodeAt(ord, a) # NIL
  BY <1>1, <1>4, <1>5
<1>7. \A a \in 1 .. n : NodeAt(ord, a) # HEAD
  BY <1>1, <1>4, <1>5
<1>8. ASSUME NEW a \in 0 .. (n + 1), NEW b \in 0 .. (n + 1), NodeAt(ord, a) = NodeAt(ord, b) PROVE a = b
  <2>1. \A c \in 0 .. (n + 1) : c = 0 \/ c = n + 1 \/ c \in 1 .. n
    BY <1>1
  <2>2. \A c \in 1 .. n : NodeAt(ord, c) # 0 /\ NodeAt(ord, c) # -1
    BY <1>1, <1>4
  <2>3. CASE a \in 1 .. n
    <3>1. b \in 1 .. n
      BY <1>4, <1>8, <2>1, <2>2, <2>3
    <3>2. QED
      BY <1>2, <1>4, <1>8, <2>3, <3>1
  <2>4. CASE a \notin 1 .. n
    <3>1. b \notin 1 .. n
      BY <1>4, <1>8, <2>1, <2>2, <2>4
    <3>2. QED
      BY <1>4, <1>8, <2>1, <2>4, <3>1
  <2>5. QED
    BY <2>3, <2>4
<1>9. ASSUME NEW x \in DOMAIN score \cup {HEAD} PROVE \E a \in 0 .. n : x = NodeAt(ord, a)
  BY <1>1, <1>3, <1>4, <1>5
<1>10. HEAD \notin DOMAIN score /\ NIL \notin DOMAIN score
  BY <1>3, <1>5
<1>11. QED
  BY <1>4, <1>5, <1>6, <1>7, <1>8, <1>9, <1>10

\* The heights of a list.
LEMMA HeightsAre ==
    ASSUME NEW z, NEW ord, GoodList(z, ord)
    PROVE  /\ HeightsUpTo(HeightsOf(z.levels, ord), Len(ord)) /\ Len(ord) \in Nat /\ z.length = Len(ord)
           /\ \A a \in 1 .. Len(ord) : HeightsOf(z.levels, ord)[a] \in 1 .. z.level
           /\ z.level \in 1 .. ZSKIPLIST_MAXLEVEL /\ ZSKIPLIST_MAXLEVEL \in Nat
           /\ OrderOf(ord, z.score)
<1>1. /\ OrderOf(ord, z.score) /\ z.levels \in [DOMAIN z.score -> Levels] /\ z.length = Len(ord)
      /\ z.level \in Levels /\ \A x \in DOMAIN z.levels : z.levels[x] <= z.level
  BY DEF GoodList, GoodParts, LevelIs
<1>2. Len(ord) \in Nat /\ \A a \in 1 .. Len(ord) : ord[a] \in DOMAIN z.score
  BY <1>1, OrderIs
<1>3. ZSKIPLIST_MAXLEVEL \in Nat /\ Levels = 1 .. ZSKIPLIST_MAXLEVEL
  BY SkiplistAssumption DEF Levels
<1>4. \A a \in 1 .. Len(ord) : z.levels[ord[a]] \in 1 .. z.level
  BY <1>1, <1>2, <1>3
<1> DEFINE L == HeightsOf(z.levels, ord)
<1>5. L = [a \in 1 .. Len(ord) |-> z.levels[ord[a]]]
  BY DEF HeightsOf
<1> HIDE DEF L
<1>6. \A a \in 1 .. Len(ord) : L[a] \in 1 .. z.level
  BY <1>4, <1>5
<1>7. L \in [1 .. Len(ord) -> Nat \ {0}]
  BY <1>1, <1>3, <1>5, <1>6
<1>8. QED
  BY <1>1, <1>2, <1>3, <1>6, <1>7 DEF HeightsUpTo, L

-----------------------------------------------------------------------------
(* Walking. A search may go to the places in G; c is the place its ranks count from. *)

PosFrom(ord, c, u) == [node |-> NodeAt(ord, u), rank |-> u - c]

\* A hop along level i from place a finds place b.
HopsTo(z, ord, c, i, a, b) ==
    /\ NextAt(HeightsOf(z.levels, ord), Len(ord), a, i, b) /\ b \in (a + 1) .. (Len(ord) + 1)
    /\ z.forward[NodeAt(ord, a)][i] = NodeAt(ord, b)
    /\ b <= Len(ord) => /\ Reaches(HeightsOf(z.levels, ord), b, i)
                        /\ NodeAt(ord, b) = ord[b] /\ NodeAt(ord, b) # NIL
                        /\ Hop(z, PosFrom(ord, c, a), i) = PosFrom(ord, c, b)
    /\ b > Len(ord) => NodeAt(ord, b) = NIL

\* Every place has a next one.
LEMMA HopIs ==
    ASSUME NEW z, NEW ord, GoodList(z, ord), NEW c \in Int,
           NEW i \in 0 .. (z.level - 1), NEW a \in 0 .. Len(ord), Reaches(HeightsOf(z.levels, ord), a, i)
    PROVE  \E b : HopsTo(z, ord, c, i, a, b)
<1> DEFINE L == HeightsOf(z.levels, ord)
           n == Len(ord)
           F == z.forward
           P == z.span
<1>1. /\ HeightsUpTo(L, n) /\ n \in Nat /\ z.level \in 1 .. ZSKIPLIST_MAXLEVEL
      /\ ZSKIPLIST_MAXLEVEL \in Nat /\ OrderOf(ord, z.score) /\ \A d \in 1 .. n : L[d] \in 1 .. z.level
  BY HeightsAre
<1>2. a \in 0 .. n /\ i \in Nat /\ i < z.level
  BY <1>1
<1>3. i \in 0 .. (TopOf(L, a) - 1)
  BY <1>1, <1>2 DEF TopOf, Reaches
<1>4. ColumnAt(F, P, L, ord, z.level, a)
  BY <1>2 DEF GoodList, GoodParts
<1>5. LinksAt(F, P, L, ord, z.level, a, i)
  BY <1>3, <1>4 DEF ColumnAt
<1>6. PICK b : /\ NextAt(L, n, a, i, b) /\ F[NodeAt(ord, a)][i] = NodeAt(ord, b)
               /\ i > 0 => P[NodeAt(ord, a)][i] = IF b <= n THEN b - a
                                                  ELSE IF i < z.level THEN n - a ELSE 0
  BY <1>5 DEF LinksAt
<1>7. b \in (a + 1) .. (n + 1) /\ b \in Int
  BY <1>6 DEF NextAt
<1>8. CASE b > n
  <2>1. NodeAt(ord, b) = NIL /\ ~(b <= n)
    BY <1>1, <1>2, <1>7, <1>8 DEF NodeAt
  <2>2. QED
    BY <1>6, <1>7, <2>1 DEF HopsTo
<1>9. CASE b <= n
  <2>1. b \in 1 .. n
    BY <1>1, <1>2, <1>7, <1>9
  <2>2. NodeAt(ord, b) = ord[b] /\ NodeAt(ord, b) # NIL
    BY <1>1, <2>1, NodesDiffer
  <2>4. Reaches(L, b, i)
    BY <1>6, <1>9 DEF Reaches, NextAt
  <2>5. zslGetNodeSpanAtLevel(z, NodeAt(ord, a), i) = b - a
    <3>1. CASE i > 0
      BY <1>6, <1>9, <3>1 DEF zslGetNodeSpanAtLevel
    <3>2. CASE i = 0
      <4>1. b = a + 1
        <5>1. SUFFICES ASSUME b > a + 1 PROVE FALSE
          BY <1>2, <1>7
        <5>2. a + 1 \in (a + 1) .. (b - 1) /\ a + 1 \in 1 .. n
          BY <1>2, <1>7, <2>1, <5>1
        <5>3. L[a + 1] <= 0 /\ L[a + 1] \in 1 .. z.level
          BY <1>1, <1>6, <3>2, <5>2 DEF NextAt
        <5>4. QED
          BY <1>1, <5>3
      <4>2. z.forward[NodeAt(ord, a)][0] # NIL
        BY <1>6, <2>2, <3>2
      <4>3. zslGetNodeSpanAtLevel(z, NodeAt(ord, a), 0) = 1
        BY <4>2 DEF zslGetNodeSpanAtLevel
      <4>4. QED
        BY <1>2, <3>2, <4>1, <4>3
    <3>3. QED
      BY <1>2, <3>1, <3>2
  <2>6. Hop(z, PosFrom(ord, c, a), i) = PosFrom(ord, c, b)
    <3>1. Hop(z, PosFrom(ord, c, a), i)
              = [node |-> F[NodeAt(ord, a)][i], rank |-> (a - c) + zslGetNodeSpanAtLevel(z, NodeAt(ord, a), i)]
      BY DEF Hop, PosFrom
    <3>2. (a - c) + (b - a) = b - c
      BY <1>2, <1>7
    <3>3. QED
      BY <1>6, <2>5, <3>1, <3>2 DEF PosFrom
  <2>7. ~(b > n)
    BY <1>1, <1>7, <1>9
  <2>8. QED
    BY <1>6, <1>7, <2>2, <2>4, <2>6, <2>7 DEF HopsTo
<1>10. QED
  BY <1>1, <1>7, <1>8, <1>9

\* go holds where a walk along level i from place a is after each hop.
Follows(go, z, ord, c, G, i, a) ==
    /\ go[0] = PosFrom(ord, c, a)
    /\ \A n \in 1 .. z.length : \A u \in 0 .. Len(ord) : \A b :
          /\ Reaches(HeightsOf(z.levels, ord), u, i) /\ go[n - 1] = PosFrom(ord, c, u)
          /\ HopsTo(z, ord, c, i, u, b)
          => go[n] = IF b \in G THEN PosFrom(ord, c, b) ELSE PosFrom(ord, c, u)

\* A walk along level i that started at place a is over at place u.
Ends(z, ord, G, i, a, u) ==
    /\ u \in a .. Len(ord) /\ Reaches(HeightsOf(z.levels, ord), u, i) /\ (u = a \/ u \in G)
    /\ \A b : NextAt(HeightsOf(z.levels, ord), Len(ord), u, i, b) => b \notin G

\* z.length hops are enough.
LEMMA WalkEnds ==
    ASSUME NEW z, NEW ord, GoodList(z, ord), NEW c \in Int, NEW G \in SUBSET (1 .. Len(ord)),
           NEW i \in 0 .. (z.level - 1), NEW a \in 0 .. Len(ord), Reaches(HeightsOf(z.levels, ord), a, i),
           NEW go, Follows(go, z, ord, c, G, i, a)
    PROVE  \E u : Ends(z, ord, G, i, a, u) /\ go[z.length] = PosFrom(ord, c, u)
<1> DEFINE L == HeightsOf(z.levels, ord)
           N == Len(ord)
           At(k, u) == /\ go[k] = PosFrom(ord, c, u) /\ u \in a .. N /\ Reaches(L, u, i) /\ (u = a \/ u \in G)
                       /\ Ends(z, ord, G, i, a, u) \/ u >= k
           T == {k \in 0 .. N : \E u : At(k, u)}
<1>1. N \in Nat /\ z.length = N /\ HeightsUpTo(L, N) /\ i \in Nat
  BY HeightsAre
<1>2. 0 \in T
  <2>1. At(0, a)
    BY <1>1 DEF Follows
  <2>2. QED
    BY <1>1, <2>1
<1>3. ASSUME NEW k \in 0 .. (N - 1), k \in T PROVE k + 1 \in T
  <2>1. PICK u : At(k, u)
    BY <1>3
  <2>2. k + 1 \in 1 .. N /\ (k + 1) - 1 = k /\ k + 1 \in 0 .. N /\ u \in 0 .. N
    BY <1>1, <2>1
  <2>3. PICK b : HopsTo(z, ord, c, i, u, b)
    BY <2>1, <2>2, HopIs
  <2>4. go[k + 1] = IF b \in G THEN PosFrom(ord, c, b) ELSE PosFrom(ord, c, u)
    BY <1>1, <2>1, <2>2, <2>3 DEF Follows
  <2>5. NextAt(L, N, u, i, b) /\ b \in (u + 1) .. (N + 1) /\ (b <= N => Reaches(L, b, i))
    BY <2>3 DEF HopsTo
  <2>6. CASE b \in G
    <3>1. b \in 1 .. N /\ b \in a .. N /\ b > u /\ b \in Int
      BY <1>1, <2>1, <2>2, <2>5, <2>6
    <3>2. ~Ends(z, ord, G, i, a, u)
      BY <2>5, <2>6 DEF Ends
    <3>3. b >= k + 1
      BY <1>1, <2>1, <2>2, <3>1, <3>2
    <3>4. At(k + 1, b)
      BY <2>4, <2>5, <2>6, <3>1, <3>3
    <3>5. QED
      BY <2>2, <3>4
  <2>7. CASE b \notin G
    <3>1. ASSUME NEW d, NextAt(L, N, u, i, d) PROVE d = b
      BY <1>1, <2>2, <2>5, <3>1, NextUnique
    <3>2. Ends(z, ord, G, i, a, u)
      BY <2>1, <2>7, <3>1 DEF Ends
    <3>3. At(k + 1, u)
      BY <2>1, <2>4, <2>7, <3>2
    <3>4. QED
      BY <2>2, <3>3
  <2>8. QED
    BY <2>6, <2>7
<1>4. N \in T
  <2> HIDE DEF T, N
  <2>1. \A k \in 0 .. N : k \in T
    BY <1>1, <1>2, <1>3, UpTo
  <2>2. QED
    BY <1>1, <2>1
<1>5. PICK u : At(N, u)
  BY <1>4
<1>6. Ends(z, ord, G, i, a, u)
  <2>1. CASE u >= N
    <3>1. \A b : NextAt(L, N, u, i, b) => b > N /\ b \in Int
      BY <1>1, <1>5, <2>1 DEF NextAt
    <3>2. \A b \in G : ~(b > N)
      BY <1>1
    <3>3. QED
      BY <1>5, <3>1, <3>2 DEF Ends
  <2>2. QED
    BY <1>5, <2>1
<1>7. QED
  BY <1>1, <1>5, <1>6

\* A walk that is a function on the numbers of hops.
WalkIs(go, z, ord, c, G, i, a) ==
    /\ Follows(go, z, ord, c, G, i, a) /\ (\E D : go \in [0 .. z.length -> D])
    /\ \A n \in 0 .. z.length : \E u \in 0 .. Len(ord) :
          go[n] = PosFrom(ord, c, u) /\ Reaches(HeightsOf(z.levels, ord), u, i)

\* There is such a walk.
LEMMA WalkExists ==
    ASSUME NEW z, NEW ord, GoodList(z, ord), NEW c \in Int, NEW G \in SUBSET (1 .. Len(ord)),
           NEW i \in 0 .. (z.level - 1), NEW a \in 0 .. Len(ord), Reaches(HeightsOf(z.levels, ord), a, i)
    PROVE  \E go : WalkIs(go, z, ord, c, G, i, a)
<1> DEFINE L == HeightsOf(z.levels, ord)
           N == z.length
           U == {u \in 0 .. Len(ord) : Reaches(L, u, i)}
           D == {PosFrom(ord, c, u) : u \in U}
           In(q) == CHOOSE u \in U : q = PosFrom(ord, c, u)
           To(u) == CHOOSE b : HopsTo(z, ord, c, i, u, b)
           Step(q) == IF To(In(q)) \in G THEN PosFrom(ord, c, To(In(q))) ELSE q
           f == [m \in (1 .. N) \X D |-> Step(m[2])]
           s == PosFrom(ord, c, a)
<1>1. /\ N \in Nat /\ N = Len(ord) /\ HeightsUpTo(L, Len(ord)) /\ i \in Nat /\ OrderOf(ord, z.score)
  BY HeightsAre
<1>2. ASSUME NEW u \in U PROVE In(PosFrom(ord, c, u)) = u
  <2>1. In(PosFrom(ord, c, u)) \in U /\ PosFrom(ord, c, u) = PosFrom(ord, c, In(PosFrom(ord, c, u)))
    OBVIOUS
  <2> DEFINE v == In(PosFrom(ord, c, u))
  <2>2. NodeAt(ord, u) = NodeAt(ord, v)
    BY <2>1 DEF PosFrom
  <2> HIDE DEF v, In
  <2>3. u \in 0 .. (Len(ord) + 1) /\ v \in 0 .. (Len(ord) + 1)
    <3>1. v \in U
      BY <2>1 DEF v
    <3>2. QED
      BY <1>1, <3>1
  <2>4. u = v
    BY <1>1, <2>2, <2>3, NodesDiffer
  <2>5. QED
    BY <2>4 DEF v
<1>3. ASSUME NEW u \in U, NEW b, HopsTo(z, ord, c, i, u, b)
      PROVE  To(u) = b /\ (b \in G => b \in U)
  <2>1. HopsTo(z, ord, c, i, u, To(u))
    BY <1>3
  <2> HIDE DEF To
  <2>2. NextAt(L, Len(ord), u, i, b) /\ NextAt(L, Len(ord), u, i, To(u))
    BY <1>3, <2>1 DEF HopsTo
  <2>3. To(u) = b
    BY <1>1, <2>2, NextUnique
  <2>4. b \in G => b \in 0 .. Len(ord) /\ b <= Len(ord)
    BY <1>1
  <2>5. QED
    BY <1>3, <2>3, <2>4 DEF HopsTo
<1>4. ASSUME NEW u \in U, NEW b, HopsTo(z, ord, c, i, u, b)
      PROVE  Step(PosFrom(ord, c, u)) = IF b \in G THEN PosFrom(ord, c, b) ELSE PosFrom(ord, c, u)
  <2> HIDE DEF In, To
  <2>1. QED
    BY <1>2, <1>3, <1>4
<1>5. s \in D /\ a \in U
  OBVIOUS
<1>6. ASSUME NEW q \in D PROVE Step(q) \in D
  <2>1. PICK u \in U : q = PosFrom(ord, c, u)
    OBVIOUS
  <2>2. PICK b : HopsTo(z, ord, c, i, u, b)
    BY HopIs
  <2> HIDE DEF Step, U
  <2>3. QED
    BY <1>3, <1>4, <2>1, <2>2
<1>7. f \in [(1 .. N) \X D -> D]
  <2> HIDE DEF Step, D
  <2>1. QED
    BY <1>6
<1>8. \A n \in 1 .. N : \A q \in D : f[<<n, q>>] = Step(q)
  <2> HIDE DEF Step, D, N
  <2>1. QED
    OBVIOUS
<1>9. PICK g : Accumulates(g, N, s, f, D)
  <2> HIDE DEF N, D, f, s
  <2>1. QED
    BY <1>1, <1>5, <1>7, RecursionExists
<1>10. g \in [0 .. N -> D] /\ g[0] = s /\ \A n \in 1 .. N : g[n] = f[<<n, g[n - 1]>>]
  BY <1>9 DEF Accumulates
<1> HIDE DEF Step, f
<1>11. \A n \in 1 .. N : g[n - 1] \in D /\ g[n] = Step(g[n - 1])
  <2> TAKE n \in 1 .. N
  <2>1. n - 1 \in 0 .. N
    BY <1>1
  <2> HIDE DEF D
  <2>2. g[n - 1] \in D
    BY <1>10, <2>1
  <2>3. QED
    BY <1>8, <1>10, <2>2
<1>12. Follows(g, z, ord, c, G, i, a)
  <2>1. ASSUME NEW n \in 1 .. N, NEW u \in 0 .. Len(ord), NEW b, Reaches(L, u, i),
               g[n - 1] = PosFrom(ord, c, u), HopsTo(z, ord, c, i, u, b)
        PROVE  g[n] = IF b \in G THEN PosFrom(ord, c, b) ELSE PosFrom(ord, c, u)
    <3>1. u \in U
      BY <2>1
    <3>2. QED
      BY <1>4, <1>11, <2>1, <3>1
  <2>2. QED
    BY <1>10, <2>1 DEF Follows
<1>13. ASSUME NEW n \in 0 .. N
       PROVE  \E u \in 0 .. Len(ord) : g[n] = PosFrom(ord, c, u) /\ Reaches(L, u, i)
  BY <1>10
<1>14. \E E : g \in [0 .. z.length -> E]
  BY <1>10
<1>15. WalkIs(g, z, ord, c, G, i, a)
  BY <1>12, <1>13, <1>14 DEF WalkIs
<1>16. QED
  BY <1>15

\* Where a search that started at place a on level top is when it leaves level i.
LeftAt(z, ord, c, G, a, top, i, q) ==
    \E u \in a .. Len(ord) :
        /\ q = PosFrom(ord, c, u) /\ (u = a \/ u \in G) /\ (i > top => u = a)
        /\ i <= top => /\ Reaches(HeightsOf(z.levels, ord), u, i)
                       /\ \A b : NextAt(HeightsOf(z.levels, ord), Len(ord), u, i, b) => b \notin G

\* at has the places of a search, level by level.
GoesDown(at, z, ord, c, G, a, top) ==
    /\ at[top + 1] = PosFrom(ord, c, a)
    /\ \A i \in 0 .. top : \A u \in 0 .. Len(ord) :
          at[i + 1] = PosFrom(ord, c, u) /\ Reaches(HeightsOf(z.levels, ord), u, i)
              => \E v : Ends(z, ord, G, i, u, v) /\ at[i] = PosFrom(ord, c, v)

\* A search may start here.
StartsAt(z, ord, c, G, a, top) ==
    /\ GoodList(z, ord) /\ c \in Int /\ G \in SUBSET (1 .. Len(ord)) /\ a \in 0 .. Len(ord)
    /\ top \in 0 .. (z.level - 1) /\ Reaches(HeightsOf(z.levels, ord), a, top)

\* On the next level the search is at a node that has the level.
LEMMA LeaveReaches ==
    ASSUME NEW z, NEW ord, NEW c, NEW G, NEW a, NEW top, StartsAt(z, ord, c, G, a, top),
           NEW i \in 0 .. top, NEW q, LeftAt(z, ord, c, G, a, top, i + 1, q)
    PROVE  \E u \in a .. Len(ord) : /\ q = PosFrom(ord, c, u) /\ (u = a \/ u \in G) /\ u \in 0 .. Len(ord)
                                    /\ Reaches(HeightsOf(z.levels, ord), u, i)
<1> DEFINE L == HeightsOf(z.levels, ord)
<1>1. GoodList(z, ord) /\ a \in 0 .. Len(ord) /\ top \in 0 .. (z.level - 1) /\ Reaches(L, a, top)
  BY DEF StartsAt
<1>2. Len(ord) \in Nat /\ z.level \in Int /\ \A d \in 1 .. Len(ord) : L[d] \in 1 .. z.level
  BY <1>1, HeightsAre
<1>3. PICK u \in a .. Len(ord) : /\ q = PosFrom(ord, c, u) /\ (u = a \/ u \in G) /\ (i + 1 > top => u = a)
                                 /\ i + 1 <= top => Reaches(L, u, i + 1)
  BY DEF LeftAt
<1>4. u \in 0 .. Len(ord) /\ i \in Int /\ top \in Int
  BY <1>1, <1>2
<1>5. Reaches(L, u, i)
  <2>1. CASE u = 0
    BY <2>1 DEF Reaches
  <2>2. CASE u # 0
    <3>1. L[u] \in 1 .. z.level
      BY <1>2, <1>4, <2>2
    <3>2. CASE i + 1 <= top
      <4>1. L[u] > i + 1
        BY <1>3, <2>2, <3>2 DEF Reaches
      <4>2. QED
        BY <1>2, <1>4, <3>1, <4>1 DEF Reaches
    <3>3. CASE ~(i + 1 <= top)
      <4>1. u = a /\ i = top
        BY <1>3, <1>4, <3>3
      <4>2. QED
        BY <1>1, <4>1
    <3>4. QED
      BY <3>2, <3>3
  <2>3. QED
    BY <2>1, <2>2
<1>6. QED
  BY <1>3, <1>4, <1>5

\* And it leaves that level where the walk ends.
LEMMA LeaveNext ==
    ASSUME NEW z, NEW ord, NEW c, NEW G, NEW a, NEW top, StartsAt(z, ord, c, G, a, top),
           NEW i \in 0 .. top, NEW u \in a .. Len(ord), u = a \/ u \in G, NEW v, Ends(z, ord, G, i, u, v)
    PROVE  LeftAt(z, ord, c, G, a, top, i, PosFrom(ord, c, v))
<1>1. GoodList(z, ord) /\ a \in 0 .. Len(ord) /\ top \in Int
  BY HeightsAre DEF StartsAt
<1>2. Len(ord) \in Nat
  BY <1>1, HeightsAre
<1>3. v \in a .. Len(ord) /\ (v = a \/ v \in G) /\ ~(i > top)
  BY <1>1, <1>2 DEF Ends
<1>4. QED
  BY <1>3 DEF LeftAt, Ends

\* A search is where LeftAt says on every level.
LEMMA DescentIs ==
    ASSUME NEW z, NEW ord, NEW c, NEW G, NEW a, NEW top, StartsAt(z, ord, c, G, a, top),
           NEW at, GoesDown(at, z, ord, c, G, a, top)
    PROVE  \A i \in 0 .. (top + 1) : LeftAt(z, ord, c, G, a, top, i, at[i])
<1> DEFINE N == top + 1
           T == {k \in 0 .. N : LeftAt(z, ord, c, G, a, top, N - k, at[N - k])}
<1>1. GoodList(z, ord) /\ a \in 0 .. Len(ord) /\ top \in Nat
  BY HeightsAre DEF StartsAt
<1>2. Len(ord) \in Nat /\ N \in Nat
  BY <1>1, HeightsAre
<1>3. 0 \in T
  <2>1. N - 0 = N /\ N > top /\ ~(N <= top) /\ a \in a .. Len(ord) /\ 0 \in 0 .. N
    BY <1>1, <1>2
  <2>2. LeftAt(z, ord, c, G, a, top, N, at[N])
    BY <2>1 DEF LeftAt, GoesDown
  <2>3. QED
    BY <2>1, <2>2
<1>4. ASSUME NEW k \in 0 .. (N - 1), k \in T PROVE k + 1 \in T
  <2> DEFINE i == N - (k + 1)
  <2>1. i \in 0 .. top /\ i + 1 = N - k /\ k + 1 \in 0 .. N
    BY <1>1, <1>2
  <2>2. LeftAt(z, ord, c, G, a, top, i + 1, at[i + 1])
    BY <1>4, <2>1
  <2> HIDE DEF i
  <2>3. PICK u \in a .. Len(ord) : /\ at[i + 1] = PosFrom(ord, c, u) /\ (u = a \/ u \in G) /\ u \in 0 .. Len(ord)
                                   /\ Reaches(HeightsOf(z.levels, ord), u, i)
    BY <2>1, <2>2, LeaveReaches
  <2>4. PICK v : Ends(z, ord, G, i, u, v) /\ at[i] = PosFrom(ord, c, v)
    BY <2>1, <2>3 DEF GoesDown
  <2>5. LeftAt(z, ord, c, G, a, top, i, at[i])
    BY <2>1, <2>3, <2>4, LeaveNext
  <2>6. QED
    BY <2>1, <2>5 DEF i
<1>5. \A k \in 0 .. N : k \in T
  <2> HIDE DEF T, N
  <2>1. QED
    BY <1>2, <1>3, <1>4, UpTo
<1>6. ASSUME NEW i \in 0 .. (top + 1) PROVE LeftAt(z, ord, c, G, a, top, i, at[i])
  <2>1. N - i \in 0 .. N /\ N - (N - i) = i
    BY <1>1, <1>2
  <2>2. QED
    BY <1>5, <2>1
<1>7. QED
  BY <1>6

\* W walks along one level.
WalksOn(W, z, ord, c, G, top) ==
    \A i \in 0 .. top : \A u \in 0 .. Len(ord) :
        Reaches(HeightsOf(z.levels, ord), u, i)
            => \E v : Ends(z, ord, G, i, u, v) /\ W[<<i, PosFrom(ord, c, u)>>] = PosFrom(ord, c, v)

\* There is a search that uses W on every level.
LEMMA DescentExists ==
    ASSUME NEW z, NEW ord, NEW c, NEW G, NEW a, NEW top, StartsAt(z, ord, c, G, a, top),
           NEW W, WalksOn(W, z, ord, c, G, top)
    PROVE  \E at : /\ at = [i \in 0 .. (top + 1) |->
                              IF i > top THEN PosFrom(ord, c, a) ELSE W[<<i, at[i + 1]>>]]
                   /\ \A i \in 0 .. top : \E u \in 0 .. Len(ord) :
                         at[i + 1] = PosFrom(ord, c, u) /\ Reaches(HeightsOf(z.levels, ord), u, i)
<1> DEFINE N == top + 1
           D == {PosFrom(ord, c, u) : u \in 0 .. Len(ord)}
           next(k, q) == W[<<N - k, q>>]
           f == [m \in (1 .. N) \X D |-> IF next(m[1], m[2]) \in D THEN next(m[1], m[2]) ELSE m[2]]
           s == PosFrom(ord, c, a)
<1>1. GoodList(z, ord) /\ a \in 0 .. Len(ord) /\ top \in Nat
  BY HeightsAre DEF StartsAt
<1>2. Len(ord) \in Nat /\ N \in Nat \ {0} /\ s \in D /\ N \in Nat
  BY <1>1, HeightsAre
<1>3. f \in [(1 .. N) \X D -> D]
  OBVIOUS
<1>4. PICK h : Accumulates(h, N, s, f, D)
  <2> HIDE DEF N, D, f, s
  <2>1. QED
    BY <1>2, <1>3, RecursionExists
<1>5. h \in [0 .. N -> D] /\ h[0] = s /\ \A k \in 1 .. N : h[k] = f[<<k, h[k - 1]>>]
  BY <1>4 DEF Accumulates
<1> DEFINE at == [i \in 0 .. N |-> h[N - i]]
<1>6. ASSUME NEW i \in 0 .. top, NEW u \in 0 .. Len(ord), at[i + 1] = PosFrom(ord, c, u),
             Reaches(HeightsOf(z.levels, ord), u, i)
      PROVE  at[i] = W[<<i, at[i + 1]>>] /\ \E v : Ends(z, ord, G, i, u, v) /\ at[i] = PosFrom(ord, c, v)
  <2> DEFINE k == N - i
  <2>1. k \in 1 .. N /\ k - 1 \in 0 .. N /\ k - 1 = N - (i + 1) /\ N - k = i /\ i \in 0 .. N /\ i + 1 \in 0 .. N
    BY <1>1
  <2>2. at[i] = h[k] /\ at[i + 1] = h[k - 1]
    BY <2>1
  <2>3. PICK v : Ends(z, ord, G, i, u, v) /\ W[<<i, PosFrom(ord, c, u)>>] = PosFrom(ord, c, v)
    BY <1>6 DEF WalksOn
  <2>4. v \in 0 .. Len(ord)
    BY <1>2, <2>3 DEF Ends
  <2> DEFINE q == h[k - 1]
  <2>5. q \in D
    BY <1>5, <2>1
  <2>6. next(k, q) = PosFrom(ord, c, v)
    BY <1>6, <2>1, <2>2, <2>3
  <2>7. next(k, q) \in D
    BY <2>4, <2>6
  <2> HIDE DEF q, next, D, k
  <2>8. f[<<k, q>>] = next(k, q)
    BY <2>1, <2>5, <2>7
  <2>9. h[k] = next(k, q)
    BY <1>5, <2>1, <2>8 DEF q
  <2>10. QED
    BY <1>6, <2>2, <2>3, <2>6, <2>9
<1>7. at[N] = s /\ top + 1 = N
  <2>1. N - N = 0 /\ N \in 0 .. N
    BY <1>2
  <2>2. QED
    BY <1>5, <2>1
<1>8. DOMAIN at = 0 .. N /\ at = [i \in 0 .. N |-> at[i]]
  OBVIOUS
<1> HIDE DEF at, f, D
<1>9. GoesDown(at, z, ord, c, G, a, top)
  BY <1>6, <1>7 DEF GoesDown
<1>10. \A i \in 0 .. (top + 1) : LeftAt(z, ord, c, G, a, top, i, at[i])
  BY <1>9, DescentIs
<1>11. ASSUME NEW i \in 0 .. top
       PROVE  \E u \in 0 .. Len(ord) : at[i + 1] = PosFrom(ord, c, u) /\ Reaches(HeightsOf(z.levels, ord), u, i)
  <2>1. i + 1 \in 0 .. (top + 1)
    BY <1>1
  <2>2. LeftAt(z, ord, c, G, a, top, i + 1, at[i + 1])
    BY <1>10, <2>1
  <2>3. QED
    BY <2>2, LeaveReaches
<1>12. ASSUME NEW i \in 0 .. N PROVE at[i] = IF i > top THEN s ELSE W[<<i, at[i + 1]>>]
  <2>1. CASE i > top
    <3>1. i = N
      BY <1>1, <2>1
    <3>2. QED
      BY <1>7, <2>1, <3>1
  <2>2. CASE ~(i > top)
    <3>1. i \in 0 .. top
      BY <1>1, <2>2
    <3>2. QED
      BY <1>6, <1>11, <2>2, <3>1
  <2>3. QED
    BY <2>1, <2>2
<1>13. at = [i \in 0 .. (top + 1) |-> IF i > top THEN s ELSE W[<<i, at[i + 1]>>]]
  BY <1>8, <1>12
<1>14. QED
  BY <1>11, <1>13

-----------------------------------------------------------------------------
(* The search for a place. *)

\* The search for {s, ele} goes to the places in G.
LetsSpot(z, ord, c, s, ele, G) == \A b \in 1 .. Len(ord) : After(z, s, ele, ord[b]) <=> b \in G

StrollSpot(z, s, ele, p, i) == Advance(z, p, i, LAMBDA q, j : After(z, s, ele, z.forward[q.node][j]))
SearchSpot(z, s, ele, p, top) == Descend(z, p, top, LAMBDA q, j : After(z, s, ele, z.forward[q.node][j]))

WalksSpot(go, z, s, ele, p, i) ==
    go = [n \in 0 .. z.length |->
            IF n = 0 THEN p
            ELSE IF After(z, s, ele, z.forward[go[n - 1].node][i]) THEN Hop(z, go[n - 1], i) ELSE go[n - 1]]

DownsSpot(at, z, s, ele, p, top) ==
    at = [i \in 0 .. (top + 1) |-> IF i > top THEN p ELSE StrollSpot(z, s, ele, at[i + 1], i)]

\* A walk is a recursive function, and so is the descent over the levels.
LEMMA StrollSpotAt ==
    ASSUME NEW z, NEW s, NEW ele, NEW p, NEW i, NEW g, WalksSpot(g, z, s, ele, p, i)
    PROVE  \E go : WalksSpot(go, z, s, ele, p, i) /\ StrollSpot(z, s, ele, p, i) = go[z.length]
<1> DEFINE go == CHOOSE go : WalksSpot(go, z, s, ele, p, i)
<1>1. WalksSpot(go, z, s, ele, p, i)
  OBVIOUS
<1>2. StrollSpot(z, s, ele, p, i) = go[z.length]
  BY DEF StrollSpot, Advance, WalksSpot
<1>3. QED
  BY <1>1, <1>2

\* The same for the levels.
LEMMA SearchSpotAt ==
    ASSUME NEW z, NEW s, NEW ele, NEW p, NEW top, NEW g, DownsSpot(g, z, s, ele, p, top)
    PROVE  \E at : /\ DownsSpot(at, z, s, ele, p, top)
                   /\ SearchSpot(z, s, ele, p, top) = [i \in 0 .. top |-> at[i]]
<1> DEFINE at == CHOOSE at : DownsSpot(at, z, s, ele, p, top)
<1>1. DownsSpot(at, z, s, ele, p, top)
  OBVIOUS
<1>2. SearchSpot(z, s, ele, p, top) = [i \in 0 .. top |-> at[i]]
  BY DEF SearchSpot, Descend, DownsSpot, StrollSpot
<1>3. QED
  BY <1>1, <1>2

\* The walk along one level.
LEMMA StrollSpotIs ==
    ASSUME NEW z, NEW ord, NEW c, NEW G, NEW a, NEW i, StartsAt(z, ord, c, G, a, i), NEW s, NEW ele,
           LetsSpot(z, ord, c, s, ele, G)
    PROVE  \E u : Ends(z, ord, G, i, a, u) /\ StrollSpot(z, s, ele, PosFrom(ord, c, a), i) = PosFrom(ord, c, u)
<1> DEFINE N == z.length
           p == PosFrom(ord, c, a)
           Step(q) == IF After(z, s, ele, z.forward[q.node][i]) THEN Hop(z, q, i) ELSE q
<1>0. /\ GoodList(z, ord) /\ c \in Int /\ G \in SUBSET (1 .. Len(ord)) /\ a \in 0 .. Len(ord)
      /\ i \in 0 .. (z.level - 1) /\ Reaches(HeightsOf(z.levels, ord), a, i)
  BY DEF StartsAt
<1>1. N \in Nat /\ N = Len(ord)
  BY <1>0, HeightsAre
<1>2. ASSUME NEW u \in 0 .. Len(ord), NEW b, Reaches(HeightsOf(z.levels, ord), u, i), HopsTo(z, ord, c, i, u, b)
      PROVE  Step(PosFrom(ord, c, u)) = IF b \in G THEN PosFrom(ord, c, b) ELSE PosFrom(ord, c, u)
  <2> DEFINE q == PosFrom(ord, c, u)
  <2>1. q.node = NodeAt(ord, u) /\ z.forward[q.node][i] = NodeAt(ord, b) /\ b \in (u + 1) .. (Len(ord) + 1)
    BY <1>2 DEF PosFrom, HopsTo
  <2>2. CASE b <= Len(ord)
    <3>1. /\ Hop(z, q, i) = PosFrom(ord, c, b) /\ b \in 1 .. Len(ord)
          /\ NodeAt(ord, b) = ord[b] /\ NodeAt(ord, b) # NIL
      BY <1>1, <1>2, <2>1, <2>2 DEF HopsTo
    <3>2. PosFrom(ord, c, b).rank = b - c
      BY DEF PosFrom
    <3>3. After(z, s, ele, z.forward[q.node][i]) <=> b \in G
      BY <2>1, <3>1, <3>2 DEF LetsSpot
    <3>4. QED
      BY <3>1, <3>3
  <2>3. CASE ~(b <= Len(ord))
    <3>1. b \notin G /\ NodeAt(ord, b) = NIL
      BY <1>0, <1>1, <1>2, <2>1, <2>3 DEF HopsTo
    <3>2. ~(After(z, s, ele, z.forward[q.node][i]))
      BY <2>1, <3>1 DEF After
    <3>3. QED
      BY <3>1, <3>2
  <2>4. QED
    BY <2>2, <2>3
<1>3. PICK g : WalkIs(g, z, ord, c, G, i, a)
  BY <1>0, WalkExists
<1>4. WalksSpot(g, z, s, ele, p, i)
  <2>1. ASSUME NEW n \in 1 .. N PROVE g[n] = Step(g[n - 1])
    <3>1. n - 1 \in 0 .. N
      BY <1>1
    <3>2. PICK u \in 0 .. Len(ord) : g[n - 1] = PosFrom(ord, c, u) /\ Reaches(HeightsOf(z.levels, ord), u, i)
      BY <1>3, <3>1 DEF WalkIs
    <3>3. PICK b : HopsTo(z, ord, c, i, u, b)
      BY <1>0, <3>2, HopIs
    <3>4. Step(g[n - 1]) = IF b \in G THEN PosFrom(ord, c, b) ELSE PosFrom(ord, c, u)
      BY <1>2, <3>2, <3>3
    <3> HIDE DEF Step
    <3>5. QED
      BY <1>3, <3>2, <3>3, <3>4 DEF WalkIs, Follows
  <2>2. g[0] = p
    BY <1>3 DEF WalkIs, Follows
  <2>3. PICK D : g \in [0 .. N -> D]
    BY <1>3 DEF WalkIs
  <2> HIDE DEF Step, p, N
  <2>4. g = [n \in 0 .. N |-> IF n = 0 THEN p ELSE Step(g[n - 1])]
    BY <1>1, <2>1, <2>2, <2>3
  <2>5. QED
    BY <2>4 DEF WalksSpot, Step, N
<1>5. PICK go : WalksSpot(go, z, s, ele, p, i) /\ StrollSpot(z, s, ele, p, i) = go[N]
  <2> HIDE DEF p
  <2>1. QED
    BY <1>4, StrollSpotAt
<1>6. go[0] = p /\ \A n \in 1 .. N : go[n] = Step(go[n - 1])
  <2>1. go = [n \in 0 .. N |-> IF n = 0 THEN p ELSE Step(go[n - 1])]
    BY <1>5 DEF WalksSpot
  <2> HIDE DEF Step, N, p
  <2>2. QED
    BY <1>1, <2>1
<1> HIDE DEF Step
<1>7. Follows(go, z, ord, c, G, i, a)
  <2>1. ASSUME NEW n \in 1 .. N, NEW u \in 0 .. Len(ord), NEW b, Reaches(HeightsOf(z.levels, ord), u, i),
               go[n - 1] = PosFrom(ord, c, u), HopsTo(z, ord, c, i, u, b)
        PROVE  go[n] = IF b \in G THEN PosFrom(ord, c, b) ELSE PosFrom(ord, c, u)
    BY <1>2, <1>6, <2>1
  <2>2. QED
    BY <1>6, <2>1 DEF Follows
<1>8. PICK u : Ends(z, ord, G, i, a, u) /\ go[N] = PosFrom(ord, c, u)
  BY <1>0, <1>7, WalkEnds
<1>9. QED
  BY <1>5, <1>8

\* The search over the levels.
LEMMA SearchSpotIs ==
    ASSUME NEW z, NEW ord, NEW c, NEW G, NEW a, NEW top, StartsAt(z, ord, c, G, a, top), NEW s, NEW ele,
           LetsSpot(z, ord, c, s, ele, G)
    PROVE  /\ DOMAIN SearchSpot(z, s, ele, PosFrom(ord, c, a), top) = 0 .. top
           /\ \A i \in 0 .. top : LeftAt(z, ord, c, G, a, top, i, SearchSpot(z, s, ele, PosFrom(ord, c, a), top)[i])
<1> DEFINE D == {PosFrom(ord, c, u) : u \in 0 .. Len(ord)}
           W == [m \in (0 .. top) \X D |-> StrollSpot(z, s, ele, m[2], m[1])]
           p == PosFrom(ord, c, a)
<1>1. /\ GoodList(z, ord) /\ c \in Int /\ G \in SUBSET (1 .. Len(ord)) /\ a \in 0 .. Len(ord)
      /\ top \in 0 .. (z.level - 1)
  BY DEF StartsAt
<1>2. z.level \in Nat /\ top \in Nat
  BY <1>1, HeightsAre
<1>3. ASSUME NEW i \in 0 .. top, NEW u \in 0 .. Len(ord)
      PROVE  W[<<i, PosFrom(ord, c, u)>>] = StrollSpot(z, s, ele, PosFrom(ord, c, u), i)
  <2>1. PosFrom(ord, c, u) \in D
    OBVIOUS
  <2> HIDE DEF D
  <2>2. QED
    BY <2>1
<1> HIDE DEF W
<1>4. ASSUME NEW i \in 0 .. top, NEW u \in 0 .. Len(ord), Reaches(HeightsOf(z.levels, ord), u, i)
      PROVE  \E v : Ends(z, ord, G, i, u, v) /\ StrollSpot(z, s, ele, PosFrom(ord, c, u), i) = PosFrom(ord, c, v)
  <2>1. i \in 0 .. (z.level - 1)
    BY <1>1, <1>2
  <2>2. StartsAt(z, ord, c, G, u, i)
    BY <1>1, <1>4, <2>1 DEF StartsAt
  <2>3. QED
    BY <2>2, StrollSpotIs
<1>5. WalksOn(W, z, ord, c, G, top)
  BY <1>3, <1>4 DEF WalksOn
<1>6. PICK g : /\ g = [i \in 0 .. (top + 1) |-> IF i > top THEN p ELSE W[<<i, g[i + 1]>>]]
               /\ \A i \in 0 .. top : \E u \in 0 .. Len(ord) :
                     g[i + 1] = PosFrom(ord, c, u) /\ Reaches(HeightsOf(z.levels, ord), u, i)
  BY <1>5, DescentExists
<1>7. DownsSpot(g, z, s, ele, p, top)
  <2>1. ASSUME NEW i \in 0 .. (top + 1)
        PROVE  g[i] = IF i > top THEN p ELSE StrollSpot(z, s, ele, g[i + 1], i)
    <3>1. g[i] = IF i > top THEN p ELSE W[<<i, g[i + 1]>>]
      BY <1>6
    <3>2. CASE i > top
      BY <3>1, <3>2
    <3>3. CASE ~(i > top)
      <4>1. i \in 0 .. top
        BY <1>2, <3>3
      <4>2. W[<<i, g[i + 1]>>] = StrollSpot(z, s, ele, g[i + 1], i)
        BY <1>3, <1>6, <4>1
      <4>3. QED
        BY <3>1, <3>3, <4>2
    <3>4. QED
      BY <3>2, <3>3
  <2>2. g = [i \in 0 .. (top + 1) |-> g[i]]
    BY <1>6
  <2> HIDE DEF p
  <2>3. QED
    BY <2>1, <2>2 DEF DownsSpot
<1>8. PICK at : DownsSpot(at, z, s, ele, p, top) /\ SearchSpot(z, s, ele, p, top) = [i \in 0 .. top |-> at[i]]
  <2> HIDE DEF p
  <2>1. QED
    BY <1>7, SearchSpotAt
<1>9. \A i \in 0 .. (top + 1) : at[i] = IF i > top THEN p ELSE StrollSpot(z, s, ele, at[i + 1], i)
  BY <1>8 DEF DownsSpot
<1>10. GoesDown(at, z, ord, c, G, a, top)
  <2>1. at[top + 1] = p
    BY <1>2, <1>9
  <2>2. ASSUME NEW i \in 0 .. top PROVE at[i] = StrollSpot(z, s, ele, at[i + 1], i)
    BY <1>2, <1>9
  <2>3. QED
    BY <1>4, <2>1, <2>2 DEF GoesDown
<1>11. \A i \in 0 .. (top + 1) : LeftAt(z, ord, c, G, a, top, i, at[i])
  BY <1>10, DescentIs
<1>12. \A i \in 0 .. top : i \in 0 .. (top + 1) /\ SearchSpot(z, s, ele, p, top)[i] = at[i]
  BY <1>2, <1>8
<1>13. QED
  BY <1>8, <1>11, <1>12

-----------------------------------------------------------------------------
(* The search for a rank. *)

\* The search for the rank behind place c goes to the places in G.
LetsRank(z, ord, c, rank, G) == \A b \in 1 .. Len(ord) : (rank < 0 \/ b - c <= rank) <=> b \in G

StrollRank(z, rank, p, i) == Advance(z, p, i, LAMBDA q, j : (z.forward[q.node][j] # NIL /\ (rank < 0 \/ Hop(z, q, j).rank <= rank)))
SearchRank(z, rank, p, top) == Descend(z, p, top, LAMBDA q, j : (z.forward[q.node][j] # NIL /\ (rank < 0 \/ Hop(z, q, j).rank <= rank)))

WalksRank(go, z, rank, p, i) ==
    go = [n \in 0 .. z.length |->
            IF n = 0 THEN p
            ELSE IF (z.forward[go[n - 1].node][i] # NIL /\ (rank < 0 \/ Hop(z, go[n - 1], i).rank <= rank)) THEN Hop(z, go[n - 1], i) ELSE go[n - 1]]

DownsRank(at, z, rank, p, top) ==
    at = [i \in 0 .. (top + 1) |-> IF i > top THEN p ELSE StrollRank(z, rank, at[i + 1], i)]

\* A walk is a recursive function, and so is the descent over the levels.
LEMMA StrollRankAt ==
    ASSUME NEW z, NEW rank, NEW p, NEW i, NEW g, WalksRank(g, z, rank, p, i)
    PROVE  \E go : WalksRank(go, z, rank, p, i) /\ StrollRank(z, rank, p, i) = go[z.length]
<1> DEFINE go == CHOOSE go : WalksRank(go, z, rank, p, i)
<1>1. WalksRank(go, z, rank, p, i)
  OBVIOUS
<1>2. StrollRank(z, rank, p, i) = go[z.length]
  BY DEF StrollRank, Advance, WalksRank
<1>3. QED
  BY <1>1, <1>2

\* The same for the levels.
LEMMA SearchRankAt ==
    ASSUME NEW z, NEW rank, NEW p, NEW top, NEW g, DownsRank(g, z, rank, p, top)
    PROVE  \E at : /\ DownsRank(at, z, rank, p, top)
                   /\ SearchRank(z, rank, p, top) = [i \in 0 .. top |-> at[i]]
<1> DEFINE at == CHOOSE at : DownsRank(at, z, rank, p, top)
<1>1. DownsRank(at, z, rank, p, top)
  OBVIOUS
<1>2. SearchRank(z, rank, p, top) = [i \in 0 .. top |-> at[i]]
  BY DEF SearchRank, Descend, DownsRank, StrollRank
<1>3. QED
  BY <1>1, <1>2

\* The walk along one level.
LEMMA StrollRankIs ==
    ASSUME NEW z, NEW ord, NEW c, NEW G, NEW a, NEW i, StartsAt(z, ord, c, G, a, i), NEW rank,
           LetsRank(z, ord, c, rank, G)
    PROVE  \E u : Ends(z, ord, G, i, a, u) /\ StrollRank(z, rank, PosFrom(ord, c, a), i) = PosFrom(ord, c, u)
<1> DEFINE N == z.length
           p == PosFrom(ord, c, a)
           Step(q) == IF (z.forward[q.node][i] # NIL /\ (rank < 0 \/ Hop(z, q, i).rank <= rank)) THEN Hop(z, q, i) ELSE q
<1>0. /\ GoodList(z, ord) /\ c \in Int /\ G \in SUBSET (1 .. Len(ord)) /\ a \in 0 .. Len(ord)
      /\ i \in 0 .. (z.level - 1) /\ Reaches(HeightsOf(z.levels, ord), a, i)
  BY DEF StartsAt
<1>1. N \in Nat /\ N = Len(ord)
  BY <1>0, HeightsAre
<1>2. ASSUME NEW u \in 0 .. Len(ord), NEW b, Reaches(HeightsOf(z.levels, ord), u, i), HopsTo(z, ord, c, i, u, b)
      PROVE  Step(PosFrom(ord, c, u)) = IF b \in G THEN PosFrom(ord, c, b) ELSE PosFrom(ord, c, u)
  <2> DEFINE q == PosFrom(ord, c, u)
  <2>1. q.node = NodeAt(ord, u) /\ z.forward[q.node][i] = NodeAt(ord, b) /\ b \in (u + 1) .. (Len(ord) + 1)
    BY <1>2 DEF PosFrom, HopsTo
  <2>2. CASE b <= Len(ord)
    <3>1. /\ Hop(z, q, i) = PosFrom(ord, c, b) /\ b \in 1 .. Len(ord)
          /\ NodeAt(ord, b) = ord[b] /\ NodeAt(ord, b) # NIL
      BY <1>1, <1>2, <2>1, <2>2 DEF HopsTo
    <3>2. PosFrom(ord, c, b).rank = b - c
      BY DEF PosFrom
    <3>3. (z.forward[q.node][i] # NIL /\ (rank < 0 \/ Hop(z, q, i).rank <= rank)) <=> b \in G
      BY <2>1, <3>1, <3>2 DEF LetsRank
    <3>4. QED
      BY <3>1, <3>3
  <2>3. CASE ~(b <= Len(ord))
    <3>1. b \notin G /\ NodeAt(ord, b) = NIL
      BY <1>0, <1>1, <1>2, <2>1, <2>3 DEF HopsTo
    <3>2. ~((z.forward[q.node][i] # NIL /\ (rank < 0 \/ Hop(z, q, i).rank <= rank)))
      BY <2>1, <3>1
    <3>3. QED
      BY <3>1, <3>2
  <2>4. QED
    BY <2>2, <2>3
<1>3. PICK g : WalkIs(g, z, ord, c, G, i, a)
  BY <1>0, WalkExists
<1>4. WalksRank(g, z, rank, p, i)
  <2>1. ASSUME NEW n \in 1 .. N PROVE g[n] = Step(g[n - 1])
    <3>1. n - 1 \in 0 .. N
      BY <1>1
    <3>2. PICK u \in 0 .. Len(ord) : g[n - 1] = PosFrom(ord, c, u) /\ Reaches(HeightsOf(z.levels, ord), u, i)
      BY <1>3, <3>1 DEF WalkIs
    <3>3. PICK b : HopsTo(z, ord, c, i, u, b)
      BY <1>0, <3>2, HopIs
    <3>4. Step(g[n - 1]) = IF b \in G THEN PosFrom(ord, c, b) ELSE PosFrom(ord, c, u)
      BY <1>2, <3>2, <3>3
    <3> HIDE DEF Step
    <3>5. QED
      BY <1>3, <3>2, <3>3, <3>4 DEF WalkIs, Follows
  <2>2. g[0] = p
    BY <1>3 DEF WalkIs, Follows
  <2>3. PICK D : g \in [0 .. N -> D]
    BY <1>3 DEF WalkIs
  <2> HIDE DEF Step, p, N
  <2>4. g = [n \in 0 .. N |-> IF n = 0 THEN p ELSE Step(g[n - 1])]
    BY <1>1, <2>1, <2>2, <2>3
  <2>5. QED
    BY <2>4 DEF WalksRank, Step, N
<1>5. PICK go : WalksRank(go, z, rank, p, i) /\ StrollRank(z, rank, p, i) = go[N]
  <2> HIDE DEF p
  <2>1. QED
    BY <1>4, StrollRankAt
<1>6. go[0] = p /\ \A n \in 1 .. N : go[n] = Step(go[n - 1])
  <2>1. go = [n \in 0 .. N |-> IF n = 0 THEN p ELSE Step(go[n - 1])]
    BY <1>5 DEF WalksRank
  <2> HIDE DEF Step, N, p
  <2>2. QED
    BY <1>1, <2>1
<1> HIDE DEF Step
<1>7. Follows(go, z, ord, c, G, i, a)
  <2>1. ASSUME NEW n \in 1 .. N, NEW u \in 0 .. Len(ord), NEW b, Reaches(HeightsOf(z.levels, ord), u, i),
               go[n - 1] = PosFrom(ord, c, u), HopsTo(z, ord, c, i, u, b)
        PROVE  go[n] = IF b \in G THEN PosFrom(ord, c, b) ELSE PosFrom(ord, c, u)
    BY <1>2, <1>6, <2>1
  <2>2. QED
    BY <1>6, <2>1 DEF Follows
<1>8. PICK u : Ends(z, ord, G, i, a, u) /\ go[N] = PosFrom(ord, c, u)
  BY <1>0, <1>7, WalkEnds
<1>9. QED
  BY <1>5, <1>8

\* The search over the levels.
LEMMA SearchRankIs ==
    ASSUME NEW z, NEW ord, NEW c, NEW G, NEW a, NEW top, StartsAt(z, ord, c, G, a, top), NEW rank,
           LetsRank(z, ord, c, rank, G)
    PROVE  /\ DOMAIN SearchRank(z, rank, PosFrom(ord, c, a), top) = 0 .. top
           /\ \A i \in 0 .. top : LeftAt(z, ord, c, G, a, top, i, SearchRank(z, rank, PosFrom(ord, c, a), top)[i])
<1> DEFINE D == {PosFrom(ord, c, u) : u \in 0 .. Len(ord)}
           W == [m \in (0 .. top) \X D |-> StrollRank(z, rank, m[2], m[1])]
           p == PosFrom(ord, c, a)
<1>1. /\ GoodList(z, ord) /\ c \in Int /\ G \in SUBSET (1 .. Len(ord)) /\ a \in 0 .. Len(ord)
      /\ top \in 0 .. (z.level - 1)
  BY DEF StartsAt
<1>2. z.level \in Nat /\ top \in Nat
  BY <1>1, HeightsAre
<1>3. ASSUME NEW i \in 0 .. top, NEW u \in 0 .. Len(ord)
      PROVE  W[<<i, PosFrom(ord, c, u)>>] = StrollRank(z, rank, PosFrom(ord, c, u), i)
  <2>1. PosFrom(ord, c, u) \in D
    OBVIOUS
  <2> HIDE DEF D
  <2>2. QED
    BY <2>1
<1> HIDE DEF W
<1>4. ASSUME NEW i \in 0 .. top, NEW u \in 0 .. Len(ord), Reaches(HeightsOf(z.levels, ord), u, i)
      PROVE  \E v : Ends(z, ord, G, i, u, v) /\ StrollRank(z, rank, PosFrom(ord, c, u), i) = PosFrom(ord, c, v)
  <2>1. i \in 0 .. (z.level - 1)
    BY <1>1, <1>2
  <2>2. StartsAt(z, ord, c, G, u, i)
    BY <1>1, <1>4, <2>1 DEF StartsAt
  <2>3. QED
    BY <2>2, StrollRankIs
<1>5. WalksOn(W, z, ord, c, G, top)
  BY <1>3, <1>4 DEF WalksOn
<1>6. PICK g : /\ g = [i \in 0 .. (top + 1) |-> IF i > top THEN p ELSE W[<<i, g[i + 1]>>]]
               /\ \A i \in 0 .. top : \E u \in 0 .. Len(ord) :
                     g[i + 1] = PosFrom(ord, c, u) /\ Reaches(HeightsOf(z.levels, ord), u, i)
  BY <1>5, DescentExists
<1>7. DownsRank(g, z, rank, p, top)
  <2>1. ASSUME NEW i \in 0 .. (top + 1)
        PROVE  g[i] = IF i > top THEN p ELSE StrollRank(z, rank, g[i + 1], i)
    <3>1. g[i] = IF i > top THEN p ELSE W[<<i, g[i + 1]>>]
      BY <1>6
    <3>2. CASE i > top
      BY <3>1, <3>2
    <3>3. CASE ~(i > top)
      <4>1. i \in 0 .. top
        BY <1>2, <3>3
      <4>2. W[<<i, g[i + 1]>>] = StrollRank(z, rank, g[i + 1], i)
        BY <1>3, <1>6, <4>1
      <4>3. QED
        BY <3>1, <3>3, <4>2
    <3>4. QED
      BY <3>2, <3>3
  <2>2. g = [i \in 0 .. (top + 1) |-> g[i]]
    BY <1>6
  <2> HIDE DEF p
  <2>3. QED
    BY <2>1, <2>2 DEF DownsRank
<1>8. PICK at : DownsRank(at, z, rank, p, top) /\ SearchRank(z, rank, p, top) = [i \in 0 .. top |-> at[i]]
  <2> HIDE DEF p
  <2>1. QED
    BY <1>7, SearchRankAt
<1>9. \A i \in 0 .. (top + 1) : at[i] = IF i > top THEN p ELSE StrollRank(z, rank, at[i + 1], i)
  BY <1>8 DEF DownsRank
<1>10. GoesDown(at, z, ord, c, G, a, top)
  <2>1. at[top + 1] = p
    BY <1>2, <1>9
  <2>2. ASSUME NEW i \in 0 .. top PROVE at[i] = StrollRank(z, rank, at[i + 1], i)
    BY <1>2, <1>9
  <2>3. QED
    BY <1>4, <2>1, <2>2 DEF GoesDown
<1>11. \A i \in 0 .. (top + 1) : LeftAt(z, ord, c, G, a, top, i, at[i])
  BY <1>10, DescentIs
<1>12. \A i \in 0 .. top : i \in 0 .. (top + 1) /\ SearchRank(z, rank, p, top)[i] = at[i]
  BY <1>2, <1>8
<1>13. QED
  BY <1>8, <1>11, <1>12

-----------------------------------------------------------------------------
(* The search for the end before a range. *)

\* The nodes before the range are in the places of G.
LetsBelow(z, ord, c, r, G) == \A b \in 1 .. Len(ord) : ~GteMin(Bound(z, r, ord[b]), r) <=> b \in G

StrollBelow(z, r, p, i) == Advance(z, p, i, LAMBDA q, j : (z.forward[q.node][j] # NIL /\ ~GteMin(Bound(z, r, z.forward[q.node][j]), r)))
SearchBelow(z, r, p, top) == Descend(z, p, top, LAMBDA q, j : (z.forward[q.node][j] # NIL /\ ~GteMin(Bound(z, r, z.forward[q.node][j]), r)))

WalksBelow(go, z, r, p, i) ==
    go = [n \in 0 .. z.length |->
            IF n = 0 THEN p
            ELSE IF (z.forward[go[n - 1].node][i] # NIL /\ ~GteMin(Bound(z, r, z.forward[go[n - 1].node][i]), r)) THEN Hop(z, go[n - 1], i) ELSE go[n - 1]]

DownsBelow(at, z, r, p, top) ==
    at = [i \in 0 .. (top + 1) |-> IF i > top THEN p ELSE StrollBelow(z, r, at[i + 1], i)]

\* A walk is a recursive function, and so is the descent over the levels.
LEMMA StrollBelowAt ==
    ASSUME NEW z, NEW r, NEW p, NEW i, NEW g, WalksBelow(g, z, r, p, i)
    PROVE  \E go : WalksBelow(go, z, r, p, i) /\ StrollBelow(z, r, p, i) = go[z.length]
<1> DEFINE go == CHOOSE go : WalksBelow(go, z, r, p, i)
<1>1. WalksBelow(go, z, r, p, i)
  OBVIOUS
<1>2. StrollBelow(z, r, p, i) = go[z.length]
  BY DEF StrollBelow, Advance, WalksBelow
<1>3. QED
  BY <1>1, <1>2

\* The same for the levels.
LEMMA SearchBelowAt ==
    ASSUME NEW z, NEW r, NEW p, NEW top, NEW g, DownsBelow(g, z, r, p, top)
    PROVE  \E at : /\ DownsBelow(at, z, r, p, top)
                   /\ SearchBelow(z, r, p, top) = [i \in 0 .. top |-> at[i]]
<1> DEFINE at == CHOOSE at : DownsBelow(at, z, r, p, top)
<1>1. DownsBelow(at, z, r, p, top)
  OBVIOUS
<1>2. SearchBelow(z, r, p, top) = [i \in 0 .. top |-> at[i]]
  BY DEF SearchBelow, Descend, DownsBelow, StrollBelow
<1>3. QED
  BY <1>1, <1>2

\* The walk along one level.
LEMMA StrollBelowIs ==
    ASSUME NEW z, NEW ord, NEW c, NEW G, NEW a, NEW i, StartsAt(z, ord, c, G, a, i), NEW r,
           LetsBelow(z, ord, c, r, G)
    PROVE  \E u : Ends(z, ord, G, i, a, u) /\ StrollBelow(z, r, PosFrom(ord, c, a), i) = PosFrom(ord, c, u)
<1> DEFINE N == z.length
           p == PosFrom(ord, c, a)
           Step(q) == IF (z.forward[q.node][i] # NIL /\ ~GteMin(Bound(z, r, z.forward[q.node][i]), r)) THEN Hop(z, q, i) ELSE q
<1>0. /\ GoodList(z, ord) /\ c \in Int /\ G \in SUBSET (1 .. Len(ord)) /\ a \in 0 .. Len(ord)
      /\ i \in 0 .. (z.level - 1) /\ Reaches(HeightsOf(z.levels, ord), a, i)
  BY DEF StartsAt
<1>1. N \in Nat /\ N = Len(ord)
  BY <1>0, HeightsAre
<1>2. ASSUME NEW u \in 0 .. Len(ord), NEW b, Reaches(HeightsOf(z.levels, ord), u, i), HopsTo(z, ord, c, i, u, b)
      PROVE  Step(PosFrom(ord, c, u)) = IF b \in G THEN PosFrom(ord, c, b) ELSE PosFrom(ord, c, u)
  <2> DEFINE q == PosFrom(ord, c, u)
  <2>1. q.node = NodeAt(ord, u) /\ z.forward[q.node][i] = NodeAt(ord, b) /\ b \in (u + 1) .. (Len(ord) + 1)
    BY <1>2 DEF PosFrom, HopsTo
  <2>2. CASE b <= Len(ord)
    <3>1. /\ Hop(z, q, i) = PosFrom(ord, c, b) /\ b \in 1 .. Len(ord)
          /\ NodeAt(ord, b) = ord[b] /\ NodeAt(ord, b) # NIL
      BY <1>1, <1>2, <2>1, <2>2 DEF HopsTo
    <3>2. PosFrom(ord, c, b).rank = b - c
      BY DEF PosFrom
    <3>3. (z.forward[q.node][i] # NIL /\ ~GteMin(Bound(z, r, z.forward[q.node][i]), r)) <=> b \in G
      BY <2>1, <3>1, <3>2 DEF LetsBelow
    <3>4. QED
      BY <3>1, <3>3
  <2>3. CASE ~(b <= Len(ord))
    <3>1. b \notin G /\ NodeAt(ord, b) = NIL
      BY <1>0, <1>1, <1>2, <2>1, <2>3 DEF HopsTo
    <3>2. ~((z.forward[q.node][i] # NIL /\ ~GteMin(Bound(z, r, z.forward[q.node][i]), r)))
      BY <2>1, <3>1
    <3>3. QED
      BY <3>1, <3>2
  <2>4. QED
    BY <2>2, <2>3
<1>3. PICK g : WalkIs(g, z, ord, c, G, i, a)
  BY <1>0, WalkExists
<1>4. WalksBelow(g, z, r, p, i)
  <2>1. ASSUME NEW n \in 1 .. N PROVE g[n] = Step(g[n - 1])
    <3>1. n - 1 \in 0 .. N
      BY <1>1
    <3>2. PICK u \in 0 .. Len(ord) : g[n - 1] = PosFrom(ord, c, u) /\ Reaches(HeightsOf(z.levels, ord), u, i)
      BY <1>3, <3>1 DEF WalkIs
    <3>3. PICK b : HopsTo(z, ord, c, i, u, b)
      BY <1>0, <3>2, HopIs
    <3>4. Step(g[n - 1]) = IF b \in G THEN PosFrom(ord, c, b) ELSE PosFrom(ord, c, u)
      BY <1>2, <3>2, <3>3
    <3> HIDE DEF Step
    <3>5. QED
      BY <1>3, <3>2, <3>3, <3>4 DEF WalkIs, Follows
  <2>2. g[0] = p
    BY <1>3 DEF WalkIs, Follows
  <2>3. PICK D : g \in [0 .. N -> D]
    BY <1>3 DEF WalkIs
  <2> HIDE DEF Step, p, N
  <2>4. g = [n \in 0 .. N |-> IF n = 0 THEN p ELSE Step(g[n - 1])]
    BY <1>1, <2>1, <2>2, <2>3
  <2>5. QED
    BY <2>4 DEF WalksBelow, Step, N
<1>5. PICK go : WalksBelow(go, z, r, p, i) /\ StrollBelow(z, r, p, i) = go[N]
  <2> HIDE DEF p
  <2>1. QED
    BY <1>4, StrollBelowAt
<1>6. go[0] = p /\ \A n \in 1 .. N : go[n] = Step(go[n - 1])
  <2>1. go = [n \in 0 .. N |-> IF n = 0 THEN p ELSE Step(go[n - 1])]
    BY <1>5 DEF WalksBelow
  <2> HIDE DEF Step, N, p
  <2>2. QED
    BY <1>1, <2>1
<1> HIDE DEF Step
<1>7. Follows(go, z, ord, c, G, i, a)
  <2>1. ASSUME NEW n \in 1 .. N, NEW u \in 0 .. Len(ord), NEW b, Reaches(HeightsOf(z.levels, ord), u, i),
               go[n - 1] = PosFrom(ord, c, u), HopsTo(z, ord, c, i, u, b)
        PROVE  go[n] = IF b \in G THEN PosFrom(ord, c, b) ELSE PosFrom(ord, c, u)
    BY <1>2, <1>6, <2>1
  <2>2. QED
    BY <1>6, <2>1 DEF Follows
<1>8. PICK u : Ends(z, ord, G, i, a, u) /\ go[N] = PosFrom(ord, c, u)
  BY <1>0, <1>7, WalkEnds
<1>9. QED
  BY <1>5, <1>8

\* The search over the levels.
LEMMA SearchBelowIs ==
    ASSUME NEW z, NEW ord, NEW c, NEW G, NEW a, NEW top, StartsAt(z, ord, c, G, a, top), NEW r,
           LetsBelow(z, ord, c, r, G)
    PROVE  /\ DOMAIN SearchBelow(z, r, PosFrom(ord, c, a), top) = 0 .. top
           /\ \A i \in 0 .. top : LeftAt(z, ord, c, G, a, top, i, SearchBelow(z, r, PosFrom(ord, c, a), top)[i])
<1> DEFINE D == {PosFrom(ord, c, u) : u \in 0 .. Len(ord)}
           W == [m \in (0 .. top) \X D |-> StrollBelow(z, r, m[2], m[1])]
           p == PosFrom(ord, c, a)
<1>1. /\ GoodList(z, ord) /\ c \in Int /\ G \in SUBSET (1 .. Len(ord)) /\ a \in 0 .. Len(ord)
      /\ top \in 0 .. (z.level - 1)
  BY DEF StartsAt
<1>2. z.level \in Nat /\ top \in Nat
  BY <1>1, HeightsAre
<1>3. ASSUME NEW i \in 0 .. top, NEW u \in 0 .. Len(ord)
      PROVE  W[<<i, PosFrom(ord, c, u)>>] = StrollBelow(z, r, PosFrom(ord, c, u), i)
  <2>1. PosFrom(ord, c, u) \in D
    OBVIOUS
  <2> HIDE DEF D
  <2>2. QED
    BY <2>1
<1> HIDE DEF W
<1>4. ASSUME NEW i \in 0 .. top, NEW u \in 0 .. Len(ord), Reaches(HeightsOf(z.levels, ord), u, i)
      PROVE  \E v : Ends(z, ord, G, i, u, v) /\ StrollBelow(z, r, PosFrom(ord, c, u), i) = PosFrom(ord, c, v)
  <2>1. i \in 0 .. (z.level - 1)
    BY <1>1, <1>2
  <2>2. StartsAt(z, ord, c, G, u, i)
    BY <1>1, <1>4, <2>1 DEF StartsAt
  <2>3. QED
    BY <2>2, StrollBelowIs
<1>5. WalksOn(W, z, ord, c, G, top)
  BY <1>3, <1>4 DEF WalksOn
<1>6. PICK g : /\ g = [i \in 0 .. (top + 1) |-> IF i > top THEN p ELSE W[<<i, g[i + 1]>>]]
               /\ \A i \in 0 .. top : \E u \in 0 .. Len(ord) :
                     g[i + 1] = PosFrom(ord, c, u) /\ Reaches(HeightsOf(z.levels, ord), u, i)
  BY <1>5, DescentExists
<1>7. DownsBelow(g, z, r, p, top)
  <2>1. ASSUME NEW i \in 0 .. (top + 1)
        PROVE  g[i] = IF i > top THEN p ELSE StrollBelow(z, r, g[i + 1], i)
    <3>1. g[i] = IF i > top THEN p ELSE W[<<i, g[i + 1]>>]
      BY <1>6
    <3>2. CASE i > top
      BY <3>1, <3>2
    <3>3. CASE ~(i > top)
      <4>1. i \in 0 .. top
        BY <1>2, <3>3
      <4>2. W[<<i, g[i + 1]>>] = StrollBelow(z, r, g[i + 1], i)
        BY <1>3, <1>6, <4>1
      <4>3. QED
        BY <3>1, <3>3, <4>2
    <3>4. QED
      BY <3>2, <3>3
  <2>2. g = [i \in 0 .. (top + 1) |-> g[i]]
    BY <1>6
  <2> HIDE DEF p
  <2>3. QED
    BY <2>1, <2>2 DEF DownsBelow
<1>8. PICK at : DownsBelow(at, z, r, p, top) /\ SearchBelow(z, r, p, top) = [i \in 0 .. top |-> at[i]]
  <2> HIDE DEF p
  <2>1. QED
    BY <1>7, SearchBelowAt
<1>9. \A i \in 0 .. (top + 1) : at[i] = IF i > top THEN p ELSE StrollBelow(z, r, at[i + 1], i)
  BY <1>8 DEF DownsBelow
<1>10. GoesDown(at, z, ord, c, G, a, top)
  <2>1. at[top + 1] = p
    BY <1>2, <1>9
  <2>2. ASSUME NEW i \in 0 .. top PROVE at[i] = StrollBelow(z, r, at[i + 1], i)
    BY <1>2, <1>9
  <2>3. QED
    BY <1>4, <2>1, <2>2 DEF GoesDown
<1>11. \A i \in 0 .. (top + 1) : LeftAt(z, ord, c, G, a, top, i, at[i])
  BY <1>10, DescentIs
<1>12. \A i \in 0 .. top : i \in 0 .. (top + 1) /\ SearchBelow(z, r, p, top)[i] = at[i]
  BY <1>2, <1>8
<1>13. QED
  BY <1>8, <1>11, <1>12

-----------------------------------------------------------------------------
(* The search for the last node of a range. *)

\* The nodes up to the end of the range are in the places of G.
LetsWithin(z, ord, c, r, G) == \A b \in 1 .. Len(ord) : LteMax(Bound(z, r, ord[b]), r) <=> b \in G

StrollWithin(z, r, p, i) == Advance(z, p, i, LAMBDA q, j : (z.forward[q.node][j] # NIL /\ LteMax(Bound(z, r, z.forward[q.node][j]), r)))
SearchWithin(z, r, p, top) == Descend(z, p, top, LAMBDA q, j : (z.forward[q.node][j] # NIL /\ LteMax(Bound(z, r, z.forward[q.node][j]), r)))

WalksWithin(go, z, r, p, i) ==
    go = [n \in 0 .. z.length |->
            IF n = 0 THEN p
            ELSE IF (z.forward[go[n - 1].node][i] # NIL /\ LteMax(Bound(z, r, z.forward[go[n - 1].node][i]), r)) THEN Hop(z, go[n - 1], i) ELSE go[n - 1]]

DownsWithin(at, z, r, p, top) ==
    at = [i \in 0 .. (top + 1) |-> IF i > top THEN p ELSE StrollWithin(z, r, at[i + 1], i)]

\* A walk is a recursive function, and so is the descent over the levels.
LEMMA StrollWithinAt ==
    ASSUME NEW z, NEW r, NEW p, NEW i, NEW g, WalksWithin(g, z, r, p, i)
    PROVE  \E go : WalksWithin(go, z, r, p, i) /\ StrollWithin(z, r, p, i) = go[z.length]
<1> DEFINE go == CHOOSE go : WalksWithin(go, z, r, p, i)
<1>1. WalksWithin(go, z, r, p, i)
  OBVIOUS
<1>2. StrollWithin(z, r, p, i) = go[z.length]
  BY DEF StrollWithin, Advance, WalksWithin
<1>3. QED
  BY <1>1, <1>2

\* The same for the levels.
LEMMA SearchWithinAt ==
    ASSUME NEW z, NEW r, NEW p, NEW top, NEW g, DownsWithin(g, z, r, p, top)
    PROVE  \E at : /\ DownsWithin(at, z, r, p, top)
                   /\ SearchWithin(z, r, p, top) = [i \in 0 .. top |-> at[i]]
<1> DEFINE at == CHOOSE at : DownsWithin(at, z, r, p, top)
<1>1. DownsWithin(at, z, r, p, top)
  OBVIOUS
<1>2. SearchWithin(z, r, p, top) = [i \in 0 .. top |-> at[i]]
  BY DEF SearchWithin, Descend, DownsWithin, StrollWithin
<1>3. QED
  BY <1>1, <1>2

\* The walk along one level.
LEMMA StrollWithinIs ==
    ASSUME NEW z, NEW ord, NEW c, NEW G, NEW a, NEW i, StartsAt(z, ord, c, G, a, i), NEW r,
           LetsWithin(z, ord, c, r, G)
    PROVE  \E u : Ends(z, ord, G, i, a, u) /\ StrollWithin(z, r, PosFrom(ord, c, a), i) = PosFrom(ord, c, u)
<1> DEFINE N == z.length
           p == PosFrom(ord, c, a)
           Step(q) == IF (z.forward[q.node][i] # NIL /\ LteMax(Bound(z, r, z.forward[q.node][i]), r)) THEN Hop(z, q, i) ELSE q
<1>0. /\ GoodList(z, ord) /\ c \in Int /\ G \in SUBSET (1 .. Len(ord)) /\ a \in 0 .. Len(ord)
      /\ i \in 0 .. (z.level - 1) /\ Reaches(HeightsOf(z.levels, ord), a, i)
  BY DEF StartsAt
<1>1. N \in Nat /\ N = Len(ord)
  BY <1>0, HeightsAre
<1>2. ASSUME NEW u \in 0 .. Len(ord), NEW b, Reaches(HeightsOf(z.levels, ord), u, i), HopsTo(z, ord, c, i, u, b)
      PROVE  Step(PosFrom(ord, c, u)) = IF b \in G THEN PosFrom(ord, c, b) ELSE PosFrom(ord, c, u)
  <2> DEFINE q == PosFrom(ord, c, u)
  <2>1. q.node = NodeAt(ord, u) /\ z.forward[q.node][i] = NodeAt(ord, b) /\ b \in (u + 1) .. (Len(ord) + 1)
    BY <1>2 DEF PosFrom, HopsTo
  <2>2. CASE b <= Len(ord)
    <3>1. /\ Hop(z, q, i) = PosFrom(ord, c, b) /\ b \in 1 .. Len(ord)
          /\ NodeAt(ord, b) = ord[b] /\ NodeAt(ord, b) # NIL
      BY <1>1, <1>2, <2>1, <2>2 DEF HopsTo
    <3>2. PosFrom(ord, c, b).rank = b - c
      BY DEF PosFrom
    <3>3. (z.forward[q.node][i] # NIL /\ LteMax(Bound(z, r, z.forward[q.node][i]), r)) <=> b \in G
      BY <2>1, <3>1, <3>2 DEF LetsWithin
    <3>4. QED
      BY <3>1, <3>3
  <2>3. CASE ~(b <= Len(ord))
    <3>1. b \notin G /\ NodeAt(ord, b) = NIL
      BY <1>0, <1>1, <1>2, <2>1, <2>3 DEF HopsTo
    <3>2. ~((z.forward[q.node][i] # NIL /\ LteMax(Bound(z, r, z.forward[q.node][i]), r)))
      BY <2>1, <3>1
    <3>3. QED
      BY <3>1, <3>2
  <2>4. QED
    BY <2>2, <2>3
<1>3. PICK g : WalkIs(g, z, ord, c, G, i, a)
  BY <1>0, WalkExists
<1>4. WalksWithin(g, z, r, p, i)
  <2>1. ASSUME NEW n \in 1 .. N PROVE g[n] = Step(g[n - 1])
    <3>1. n - 1 \in 0 .. N
      BY <1>1
    <3>2. PICK u \in 0 .. Len(ord) : g[n - 1] = PosFrom(ord, c, u) /\ Reaches(HeightsOf(z.levels, ord), u, i)
      BY <1>3, <3>1 DEF WalkIs
    <3>3. PICK b : HopsTo(z, ord, c, i, u, b)
      BY <1>0, <3>2, HopIs
    <3>4. Step(g[n - 1]) = IF b \in G THEN PosFrom(ord, c, b) ELSE PosFrom(ord, c, u)
      BY <1>2, <3>2, <3>3
    <3> HIDE DEF Step
    <3>5. QED
      BY <1>3, <3>2, <3>3, <3>4 DEF WalkIs, Follows
  <2>2. g[0] = p
    BY <1>3 DEF WalkIs, Follows
  <2>3. PICK D : g \in [0 .. N -> D]
    BY <1>3 DEF WalkIs
  <2> HIDE DEF Step, p, N
  <2>4. g = [n \in 0 .. N |-> IF n = 0 THEN p ELSE Step(g[n - 1])]
    BY <1>1, <2>1, <2>2, <2>3
  <2>5. QED
    BY <2>4 DEF WalksWithin, Step, N
<1>5. PICK go : WalksWithin(go, z, r, p, i) /\ StrollWithin(z, r, p, i) = go[N]
  <2> HIDE DEF p
  <2>1. QED
    BY <1>4, StrollWithinAt
<1>6. go[0] = p /\ \A n \in 1 .. N : go[n] = Step(go[n - 1])
  <2>1. go = [n \in 0 .. N |-> IF n = 0 THEN p ELSE Step(go[n - 1])]
    BY <1>5 DEF WalksWithin
  <2> HIDE DEF Step, N, p
  <2>2. QED
    BY <1>1, <2>1
<1> HIDE DEF Step
<1>7. Follows(go, z, ord, c, G, i, a)
  <2>1. ASSUME NEW n \in 1 .. N, NEW u \in 0 .. Len(ord), NEW b, Reaches(HeightsOf(z.levels, ord), u, i),
               go[n - 1] = PosFrom(ord, c, u), HopsTo(z, ord, c, i, u, b)
        PROVE  go[n] = IF b \in G THEN PosFrom(ord, c, b) ELSE PosFrom(ord, c, u)
    BY <1>2, <1>6, <2>1
  <2>2. QED
    BY <1>6, <2>1 DEF Follows
<1>8. PICK u : Ends(z, ord, G, i, a, u) /\ go[N] = PosFrom(ord, c, u)
  BY <1>0, <1>7, WalkEnds
<1>9. QED
  BY <1>5, <1>8

\* The search over the levels.
LEMMA SearchWithinIs ==
    ASSUME NEW z, NEW ord, NEW c, NEW G, NEW a, NEW top, StartsAt(z, ord, c, G, a, top), NEW r,
           LetsWithin(z, ord, c, r, G)
    PROVE  /\ DOMAIN SearchWithin(z, r, PosFrom(ord, c, a), top) = 0 .. top
           /\ \A i \in 0 .. top : LeftAt(z, ord, c, G, a, top, i, SearchWithin(z, r, PosFrom(ord, c, a), top)[i])
<1> DEFINE D == {PosFrom(ord, c, u) : u \in 0 .. Len(ord)}
           W == [m \in (0 .. top) \X D |-> StrollWithin(z, r, m[2], m[1])]
           p == PosFrom(ord, c, a)
<1>1. /\ GoodList(z, ord) /\ c \in Int /\ G \in SUBSET (1 .. Len(ord)) /\ a \in 0 .. Len(ord)
      /\ top \in 0 .. (z.level - 1)
  BY DEF StartsAt
<1>2. z.level \in Nat /\ top \in Nat
  BY <1>1, HeightsAre
<1>3. ASSUME NEW i \in 0 .. top, NEW u \in 0 .. Len(ord)
      PROVE  W[<<i, PosFrom(ord, c, u)>>] = StrollWithin(z, r, PosFrom(ord, c, u), i)
  <2>1. PosFrom(ord, c, u) \in D
    OBVIOUS
  <2> HIDE DEF D
  <2>2. QED
    BY <2>1
<1> HIDE DEF W
<1>4. ASSUME NEW i \in 0 .. top, NEW u \in 0 .. Len(ord), Reaches(HeightsOf(z.levels, ord), u, i)
      PROVE  \E v : Ends(z, ord, G, i, u, v) /\ StrollWithin(z, r, PosFrom(ord, c, u), i) = PosFrom(ord, c, v)
  <2>1. i \in 0 .. (z.level - 1)
    BY <1>1, <1>2
  <2>2. StartsAt(z, ord, c, G, u, i)
    BY <1>1, <1>4, <2>1 DEF StartsAt
  <2>3. QED
    BY <2>2, StrollWithinIs
<1>5. WalksOn(W, z, ord, c, G, top)
  BY <1>3, <1>4 DEF WalksOn
<1>6. PICK g : /\ g = [i \in 0 .. (top + 1) |-> IF i > top THEN p ELSE W[<<i, g[i + 1]>>]]
               /\ \A i \in 0 .. top : \E u \in 0 .. Len(ord) :
                     g[i + 1] = PosFrom(ord, c, u) /\ Reaches(HeightsOf(z.levels, ord), u, i)
  BY <1>5, DescentExists
<1>7. DownsWithin(g, z, r, p, top)
  <2>1. ASSUME NEW i \in 0 .. (top + 1)
        PROVE  g[i] = IF i > top THEN p ELSE StrollWithin(z, r, g[i + 1], i)
    <3>1. g[i] = IF i > top THEN p ELSE W[<<i, g[i + 1]>>]
      BY <1>6
    <3>2. CASE i > top
      BY <3>1, <3>2
    <3>3. CASE ~(i > top)
      <4>1. i \in 0 .. top
        BY <1>2, <3>3
      <4>2. W[<<i, g[i + 1]>>] = StrollWithin(z, r, g[i + 1], i)
        BY <1>3, <1>6, <4>1
      <4>3. QED
        BY <3>1, <3>3, <4>2
    <3>4. QED
      BY <3>2, <3>3
  <2>2. g = [i \in 0 .. (top + 1) |-> g[i]]
    BY <1>6
  <2> HIDE DEF p
  <2>3. QED
    BY <2>1, <2>2 DEF DownsWithin
<1>8. PICK at : DownsWithin(at, z, r, p, top) /\ SearchWithin(z, r, p, top) = [i \in 0 .. top |-> at[i]]
  <2> HIDE DEF p
  <2>1. QED
    BY <1>7, SearchWithinAt
<1>9. \A i \in 0 .. (top + 1) : at[i] = IF i > top THEN p ELSE StrollWithin(z, r, at[i + 1], i)
  BY <1>8 DEF DownsWithin
<1>10. GoesDown(at, z, ord, c, G, a, top)
  <2>1. at[top + 1] = p
    BY <1>2, <1>9
  <2>2. ASSUME NEW i \in 0 .. top PROVE at[i] = StrollWithin(z, r, at[i + 1], i)
    BY <1>2, <1>9
  <2>3. QED
    BY <1>4, <2>1, <2>2 DEF GoesDown
<1>11. \A i \in 0 .. (top + 1) : LeftAt(z, ord, c, G, a, top, i, at[i])
  BY <1>10, DescentIs
<1>12. \A i \in 0 .. top : i \in 0 .. (top + 1) /\ SearchWithin(z, r, p, top)[i] = at[i]
  BY <1>2, <1>8
<1>13. QED
  BY <1>8, <1>11, <1>12

-----------------------------------------------------------------------------
(* Searches that may go as far as a place. *)

\* A search that may go to the places before p is at the last of them that has the level.
LEMMA LeftPrev ==
    ASSUME NEW z, NEW ord, NEW c, NEW a, NEW top, NEW p \in 1 .. (Len(ord) + 1), a \in 0 .. (p - 1),
           StartsAt(z, ord, c, 1 .. (p - 1), a, top),
           NEW i \in 0 .. top, NEW q, LeftAt(z, ord, c, 1 .. (p - 1), a, top, i, q)
    PROVE  \E u : PrevAt(HeightsOf(z.levels, ord), p, i, u) /\ q = PosFrom(ord, c, u)
<1> DEFINE L == HeightsOf(z.levels, ord)
           n == Len(ord)
<1>1. GoodList(z, ord) /\ c \in Int /\ a \in 0 .. n /\ top \in 0 .. (z.level - 1)
  BY DEF StartsAt
<1>2. n \in Nat /\ z.level \in Nat
  BY <1>1, HeightsAre
<1>3. i \in 0 .. (z.level - 1) /\ i <= top /\ i \in Nat
  BY <1>1, <1>2
<1>4. PICK u \in a .. n : /\ q = PosFrom(ord, c, u) /\ (u = a \/ u \in 1 .. (p - 1))
                          /\ Reaches(L, u, i) /\ \A b : NextAt(L, n, u, i, b) => b \notin 1 .. (p - 1)
  BY <1>3 DEF LeftAt
<1>5. u \in 0 .. n /\ u \in 0 .. (p - 1)
  BY <1>1, <1>2, <1>4
<1>6. PICK b : HopsTo(z, ord, c, i, u, b)
  BY <1>1, <1>3, <1>4, <1>5, HopIs
<1>7. NextAt(L, n, u, i, b) /\ b \in (u + 1) .. (n + 1)
  BY <1>6 DEF HopsTo
<1>8. b >= p
  BY <1>2, <1>4, <1>5, <1>7
<1>9. PrevAt(L, p, i, u)
  BY <1>2, <1>3, <1>4, <1>5, <1>7, <1>8, PrevIs
<1>10. QED
  BY <1>4, <1>9

\* On level 0 that is the last of them.
LEMMA PrevZero ==
    ASSUME NEW z, NEW ord, GoodList(z, ord), NEW p \in 1 .. (Len(ord) + 1), NEW u,
           PrevAt(HeightsOf(z.levels, ord), p, 0, u)
    PROVE  u = p - 1
<1> DEFINE L == HeightsOf(z.levels, ord)
<1>1. Len(ord) \in Nat /\ \A d \in 1 .. Len(ord) : L[d] \in Nat \ {0}
  BY HeightsAre DEF HeightsUpTo
<1>2. u \in 0 .. (p - 1) /\ \A d \in (u + 1) .. (p - 1) : L[d] <= 0
  BY DEF PrevAt
<1>3. SUFFICES ASSUME u < p - 1 PROVE FALSE
  BY <1>1, <1>2
<1>4. p - 1 \in (u + 1) .. (p - 1) /\ p - 1 \in 1 .. Len(ord)
  BY <1>1, <1>2, <1>3
<1>5. L[p - 1] \in Nat \ {0} /\ L[p - 1] <= 0
  BY <1>1, <1>2, <1>4
<1>6. QED
  BY <1>5

\* The header is where most searches start.
LEMMA StartsAtHead ==
    ASSUME NEW z, NEW ord, GoodList(z, ord), NEW G \in SUBSET (1 .. Len(ord))
    PROVE  StartsAt(z, ord, 0, G, 0, z.level - 1) /\ Start = PosFrom(ord, 0, 0)
<1>1. Len(ord) \in Nat /\ z.level \in Nat \ {0}
  BY HeightsAre
<1>2. StartsAt(z, ord, 0, G, 0, z.level - 1)
  BY <1>1 DEF StartsAt, Reaches
<1>3. QED
  BY <1>2 DEF Start, PosFrom, NodeAt

\* The position at place u.
PosAt(ord, u) == [node |-> NodeAt(ord, u), rank |-> u]

\* The place of {s, ele}: behind the nodes that come before it.
SpotIs(z, ord, s, ele, p) ==
    p \in 1 .. (Len(ord) + 1) /\ \A c \in 1 .. Len(ord) : After(z, s, ele, ord[c]) <=> c < p

\* update[] and rank[] of an insertion or deletion: on each level the last node before
\* {s, ele}, and its place.
LEMMA PathIs ==
    ASSUME NEW z, NEW ord, GoodList(z, ord), NEW s, NEW ele, NEW p, SpotIs(z, ord, s, ele, p)
    PROVE  /\ DOMAIN Path(z, s, ele) = 0 .. (z.level - 1)
           /\ \A i \in 0 .. (z.level - 1) :
                 \E u : PrevAt(HeightsOf(z.levels, ord), p, i, u) /\ Path(z, s, ele)[i] = PosAt(ord, u)
<1> DEFINE G == 1 .. (p - 1)
           top == z.level - 1
           o == 0
           S == SearchSpot(z, s, ele, PosFrom(ord, o, o), top)
<1>1. Len(ord) \in Nat /\ z.level \in Nat \ {0} /\ p \in 1 .. (Len(ord) + 1)
  BY HeightsAre DEF SpotIs
<1>2. G \in SUBSET (1 .. Len(ord)) /\ 0 \in 0 .. (p - 1)
  BY <1>1
<1>3. StartsAt(z, ord, o, G, o, top) /\ Start = PosFrom(ord, o, o)
  <2> HIDE DEF G
  <2>1. QED
    BY <1>2, StartsAtHead
<1>4. LetsSpot(z, ord, o, s, ele, G)
  BY <1>1 DEF SpotIs, LetsSpot
<1>5. Path(z, s, ele) = S
  BY <1>3 DEF Path, SearchSpot
<1> HIDE DEF o, top, G
<1>6. DOMAIN S = 0 .. top /\ \A i \in 0 .. top : LeftAt(z, ord, o, G, o, top, i, S[i])
  BY <1>3, <1>4, SearchSpotIs
<1>7. ASSUME NEW i \in 0 .. top
      PROVE  \E u : PrevAt(HeightsOf(z.levels, ord), p, i, u) /\ S[i] = PosAt(ord, u)
  <2>1. LeftAt(z, ord, o, G, o, top, i, S[i])
    BY <1>6
  <2> HIDE DEF S
  <2>2. PICK u : PrevAt(HeightsOf(z.levels, ord), p, i, u) /\ S[i] = PosFrom(ord, o, u)
    BY <1>1, <1>2, <1>3, <2>1, LeftPrev DEF G, o
  <2>3. u - o = u
    BY <1>1, <2>2 DEF PrevAt, o
  <2>4. QED
    BY <2>2, <2>3 DEF PosFrom, PosAt
<1>8. QED
  BY <1>5, <1>6, <1>7 DEF top

\* The node with a rank, counted from place a.
LEMMA ByRankIs ==
    ASSUME NEW z, NEW ord, GoodList(z, ord), NEW a \in 0 .. Len(ord), NEW top \in 0 .. (z.level - 1),
           Reaches(HeightsOf(z.levels, ord), a, top), NEW rank \in Int
    PROVE  zslGetElementByRankFromNode(z, NodeAt(ord, a), top, rank)
               = IF rank \in 0 .. (Len(ord) - a) THEN NodeAt(ord, a + rank) ELSE NIL
<1> DEFINE n == Len(ord)
           G == {b \in 1 .. n : rank < 0 \/ b - a <= rank}
           S == SearchRank(z, rank, PosFrom(ord, a, a), top)
           hit == {i \in 0 .. top : S[i].rank = rank}
<1>1. n \in Nat /\ z.level \in Nat \ {0} /\ top \in Nat
  BY HeightsAre
<1>2. StartsAt(z, ord, a, G, a, top)
  BY <1>1 DEF StartsAt
<1>3. LetsRank(z, ord, a, rank, G)
  BY DEF LetsRank
<1>4. PosFrom(ord, a, a) = [node |-> NodeAt(ord, a), rank |-> 0]
  BY <1>1 DEF PosFrom
<1> HIDE DEF G, S
<1>5. DOMAIN S = 0 .. top /\ \A i \in 0 .. top : LeftAt(z, ord, a, G, a, top, i, S[i])
  BY <1>2, <1>3, SearchRankIs DEF S
<1>6. zslGetElementByRankFromNode(z, NodeAt(ord, a), top, rank) = IF hit = {} THEN NIL ELSE S[Max(hit)].node
  <2>1. zslGetElementByRankFromNode(z, NodeAt(ord, a), top, rank)
            = IF {i \in DOMAIN S : S[i].rank = rank} = {} THEN NIL ELSE S[Max({i \in DOMAIN S : S[i].rank = rank})].node
    BY <1>4 DEF zslGetElementByRankFromNode, SearchRank, S
  <2>2. QED
    BY <1>5, <2>1
<1>7. ASSUME NEW i \in 0 .. top
      PROVE  \E u \in a .. n : S[i].node = NodeAt(ord, u) /\ S[i].rank = u - a
  <2>1. PICK u \in a .. n : S[i] = PosFrom(ord, a, u)
    BY <1>5 DEF LeftAt
  <2>2. QED
    BY <2>1 DEF PosFrom
<1>8. CASE rank \notin 0 .. (n - a)
  <2>1. hit = {}
    BY <1>1, <1>7, <1>8
  <2>2. QED
    BY <1>6, <1>8, <2>1
<1>9. CASE rank \in 0 .. (n - a)
  <2> DEFINE p == (a + rank) + 1
             o == 0
  <2>1. p \in 1 .. (n + 1) /\ a \in 0 .. (p - 1) /\ G = 1 .. (p - 1) /\ p - 1 = a + rank /\ o \in 0 .. top
    BY <1>1, <1>9 DEF G
  <2> HIDE DEF p, o
  <2>0. StartsAt(z, ord, a, 1 .. (p - 1), a, top) /\ LeftAt(z, ord, a, 1 .. (p - 1), a, top, o, S[o])
    BY <1>2, <1>5, <2>1
  <2>11. p \in 1 .. (Len(ord) + 1) /\ a \in 0 .. (p - 1) /\ o \in 0 .. top
    BY <2>1
  <2>2. PICK u : PrevAt(HeightsOf(z.levels, ord), p, o, u) /\ S[o] = PosFrom(ord, a, u)
    BY <2>0, <2>11, LeftPrev
  <2>3. u = a + rank
    BY <2>1, <2>2, PrevZero DEF o
  <2>4. S[o].rank = rank
    BY <1>1, <1>9, <2>2, <2>3 DEF PosFrom
  <2>5. hit # {} /\ hit \in SUBSET (0 .. top)
    BY <2>1, <2>4
  <2>6. Max(hit) \in hit
    <3> HIDE DEF hit
    <3>1. QED
      BY <1>1, <2>5, MaxExists
  <2> DEFINE m == Max(hit)
  <2>7. m \in 0 .. top /\ S[m].rank = rank
    BY <2>6
  <2> HIDE DEF m
  <2>8. PICK v \in a .. n : S[m].node = NodeAt(ord, v) /\ S[m].rank = v - a
    BY <1>7, <2>7
  <2>9. v = a + rank
    BY <1>1, <1>9, <2>7, <2>8
  <2>10. QED
    BY <1>6, <1>9, <2>5, <2>8, <2>9 DEF m
<1>10. QED
  BY <1>8, <1>9

-----------------------------------------------------------------------------
(* Insertion. *)

\* The nodes by place when x was put in at place p.
LEMMA NodesOpened ==
    ASSUME NEW ord, NEW S, ord \in Seq(S), NEW x, NEW p \in 1 .. (Len(ord) + 1)
    PROVE  /\ Len(InsertedAt(ord, p - 1, x)) = Len(ord) + 1
           /\ \A c \in 0 .. Len(ord) : c < p => NodeAt(InsertedAt(ord, p - 1, x), c) = NodeAt(ord, c)
           /\ NodeAt(InsertedAt(ord, p - 1, x), p) = x
           /\ \A c \in 0 .. (Len(ord) + 1) : c >= p => NodeAt(InsertedAt(ord, p - 1, x), c + 1) = NodeAt(ord, c)
<1> DEFINE n == Len(ord)
           q == p - 1
           new == InsertedAt(ord, q, x)
<1>1. n \in Nat /\ q \in 0 .. n /\ q + 1 = p /\ p \in Int
  OBVIOUS
<1>2. new = [i \in 1 .. (n + 1) |-> IF i <= q THEN ord[i] ELSE IF i = q + 1 THEN x ELSE ord[i - 1]]
  BY DEF InsertedAt
<1>3. Len(new) = n + 1
  <2>1. DOMAIN new = 1 .. (n + 1) /\ n + 1 \in Nat
    BY <1>1, <1>2
  <2>2. new \in Seq({new[i] : i \in 1 .. (n + 1)})
    BY <1>2, <2>1
  <2> HIDE DEF new
  <2>3. QED
    BY <2>1, <2>2
<1>4. \A i \in 1 .. (n + 1) : new[i] = IF i <= q THEN ord[i] ELSE IF i = q + 1 THEN x ELSE ord[i - 1]
  BY <1>2
<1> SUFFICES /\ Len(new) = n + 1
             /\ \A c \in 0 .. n : c < p => NodeAt(new, c) = NodeAt(ord, c)
             /\ NodeAt(new, p) = x
             /\ \A c \in 0 .. (n + 1) : c >= p => NodeAt(new, c + 1) = NodeAt(ord, c)
  OBVIOUS
<1>5. \A c \in Int : NodeAt(ord, c) = IF c = 0 THEN HEAD ELSE IF c <= n THEN ord[c] ELSE NIL
  BY DEF NodeAt
<1> HIDE DEF new, n, q
<1>6. \A c \in Int : NodeAt(new, c) = IF c = 0 THEN HEAD ELSE IF c <= n + 1 THEN new[c] ELSE NIL
  BY <1>3 DEF NodeAt
<1>7. ASSUME NEW c \in 0 .. n, c < p PROVE NodeAt(new, c) = NodeAt(ord, c)
  BY <1>1, <1>4, <1>5, <1>6, <1>7
<1>8. NodeAt(new, p) = x
  BY <1>1, <1>4, <1>6
<1>9. ASSUME NEW c \in 0 .. (n + 1), c >= p PROVE NodeAt(new, c + 1) = NodeAt(ord, c)
  <2>1. c \in Int /\ c + 1 # 0 /\ c # 0 /\ (c + 1) - 1 = c
    BY <1>1, <1>9
  <2>2. CASE c <= n
    <3>1. c + 1 \in 1 .. (n + 1) /\ ~(c + 1 <= q) /\ c + 1 # q + 1
      BY <1>1, <1>9, <2>2
    <3>2. new[c + 1] = ord[c]
      BY <1>4, <2>1, <3>1
    <3>3. QED
      BY <1>1, <1>5, <1>6, <2>1, <2>2, <3>1, <3>2
  <2>3. CASE c = n + 1
    BY <1>1, <1>5, <1>6, <2>1, <2>3
  <2>4. QED
    BY <1>1, <2>2, <2>3
<1>10. QED
  BY <1>3, <1>7, <1>8, <1>9

\* The score map with x.
With(score, x, s) == [n \in DOMAIN score \cup {x} |-> IF n = x THEN s ELSE score[n]]

\* The order with x.
LEMMA OrderOpened ==
    ASSUME NEW z, NEW ord, OrderOf(ord, z.score), NEW x \in Nat \ {0}, x \notin DOMAIN z.score,
           NEW s \in Int, NEW p, SpotIs(z, ord, s, x, p)
    PROVE  OrderOf(InsertedAt(ord, p - 1, x), With(z.score, x, s))
<1> DEFINE n == Len(ord)
           q == p - 1
           new == InsertedAt(ord, q, x)
           sc == z.score
           S == DOMAIN sc
           T == S \cup {x}
           w == With(sc, x, s)
<1>1. /\ n \in Nat /\ \A a \in 1 .. n : ord[a] \in S /\ ord[a] \in Nat \ {0}
      /\ \A y \in S : sc[y] \in Int /\ y \in Nat \ {0}
  BY OrderIs
<1>2. p \in 1 .. (n + 1) /\ p \in Int /\ q \in 0 .. n /\ q + 1 = p
  BY <1>1 DEF SpotIs
<1>3. /\ DOMAIN w = T /\ w[x] = s /\ \A y \in S : w[y] = sc[y]
      /\ w \in [T -> Int]
  BY <1>1 DEF With
<1>4. ord \in Seq(T) /\ ToSet(ord) = S
  BY DEF OrderOf
<1>5. new \in Seq(T) /\ Len(new) = n + 1
  <2> HIDE DEF q
  <2>1. QED
    BY <1>2, <1>4, InsertedType
<1>6. ToSet(new) = T
  <2> HIDE DEF q
  <2>1. QED
    BY <1>2, <1>4, InsertedToSet
<1>7. \A i \in 1 .. (n + 1) : new[i] = IF i < p THEN ord[i] ELSE IF i = p THEN x ELSE ord[i - 1]
  BY <1>1, <1>2 DEF InsertedAt
<1>8. \A c \in 1 .. n : (c < p => Precedes(w, ord[c], x)) /\ (c >= p => Precedes(w, x, ord[c]))
  <2> TAKE c \in 1 .. n
  <2>1. /\ w[ord[c]] = sc[ord[c]] /\ sc[ord[c]] \in Int /\ w[x] = s /\ ord[c] # x /\ ord[c] \in Int
        /\ ord[c] # NIL
    BY <1>1, <1>3 DEF NIL
  <2>2. After(z, s, x, ord[c]) <=> c < p
    BY DEF SpotIs
  <2>3. QED
    BY <1>2, <2>1, <2>2 DEF After, Precedes
<1>9. \A i, j \in 1 .. n : i < j => Precedes(w, ord[i], ord[j])
  <2> TAKE i, j \in 1 .. n
  <2>1. i < j => Precedes(sc, ord[i], ord[j])
    BY DEF OrderOf
  <2>2. w[ord[i]] = sc[ord[i]] /\ w[ord[j]] = sc[ord[j]]
    BY <1>1, <1>3
  <2>3. QED
    BY <2>1, <2>2 DEF Precedes
<1> HIDE DEF new, w, n, q, sc, S, T
<1>10. ASSUME NEW i \in 1 .. (n + 1), NEW j \in 1 .. (n + 1), i < j PROVE Precedes(w, new[i], new[j])
  <2>1. CASE j < p
    BY <1>1, <1>2, <1>7, <1>9, <1>10, <2>1
  <2>2. CASE j = p
    BY <1>1, <1>2, <1>7, <1>8, <1>10, <2>2
  <2>3. CASE j > p /\ i < p
    <3>1. i \in 1 .. n /\ j - 1 \in 1 .. n /\ i < j - 1 /\ new[i] = ord[i] /\ new[j] = ord[j - 1]
      BY <1>1, <1>2, <1>7, <1>10, <2>3
    <3>2. QED
      BY <1>9, <3>1
  <2>4. CASE j > p /\ i = p
    <3>1. j - 1 \in 1 .. n /\ j - 1 >= p /\ new[i] = x /\ new[j] = ord[j - 1]
      BY <1>1, <1>2, <1>7, <1>10, <2>4
    <3>2. QED
      BY <1>8, <3>1
  <2>5. CASE j > p /\ i > p
    <3>1. i - 1 \in 1 .. n /\ j - 1 \in 1 .. n /\ i - 1 < j - 1 /\ new[i] = ord[i - 1] /\ new[j] = ord[j - 1]
      BY <1>1, <1>2, <1>7, <1>10, <2>5
    <3>2. QED
      BY <1>9, <3>1
  <2>6. QED
    BY <1>1, <1>2, <2>1, <2>2, <2>3, <2>4, <2>5
<1>11. T \subseteq Nat \ {0}
  BY <1>1 DEF T
<1>12. QED
  BY <1>3, <1>5, <1>6, <1>10, <1>11 DEF OrderOf, new, w, q, sc

\* The pointer v and the span d that level i of place a should have.
LinkValue(L, ord, level, a, i, v, d) ==
    \E b : /\ NextAt(L, Len(ord), a, i, b) /\ v = NodeAt(ord, b)
           /\ i > 0 => d = IF b <= Len(ord) THEN b - a ELSE IF i < level THEN Len(ord) - a ELSE 0

\* LinksAt in terms of the two values.
LEMMA LinkValueIs ==
    ASSUME NEW F, NEW P, NEW L, NEW ord, NEW level, NEW a, NEW i
    PROVE  LinksAt(F, P, L, ord, level, a, i)
               <=> LinkValue(L, ord, level, a, i, F[NodeAt(ord, a)][i], P[NodeAt(ord, a)][i])
BY DEF LinksAt, LinkValue

\* The last nodes before place p, level by level, as an insertion or deletion finds them.
UpdIs(upd, L, ord, p, top) ==
    /\ DOMAIN upd = 0 .. (top - 1)
    /\ \A i \in 0 .. (top - 1) : \E u : PrevAt(L, p, i, u) /\ upd[i] = PosAt(ord, u)

TopLevel(lv, level) == IF lv > level THEN lv ELSE level

\* A list of n nodes with heights L, before and after x was put in at place p.
OpenCtx(L, M, ord, new, n, p, lv, level, x, upd) ==
    /\ n \in Nat /\ n = Len(ord) /\ Len(new) = n + 1 /\ Opened(M, L, n, p, lv)
    /\ level \in Nat \ {0} /\ lv \in Nat \ {0} /\ \A c \in 1 .. n : L[c] \in 1 .. level
    /\ UpdIs(upd, L, ord, p, TopLevel(lv, level))
    /\ \A a, b \in 0 .. (n + 1) : NodeAt(ord, a) = NodeAt(ord, b) => a = b
    /\ \A c \in 0 .. n : c < p => NodeAt(new, c) = NodeAt(ord, c)
    /\ NodeAt(new, p) = x
    /\ \A c \in 0 .. (n + 1) : c >= p => NodeAt(new, c + 1) = NodeAt(ord, c)

\* What update[i] is, for the node at place a before p.
LEMMA UpdAt ==
    ASSUME NEW L, NEW M, NEW ord, NEW new, NEW n, NEW p, NEW lv, NEW level, NEW x, NEW upd,
           OpenCtx(L, M, ord, new, n, p, lv, level, x, upd), NEW i \in DOMAIN upd,
           NEW u, PrevAt(L, p, i, u)
    PROVE  /\ upd[i] = PosAt(ord, u) /\ upd[i].node = NodeAt(ord, u) /\ upd[i].rank = u
           /\ u \in 0 .. n /\ u < p /\ i \in Nat
           /\ \A a \in 0 .. n : upd[i].node = NodeAt(ord, a) <=> a = u
<1>1. /\ n \in Nat /\ HeightsUpTo(L, n) /\ p \in 1 .. (n + 1)
      /\ \A a, b \in 0 .. (n + 1) : NodeAt(ord, a) = NodeAt(ord, b) => a = b
  BY DEF OpenCtx, Opened
<1>2. i \in Nat
  BY DEF OpenCtx, UpdIs, TopLevel
<1>3. PICK v : PrevAt(L, p, i, v) /\ upd[i] = PosAt(ord, v)
  BY DEF OpenCtx, UpdIs
<1>4. u = v
  BY <1>1, <1>2, <1>3, PrevUnique
<1>5. u \in 0 .. n /\ u < p
  BY <1>1 DEF PrevAt
<1>6. upd[i].node = NodeAt(ord, u) /\ upd[i].rank = u
  BY <1>3, <1>4 DEF PosAt
<1>7. \A a \in 0 .. n : a \in 0 .. (n + 1)
  BY <1>1
<1>8. \A a \in 0 .. n : NodeAt(ord, u) = NodeAt(ord, a) <=> a = u
  BY <1>1, <1>5, <1>7
<1>9. QED
  BY <1>2, <1>3, <1>4, <1>5, <1>6, <1>8

\* update[0] is the node before place p.
LEMMA UpdZero ==
    ASSUME NEW L, NEW M, NEW ord, NEW new, NEW n, NEW p, NEW lv, NEW level, NEW x, NEW upd,
           OpenCtx(L, M, ord, new, n, p, lv, level, x, upd)
    PROVE  upd[0] = PosAt(ord, p - 1) /\ upd[0].node = NodeAt(ord, p - 1) /\ upd[0].rank = p - 1
<1>1. /\ n \in Nat /\ p \in 1 .. (n + 1) /\ level \in Nat \ {0} /\ lv \in Nat \ {0}
      /\ DOMAIN upd = 0 .. (TopLevel(lv, level) - 1) /\ \A c \in 1 .. n : L[c] \in 1 .. level
  BY DEF OpenCtx, UpdIs, Opened
<1>2. 0 \in DOMAIN upd
  BY <1>1 DEF TopLevel
<1>3. p - 1 \in 0 .. (p - 1) /\ (p - 1 # 0 => p - 1 \in 1 .. n) /\ (p - 1) + 1 > p - 1
  BY <1>1
<1>4. Reaches(L, p - 1, 0)
  BY <1>1, <1>3 DEF Reaches
<1>5. PrevAt(L, p, 0, p - 1)
  BY <1>1, <1>3, <1>4 DEF PrevAt
<1> DEFINE o == 0
           u == p - 1
<1>6. o \in DOMAIN upd /\ PrevAt(L, p, o, u)
  BY <1>2, <1>5
<1> HIDE DEF o, u
<1>7. upd[o] = PosAt(ord, u) /\ upd[o].node = NodeAt(ord, u) /\ upd[o].rank = u
  BY <1>6, UpdAt
<1>8. QED
  BY <1>7 DEF o, u

\* The links of the nodes that were there.
LEMMA OldBelow ==
    ASSUME NEW L, NEW M, NEW ord, NEW new, NEW n, NEW p, NEW lv, NEW level, NEW x, NEW upd,
           OpenCtx(L, M, ord, new, n, p, lv, level, x, upd),
           NEW a \in 0 .. n, a < p, NEW i \in Nat, Reaches(L, a, i), NEW v, NEW d,
           LinkValue(L, ord, level, a, i, v, d), NEW w, NEW e,
           w = (IF i < lv /\ i \in DOMAIN upd /\ upd[i].node = NodeAt(ord, a) THEN x ELSE v),
           i > 0 => e = IF i \in DOMAIN upd /\ upd[i].node = NodeAt(ord, a)
                        THEN IF i < lv THEN upd[0].rank - upd[i].rank + 1 ELSE d + 1
                        ELSE d
    PROVE  LinkValue(M, new, TopLevel(lv, level), a, i, w, e)
<1> DEFINE top == TopLevel(lv, level)
<1>1. /\ n \in Nat /\ n = Len(ord) /\ Len(new) = n + 1 /\ Opened(M, L, n, p, lv) /\ HeightsUpTo(L, n)
      /\ p \in 1 .. (n + 1) /\ level \in Nat \ {0} /\ lv \in Nat \ {0} /\ DOMAIN upd = 0 .. (top - 1)
  BY DEF OpenCtx, UpdIs, Opened
<1>2. PICK b : /\ NextAt(L, n, a, i, b) /\ v = NodeAt(ord, b)
               /\ i > 0 => d = IF b <= n THEN b - a ELSE IF i < level THEN n - a ELSE 0
  BY <1>1 DEF LinkValue
<1>3. b \in (a + 1) .. (n + 1) /\ b \in Int /\ b \in 0 .. (n + 1)
  BY <1>1, <1>2 DEF NextAt
<1>4. top \in Nat /\ (i < lv => i \in DOMAIN upd) /\ (i < level => i < top) /\ (i \in DOMAIN upd <=> i < top)
      /\ (i >= lv => (i < top <=> i < level))
  BY <1>1 DEF TopLevel
<1>5. /\ b < p => NextAt(M, n + 1, a, i, b)
      /\ b >= p /\ i < lv => NextAt(M, n + 1, a, i, p)
      /\ b >= p /\ i >= lv => NextAt(M, n + 1, a, i, b + 1)
  BY <1>1, <1>2, OpenedBelow
<1>6. CASE b < p
  <2>1. ~(i \in DOMAIN upd /\ upd[i].node = NodeAt(ord, a))
    <3>1. SUFFICES ASSUME i \in DOMAIN upd, upd[i].node = NodeAt(ord, a) PROVE FALSE
      OBVIOUS
    <3>2. PICK u : PrevAt(L, p, i, u)
      BY <1>1, <3>1 DEF OpenCtx, UpdIs
    <3>3. a = u
      BY <3>1, <3>2, UpdAt
    <3>4. b >= p
      BY <1>1, <1>2, <3>2, <3>3, NextBehind
    <3>5. QED
      BY <1>1, <1>3, <1>6, <3>4
  <2>2. w = v /\ (i > 0 => e = d)
    BY <2>1
  <2>3. NodeAt(new, b) = NodeAt(ord, b) /\ b <= n /\ b <= n + 1
    BY <1>1, <1>3, <1>6 DEF OpenCtx
  <2>4. QED
    BY <1>1, <1>2, <1>5, <1>6, <2>2, <2>3 DEF LinkValue
<1>7. CASE b >= p
  <2>1. PrevAt(L, p, i, a)
    <3>1. a \in 0 .. (p - 1)
      BY <1>1
    <3>2. QED
      BY <1>1, <1>2, <1>7, <3>1, PrevIs
  <2>2. i \in DOMAIN upd => upd[i].node = NodeAt(ord, a) /\ upd[i].rank = a
    BY <2>1, UpdAt
  <2>3. CASE i < lv
    <3>1. w = x /\ (i > 0 => e = p - a)
      <4>1. upd[0].rank = p - 1
        BY UpdZero
      <4>2. ((p - 1) - a) + 1 = p - a
        BY <1>1
      <4>3. QED
        BY <1>4, <2>2, <2>3, <4>1, <4>2
    <3>2. p <= n + 1 /\ NodeAt(new, p) = x
      BY <1>1 DEF OpenCtx
    <3>3. QED
      BY <1>1, <1>5, <1>7, <2>3, <3>1, <3>2 DEF LinkValue
  <2>4. CASE i >= lv
    <3>1. NodeAt(new, b + 1) = NodeAt(ord, b) /\ NextAt(M, n + 1, a, i, b + 1)
      BY <1>3, <1>5, <1>7, <2>4 DEF OpenCtx
    <3>2. w = v
      BY <1>1, <2>4
    <3>3. i > 0 => e = IF b + 1 <= n + 1 THEN (b + 1) - a ELSE IF i < top THEN (n + 1) - a ELSE 0
      <4>1. CASE i \in DOMAIN upd
        <5>1. i > 0 => e = d + 1
          BY <1>1, <2>2, <2>4, <4>1
        <5>2. i < level /\ i < top
          BY <1>4, <2>4, <4>1
        <5>3. QED
          BY <1>1, <1>2, <1>3, <5>1, <5>2
      <4>2. CASE i \notin DOMAIN upd
        <5>1. i > 0 => e = d
          BY <4>2
        <5>2. ~(i < level) /\ ~(i < top)
          BY <1>4, <4>2
        <5>3. ~(b <= n)
          <6>1. SUFFICES ASSUME b <= n PROVE FALSE
            OBVIOUS
          <6>2. b \in 1 .. n /\ L[b] > i
            BY <1>2, <1>3, <6>1 DEF NextAt
          <6>3. L[b] \in 1 .. level
            BY <6>2 DEF OpenCtx
          <6>4. QED
            BY <1>1, <5>2, <6>2, <6>3
        <5>4. QED
          BY <1>1, <1>2, <1>3, <5>1, <5>2, <5>3
      <4>3. QED
        BY <4>1, <4>2
    <3>4. QED
      BY <1>1, <1>2, <3>1, <3>2, <3>3 DEF LinkValue
  <2>5. QED
    BY <1>1, <2>3, <2>4
<1>8. QED
  BY <1>1, <1>3, <1>6, <1>7

\* The links of the nodes behind the new one.
LEMMA OldAbove ==
    ASSUME NEW L, NEW M, NEW ord, NEW new, NEW n, NEW p, NEW lv, NEW level, NEW x, NEW upd,
           OpenCtx(L, M, ord, new, n, p, lv, level, x, upd),
           NEW a \in 0 .. n, a >= p, NEW i \in Nat, Reaches(L, a, i), NEW v, NEW d,
           LinkValue(L, ord, level, a, i, v, d)
    PROVE  /\ LinkValue(M, new, TopLevel(lv, level), a + 1, i, v, d)
           /\ ~(i \in DOMAIN upd /\ upd[i].node = NodeAt(ord, a))
<1> DEFINE top == TopLevel(lv, level)
<1>1. /\ n \in Nat /\ n = Len(ord) /\ Len(new) = n + 1 /\ Opened(M, L, n, p, lv) /\ HeightsUpTo(L, n)
      /\ p \in 1 .. (n + 1) /\ level \in Nat \ {0} /\ lv \in Nat \ {0} /\ DOMAIN upd = 0 .. (top - 1)
  BY DEF OpenCtx, UpdIs, Opened
<1>2. PICK b : /\ NextAt(L, n, a, i, b) /\ v = NodeAt(ord, b)
               /\ i > 0 => d = IF b <= n THEN b - a ELSE IF i < level THEN n - a ELSE 0
  BY <1>1 DEF LinkValue
<1>3. b \in (a + 1) .. (n + 1) /\ b \in Int /\ b \in 0 .. (n + 1) /\ b >= p
  BY <1>1, <1>2 DEF NextAt
<1>4. a \in 1 .. n /\ L[a] > i
  BY <1>1 DEF Reaches
<1>5. L[a] \in 1 .. level
  BY <1>4 DEF OpenCtx
<1>6. i < level /\ i < top
  BY <1>1, <1>4, <1>5 DEF TopLevel
<1>7. NextAt(M, n + 1, a + 1, i, b + 1)
  BY <1>1, <1>2, OpenedAbove
<1>8. NodeAt(new, b + 1) = NodeAt(ord, b)
  BY <1>3 DEF OpenCtx
<1>9. i > 0 => d = IF b + 1 <= n + 1 THEN (b + 1) - (a + 1) ELSE IF i < top THEN (n + 1) - (a + 1) ELSE 0
  BY <1>1, <1>2, <1>3, <1>6
<1>10. LinkValue(M, new, top, a + 1, i, v, d)
  BY <1>1, <1>2, <1>7, <1>8, <1>9 DEF LinkValue
<1>11. ASSUME i \in DOMAIN upd, upd[i].node = NodeAt(ord, a) PROVE FALSE
  <2>1. PICK u : PrevAt(L, p, i, u)
    BY <1>1, <1>11 DEF OpenCtx, UpdIs
  <2>2. a = u /\ u < p
    BY <1>11, <2>1, UpdAt
  <2>3. QED
    BY <1>1, <2>2
<1>12. QED
  BY <1>10, <1>11

\* The links of the new node.
LEMMA NewLink ==
    ASSUME NEW L, NEW M, NEW ord, NEW new, NEW n, NEW p, NEW lv, NEW level, NEW x, NEW upd,
           OpenCtx(L, M, ord, new, n, p, lv, level, x, upd),
           NEW i \in 0 .. (lv - 1), NEW u, PrevAt(L, p, i, u), NEW v, NEW d,
           LinkValue(L, ord, level, u, i, v, d), NEW e,
           i > 0 => e = (IF i >= level THEN n ELSE d) - (upd[0].rank - upd[i].rank)
    PROVE  LinkValue(M, new, TopLevel(lv, level), p, i, v, e)
<1> DEFINE top == TopLevel(lv, level)
<1>1. /\ n \in Nat /\ n = Len(ord) /\ Len(new) = n + 1 /\ Opened(M, L, n, p, lv) /\ HeightsUpTo(L, n)
      /\ p \in 1 .. (n + 1) /\ level \in Nat \ {0} /\ lv \in Nat \ {0} /\ DOMAIN upd = 0 .. (top - 1)
  BY DEF OpenCtx, UpdIs, Opened
<1>2. PICK b : /\ NextAt(L, n, u, i, b) /\ v = NodeAt(ord, b)
               /\ i > 0 => d = IF b <= n THEN b - u ELSE IF i < level THEN n - u ELSE 0
  BY <1>1 DEF LinkValue
<1>3. b >= p /\ b \in 1 .. (n + 1) /\ u \in 0 .. n /\ b \in 0 .. (n + 1)
  BY <1>1, <1>2, NextBehind
<1>4. i \in DOMAIN upd /\ i < top /\ i \in Nat
  BY <1>1 DEF TopLevel
<1>5. upd[i].rank = u /\ upd[0].rank = p - 1
  BY <1>4, UpdAt, UpdZero
<1>6. NextAt(M, n + 1, p, i, b + 1)
  BY <1>1, <1>2, <1>4, OpenedNew
<1>7. NodeAt(new, b + 1) = NodeAt(ord, b)
  BY <1>3 DEF OpenCtx
<1>8. i >= level => u = 0 /\ b = n + 1
  <2>1. SUFFICES ASSUME i >= level PROVE u = 0 /\ b = n + 1
    OBVIOUS
  <2>2. u # 0 => u \in 1 .. n /\ L[u] > i
    BY <1>1, <1>3 DEF PrevAt, Reaches
  <2>3. b <= n => b \in 1 .. n /\ L[b] > i
    BY <1>2, <1>3 DEF NextAt
  <2>4. \A c \in 1 .. n : L[c] \in Int /\ L[c] <= level
    BY DEF OpenCtx
  <2>5. QED
    BY <1>1, <1>3, <1>4, <2>1, <2>2, <2>3, <2>4
<1>9. i > 0 => e = IF b + 1 <= n + 1 THEN (b + 1) - p ELSE IF i < top THEN (n + 1) - p ELSE 0
  <2>1. CASE i >= level
    BY <1>1, <1>2, <1>3, <1>4, <1>5, <1>8, <2>1
  <2>2. CASE i < level
    BY <1>1, <1>2, <1>3, <1>4, <1>5, <2>2
  <2>3. QED
    BY <1>1, <1>4, <2>1, <2>2
<1>10. QED
  BY <1>1, <1>2, <1>6, <1>7, <1>9 DEF LinkValue

\* Every {s, ele} has a place.
LEMMA SpotExists ==
    ASSUME NEW z, NEW ord, OrderOf(ord, z.score), NEW s \in Int, NEW ele \in Int
    PROVE  \E p : SpotIs(z, ord, s, ele, p)
<1> DEFINE n == Len(ord)
           J == {c \in 1 .. n : After(z, s, ele, ord[c])}
<1>1. n \in Nat /\ \A c \in 1 .. n : ord[c] \in DOMAIN z.score /\ ord[c] \in Nat \ {0}
  BY OrderIs
<1>2. \A x \in DOMAIN z.score : z.score[x] \in Int
  BY OrderIs
<1>3. ASSUME NEW j \in J, NEW i \in 1 .. j PROVE i \in J
  <2>1. i \in 1 .. n /\ j \in 1 .. n /\ (i = j \/ i < j)
    BY <1>1
  <2>2. CASE i = j
    BY <2>2
  <2>3. CASE i < j
    <3>1. Precedes(z.score, ord[i], ord[j])
      BY <2>1, <2>3 DEF OrderOf
    <3>2. /\ z.score[ord[i]] \in Int /\ z.score[ord[j]] \in Int /\ ord[i] \in Int /\ ord[j] \in Int
          /\ ord[i] # NIL
      BY <1>1, <1>2, <2>1 DEF NIL
    <3>3. After(z, s, ele, ord[i])
      BY <3>1, <3>2 DEF After, Precedes
    <3>4. QED
      BY <2>1, <3>3
  <2>4. QED
    BY <2>1, <2>2, <2>3
<1>4. J \in SUBSET (1 .. n)
  OBVIOUS
<1>5. PICK c \in 0 .. n : J = 1 .. c
  <2> HIDE DEF J, n
  <2>1. QED
    BY <1>1, <1>3, <1>4, DownClosed
<1>6. c + 1 \in 1 .. (n + 1)
  BY <1>1
<1>7. \A k \in 1 .. n : After(z, s, ele, ord[k]) <=> k < c + 1
  <2> TAKE k \in 1 .. n
  <2>1. After(z, s, ele, ord[k]) <=> k \in 1 .. c
    BY <1>5
  <2>2. QED
    BY <1>1, <2>1
<1>8. QED
  BY <1>6, <1>7 DEF SpotIs

\* The heights of the nodes with x.
LEMMA HeightsOpened ==
    ASSUME NEW z, NEW ord, GoodList(z, ord), NEW x \in Nat \ {0}, x \notin DOMAIN z.score,
           NEW lv \in Levels, NEW p \in 1 .. (Len(ord) + 1)
    PROVE  Opened(HeightsOf(With(z.levels, x, lv), InsertedAt(ord, p - 1, x)), HeightsOf(z.levels, ord),
                  Len(ord), p, lv)
<1> DEFINE n == Len(ord)
           q == p - 1
           new == InsertedAt(ord, q, x)
           W == With(z.levels, x, lv)
           L == HeightsOf(z.levels, ord)
           M == HeightsOf(W, new)
<1>1. n \in Nat /\ HeightsUpTo(L, n) /\ OrderOf(ord, z.score) /\ q \in 0 .. n /\ q + 1 = p /\ p \in Int
  BY HeightsAre
<1>2. DOMAIN z.levels = DOMAIN z.score
  BY DEF GoodList, GoodParts
<1>3. \A c \in 1 .. n : ord[c] \in DOMAIN z.levels /\ ord[c] # x
  BY <1>1, <1>2, OrderIs
<1>4. W[x] = lv /\ \A y \in DOMAIN z.levels : y # x => W[y] = z.levels[y]
  BY DEF With
<1>5. \A i \in 1 .. (n + 1) : new[i] = IF i < p THEN ord[i] ELSE IF i = p THEN x ELSE ord[i - 1]
  BY <1>1 DEF InsertedAt
<1>6. Len(new) = n + 1
  <2>1. ord \in Seq(DOMAIN z.score)
    BY <1>1 DEF OrderOf
  <2>2. QED
    BY <2>1, NodesOpened
<1>7. L = [a \in 1 .. n |-> z.levels[ord[a]]]
  BY DEF HeightsOf
<1>8. M = [a \in 1 .. Len(new) |-> W[new[a]]]
  BY DEF HeightsOf
<1>9. lv \in Nat \ {0}
  BY SkiplistAssumption DEF Levels
<1> HIDE DEF n, q, new, W, L, M
<1>10. ASSUME NEW c \in 1 .. (n + 1)
       PROVE  W[new[c]] = IF c < p THEN L[c] ELSE IF c = p THEN lv ELSE L[c - 1]
  <2>1. CASE c < p
    <3>1. c \in 1 .. n /\ new[c] = ord[c]
      BY <1>1, <1>5, <2>1
    <3>2. QED
      BY <1>3, <1>4, <1>7, <2>1, <3>1
  <2>2. CASE c = p
    BY <1>4, <1>5, <2>2
  <2>3. CASE c > p
    <3>1. c - 1 \in 1 .. n /\ new[c] = ord[c - 1] /\ ~(c < p) /\ c # p
      BY <1>1, <1>5, <2>3
    <3>2. QED
      BY <1>3, <1>4, <1>7, <3>1
  <2>4. QED
    BY <1>1, <2>1, <2>2, <2>3
<1>11. M = [c \in 1 .. (n + 1) |-> IF c < p THEN L[c] ELSE IF c = p THEN lv ELSE L[c - 1]]
  BY <1>6, <1>8, <1>10
<1>12. p \in 1 .. (n + 1)
  BY DEF n
<1>13. QED
  BY <1>1, <1>9, <1>11, <1>12 DEF Opened, M, L, W, new, n, q

\* update[] as zslInsertNode extends it to the levels the list does not have yet.
UpdOf(z, lv, path) ==
    [i \in 0 .. (TopLevel(lv, z.level) - 1) |-> IF i < z.level THEN path[i] ELSE Start]

\* On the new levels that is the header.
LEMMA UpdOfIs ==
    ASSUME NEW z, NEW ord, GoodList(z, ord), NEW s, NEW x, NEW p, SpotIs(z, ord, s, x, p),
           NEW lv \in Levels
    PROVE  UpdIs(UpdOf(z, lv, Path(z, s, x)), HeightsOf(z.levels, ord), ord, p, TopLevel(lv, z.level))
<1> DEFINE top == TopLevel(lv, z.level)
           L == HeightsOf(z.levels, ord)
           upd == UpdOf(z, lv, Path(z, s, x))
           n == Len(ord)
<1>1. /\ n \in Nat /\ HeightsUpTo(L, n) /\ z.level \in Nat \ {0} /\ \A c \in 1 .. n : L[c] \in 1 .. z.level
  BY HeightsAre
<1>2. p \in 1 .. (n + 1)
  BY DEF SpotIs
<1>3. lv \in Nat \ {0} /\ top \in Nat
  BY <1>1, SkiplistAssumption DEF Levels, TopLevel
<1>4. upd = [i \in 0 .. (top - 1) |-> IF i < z.level THEN Path(z, s, x)[i] ELSE Start]
  BY DEF UpdOf
<1>5. \A i \in 0 .. (z.level - 1) : \E u : PrevAt(L, p, i, u) /\ Path(z, s, x)[i] = PosAt(ord, u)
  BY PathIs
<1>6. ASSUME NEW i \in 0 .. (top - 1) PROVE \E u : PrevAt(L, p, i, u) /\ upd[i] = PosAt(ord, u)
  <2>1. CASE i < z.level
    <3>1. i \in 0 .. (z.level - 1) /\ upd[i] = Path(z, s, x)[i]
      BY <1>1, <1>3, <1>4, <2>1
    <3>2. QED
      BY <1>5, <3>1
  <2>2. CASE ~(i < z.level)
    <3>1. upd[i] = PosAt(ord, 0)
      BY <1>4, <2>2 DEF PosAt, Start, NodeAt
    <3>2. \A c \in 1 .. (p - 1) : L[c] <= i
      BY <1>1, <1>2, <1>3, <2>2
    <3>3. PrevAt(L, p, i, 0)
      BY <1>2, <3>2 DEF PrevAt, Reaches
    <3>4. QED
      BY <3>1, <3>3
  <2>3. QED
    BY <2>1, <2>2
<1>7. DOMAIN upd = 0 .. (top - 1)
  BY <1>4
<1>8. QED
  BY <1>6, <1>7 DEF UpdIs

\* The parts together.
LEMMA OpenCtxIs ==
    ASSUME NEW z, NEW ord, GoodList(z, ord), NEW s \in Int, NEW x \in Nat \ {0}, x \notin DOMAIN z.score,
           NEW lv \in Levels, NEW p, SpotIs(z, ord, s, x, p)
    PROVE  OpenCtx(HeightsOf(z.levels, ord), HeightsOf(With(z.levels, x, lv), InsertedAt(ord, p - 1, x)),
                   ord, InsertedAt(ord, p - 1, x), Len(ord), p, lv, z.level, x, UpdOf(z, lv, Path(z, s, x)))
<1> DEFINE n == Len(ord)
           new == InsertedAt(ord, p - 1, x)
           L == HeightsOf(z.levels, ord)
           M == HeightsOf(With(z.levels, x, lv), new)
           upd == UpdOf(z, lv, Path(z, s, x))
<1>1. /\ n \in Nat /\ HeightsUpTo(L, n) /\ z.level \in Nat \ {0} /\ OrderOf(ord, z.score)
      /\ \A c \in 1 .. n : L[c] \in 1 .. z.level
  BY HeightsAre
<1>2. p \in 1 .. (n + 1)
  BY DEF SpotIs
<1>3. Opened(M, L, n, p, lv)
  BY <1>2, HeightsOpened
<1>4. UpdIs(upd, L, ord, p, TopLevel(lv, z.level))
  BY UpdOfIs
<1>5. \A a, b \in 0 .. (n + 1) : NodeAt(ord, a) = NodeAt(ord, b) => a = b
  BY <1>1, NodesDiffer
<1>6. ord \in Seq(DOMAIN z.score)
  BY <1>1 DEF OrderOf
<1>7. /\ Len(new) = n + 1
      /\ \A c \in 0 .. n : c < p => NodeAt(new, c) = NodeAt(ord, c)
      /\ NodeAt(new, p) = x
      /\ \A c \in 0 .. (n + 1) : c >= p => NodeAt(new, c + 1) = NodeAt(ord, c)
  BY <1>2, <1>6, NodesOpened
<1>8. lv \in Nat \ {0}
  BY SkiplistAssumption DEF Levels
<1> HIDE DEF n, new, L, M, upd
<1>9. OpenCtx(L, M, ord, new, n, p, lv, z.level, x, upd)
  BY <1>1, <1>3, <1>4, <1>5, <1>7, <1>8 DEF OpenCtx, n
<1>10. QED
  BY <1>9 DEF n, new, L, M, upd

\* The pointers and spans after an insertion.
Forward2(z, x, lv, upd) ==
    [n \in (Nodes(z) \cup {x}) \cup {HEAD} |->
        IF n = x
        THEN [i \in 0 .. (lv - 1) |-> z.forward[upd[i].node][i]]
        ELSE [i \in DOMAIN z.forward[n] |->
                 IF i < lv /\ i \in DOMAIN upd /\ upd[i].node = n THEN x ELSE z.forward[n][i]]]

Span2(z, x, lv, upd) ==
    [n \in (Nodes(z) \cup {x}) \cup {HEAD} |->
        IF n = x THEN SpansOf(z, lv, upd) ELSE SpansWith(z, lv, upd, n)]

\* What a sound list says of level i of place a.
LEMMA LinkOf ==
    ASSUME NEW z, NEW ord, GoodList(z, ord), NEW a \in 0 .. Len(ord),
           NEW i \in 0 .. (TopOf(HeightsOf(z.levels, ord), a) - 1)
    PROVE  /\ DOMAIN z.forward[NodeAt(ord, a)] = 0 .. (TopOf(HeightsOf(z.levels, ord), a) - 1)
           /\ DOMAIN z.span[NodeAt(ord, a)] = 0 .. (TopOf(HeightsOf(z.levels, ord), a) - 1)
           /\ LinkValue(HeightsOf(z.levels, ord), ord, z.level, a, i,
                        z.forward[NodeAt(ord, a)][i], z.span[NodeAt(ord, a)][i])
           /\ i \in Nat /\ Reaches(HeightsOf(z.levels, ord), a, i)
<1> DEFINE L == HeightsOf(z.levels, ord)
<1>1. ColumnAt(z.forward, z.span, L, ord, z.level, a)
  BY DEF GoodList, GoodParts
<1>2. /\ DOMAIN z.forward[NodeAt(ord, a)] = 0 .. (TopOf(L, a) - 1)
      /\ DOMAIN z.span[NodeAt(ord, a)] = 0 .. (TopOf(L, a) - 1)
      /\ LinksAt(z.forward, z.span, L, ord, z.level, a, i)
  BY <1>1 DEF ColumnAt
<1>3. a # 0 => L[a] \in 1 .. z.level /\ z.level \in Nat
  BY HeightsAre
<1>4. i \in Nat /\ Reaches(L, a, i)
  BY <1>3 DEF TopOf, Reaches
<1>5. QED
  BY <1>2, <1>4, LinkValueIs

\* The levels a node has.
LEMMA DomainOf ==
    ASSUME NEW z, NEW ord, GoodList(z, ord), NEW a \in 0 .. Len(ord)
    PROVE  /\ DOMAIN z.forward[NodeAt(ord, a)] = 0 .. (TopOf(HeightsOf(z.levels, ord), a) - 1)
           /\ DOMAIN z.span[NodeAt(ord, a)] = 0 .. (TopOf(HeightsOf(z.levels, ord), a) - 1)
           /\ NodeAt(ord, a) \in DOMAIN z.score \cup {HEAD}
<1> DEFINE L == HeightsOf(z.levels, ord)
<1>1. ColumnAt(z.forward, z.span, L, ord, z.level, a)
  BY DEF GoodList, GoodParts
<1>2. OrderOf(ord, z.score)
  BY HeightsAre
<1>3. NodeAt(ord, a) \in DOMAIN z.score \cup {HEAD}
  BY <1>2, NodesDiffer
<1>4. QED
  BY <1>1, <1>3 DEF ColumnAt

\* The column of a node that was there, by the values in it.
LEMMA ColumnFrom ==
    ASSUME NEW F, NEW P, NEW M, NEW new, NEW top, NEW c, NEW y, NodeAt(new, c) = y,
           DOMAIN F[y] = 0 .. (TopOf(M, c) - 1), DOMAIN P[y] = 0 .. (TopOf(M, c) - 1),
           \A i \in 0 .. (TopOf(M, c) - 1) : LinkValue(M, new, top, c, i, F[y][i], P[y][i])
    PROVE  ColumnAt(F, P, M, new, top, c)
<1>1. \A i \in 0 .. (TopOf(M, c) - 1) : LinksAt(F, P, M, new, top, c, i)
  BY LinkValueIs
<1>2. QED
  BY <1>1 DEF ColumnAt

\* The columns f and g of node y, that was there.
OldColumn(z, x, lv, upd, y, f, g) ==
    /\ DOMAIN f = DOMAIN z.forward[y] /\ DOMAIN g = DOMAIN z.span[y]
    /\ \A i \in DOMAIN z.forward[y] :
          /\ f[i] = IF i < lv /\ i \in DOMAIN upd /\ upd[i].node = y THEN x ELSE z.forward[y][i]
          /\ i > 0 => g[i] = IF i \in DOMAIN upd /\ upd[i].node = y
                             THEN IF i < lv THEN upd[0].rank - upd[i].rank + 1 ELSE z.span[y][i] + 1
                             ELSE z.span[y][i]

\* LinkBehind gives such columns.
LEMMA OldValues ==
    ASSUME NEW z, NEW x, NEW lv, NEW upd, NEW y \in Nodes(z) \cup {HEAD}, y # x,
           DOMAIN z.forward[y] = DOMAIN z.span[y]
    PROVE  OldColumn(z, x, lv, upd, y, Forward2(z, x, lv, upd)[y], Span2(z, x, lv, upd)[y])
<1>1. Forward2(z, x, lv, upd)[y] = [i \in DOMAIN z.forward[y] |->
          IF i < lv /\ i \in DOMAIN upd /\ upd[i].node = y THEN x ELSE z.forward[y][i]]
  BY DEF Forward2
<1>2. Span2(z, x, lv, upd)[y] = SpansWith(z, lv, upd, y)
  BY DEF Span2
<1>3. SpansWith(z, lv, upd, y) = [i \in DOMAIN z.span[y] |->
        IF i > 0 /\ i \in DOMAIN upd /\ upd[i].node = y
        THEN IF i < lv THEN upd[0].rank - upd[i].rank + 1 ELSE z.span[y][i] + 1
        ELSE z.span[y][i]]
  BY DEF SpansWith
<1> DEFINE G == Forward2(z, x, lv, upd)[y]
           Q == Span2(z, x, lv, upd)[y]
<1> HIDE DEF G, Q
<1>4. DOMAIN G = DOMAIN z.forward[y] /\ \A i \in DOMAIN z.forward[y] :
        G[i] = IF i < lv /\ i \in DOMAIN upd /\ upd[i].node = y THEN x ELSE z.forward[y][i]
  BY <1>1 DEF G
<1>5. DOMAIN Q = DOMAIN z.span[y] /\ \A i \in DOMAIN z.forward[y] : i > 0 =>
        Q[i] = IF i \in DOMAIN upd /\ upd[i].node = y
               THEN IF i < lv THEN upd[0].rank - upd[i].rank + 1 ELSE z.span[y][i] + 1
               ELSE z.span[y][i]
  BY <1>2, <1>3 DEF Q
<1>6. OldColumn(z, x, lv, upd, y, G, Q)
  BY <1>4, <1>5 DEF OldColumn
<1>7. QED
  BY <1>6 DEF G, Q

\* The columns after an insertion.
LEMMA ColumnsOpened ==
    ASSUME NEW z, NEW ord, GoodList(z, ord), NEW M, NEW new, NEW p, NEW lv \in Levels, NEW x, NEW upd,
           x \notin DOMAIN z.score, x # HEAD,
           OpenCtx(HeightsOf(z.levels, ord), M, ord, new, Len(ord), p, lv, z.level, x, upd)
    PROVE  \A c \in 0 .. (Len(ord) + 1) :
              ColumnAt(Forward2(z, x, lv, upd), Span2(z, x, lv, upd), M, new, TopLevel(lv, z.level), c)
<1> DEFINE n == Len(ord)
           L == HeightsOf(z.levels, ord)
           top == TopLevel(lv, z.level)
           F == Forward2(z, x, lv, upd)
           P == Span2(z, x, lv, upd)
<1>1. /\ n \in Nat /\ p \in 1 .. (n + 1) /\ p \in Int /\ Opened(M, L, n, p, lv) /\ lv \in Nat \ {0}
  BY DEF OpenCtx, Opened
<1>2. OpenedFacts(M, L, n, p, lv)
  BY <1>1, OpenedHeights
<1>3. ASSUME NEW a \in 0 .. n, NEW c \in Int, c = IF a < p THEN a ELSE a + 1 PROVE ColumnAt(F, P, M, new, top, c)
  <2> DEFINE y == NodeAt(ord, a)
  <2>1. y \in Nodes(z) \cup {HEAD} /\ y # x /\ DOMAIN z.forward[y] = DOMAIN z.span[y]
        /\ DOMAIN z.forward[y] = 0 .. (TopOf(L, a) - 1)
    BY DomainOf DEF Nodes
  <2>2. TopOf(M, c) = TopOf(L, a)
    <3>1. CASE a < p
      BY <1>1, <1>2, <1>3, <3>1 DEF TopOf, OpenedFacts
    <3>2. CASE ~(a < p)
      <4>1. a \in Int /\ p <= a /\ a <= n /\ c = a + 1 /\ c # 0 /\ a # 0
        BY <1>1, <1>3, <3>2
      <4>2. M[a + 1] = L[a]
        BY <1>2, <4>1 DEF OpenedFacts
      <4>3. QED
        BY <4>1, <4>2 DEF TopOf
    <3>3. QED
      BY <3>1, <3>2
  <2>3. NodeAt(new, c) = y
    <3>1. a \in 0 .. (n + 1)
      BY <1>1
    <3>2. QED
      BY <1>1, <1>3, <3>1 DEF OpenCtx
  <2>4. OldColumn(z, x, lv, upd, y, F[y], P[y])
    <3> HIDE DEF y
    <3>1. QED
      BY <2>1, OldValues
  <2>5. ASSUME NEW i \in 0 .. (TopOf(L, a) - 1) PROVE LinkValue(M, new, top, c, i, F[y][i], P[y][i])
    <3> DEFINE v == z.forward[y][i]
               d == z.span[y][i]
               w == F[y][i]
               e == P[y][i]
    <3>1. LinkValue(L, ord, z.level, a, i, v, d) /\ i \in Nat /\ Reaches(L, a, i)
      BY LinkOf
    <3>2. i \in DOMAIN z.forward[y]
      BY <2>1
    <3>3. w = IF i < lv /\ i \in DOMAIN upd /\ upd[i].node = NodeAt(ord, a) THEN x ELSE v
      BY <2>4, <3>2 DEF OldColumn
    <3>4. i > 0 => e = IF i \in DOMAIN upd /\ upd[i].node = NodeAt(ord, a)
                       THEN IF i < lv THEN upd[0].rank - upd[i].rank + 1 ELSE d + 1
                       ELSE d
      BY <2>4, <3>2 DEF OldColumn
    <3> SUFFICES LinkValue(M, new, top, c, i, w, e)
      OBVIOUS
    <3> HIDE DEF v, d, w, e, F, P, L, n
    <3>5. CASE a < p
      <4>1. LinkValue(M, new, TopLevel(lv, z.level), a, i, w, e)
        BY <3>1, <3>3, <3>4, <3>5, OldBelow DEF L, n
      <4>2. QED
        BY <1>3, <3>5, <4>1
    <3>6. CASE ~(a < p)
      <4>1. a >= p /\ c = a + 1
        BY <1>1, <1>3, <3>6
      <4>2. /\ LinkValue(M, new, TopLevel(lv, z.level), a + 1, i, v, d)
            /\ ~(i \in DOMAIN upd /\ upd[i].node = NodeAt(ord, a))
        BY <3>1, <4>1, OldAbove DEF L, n
      <4>3. w = v /\ (i > 0 => e = d)
        BY <3>3, <3>4, <4>2
      <4>4. QED
        BY <4>1, <4>2, <4>3 DEF LinkValue
    <3>7. QED
      BY <3>5, <3>6
  <2> HIDE DEF y, F, P, L, n, top
  <2>6. DOMAIN F[y] = 0 .. (TopOf(M, c) - 1) /\ DOMAIN P[y] = 0 .. (TopOf(M, c) - 1)
    BY <2>1, <2>2, <2>4 DEF OldColumn
  <2>7. \A i \in 0 .. (TopOf(M, c) - 1) : LinkValue(M, new, top, c, i, F[y][i], P[y][i])
    BY <2>2, <2>5
  <2>8. QED
    BY <2>3, <2>6, <2>7, ColumnFrom
<1>4. ColumnAt(F, P, M, new, top, p)
  <2>1. F[x] = [i \in 0 .. (lv - 1) |-> z.forward[upd[i].node][i]] /\ P[x] = SpansOf(z, lv, upd)
    BY DEF Forward2, Span2
  <2>2. SpansOf(z, lv, upd) = [i \in 0 .. (lv - 1) |->
            IF i = 0
            THEN 0
            ELSE (IF i >= z.level THEN z.length ELSE zslGetNodeSpanAtLevel(z, upd[i].node, i))
                 - (upd[0].rank - upd[i].rank)]
    BY DEF SpansOf
  <2>3. TopOf(M, p) = lv
    BY <1>1, <1>2 DEF TopOf, OpenedFacts
  <2>4. NodeAt(new, p) = x
    BY DEF OpenCtx
  <2>5. ASSUME NEW i \in 0 .. (lv - 1) PROVE LinkValue(M, new, top, p, i, F[x][i], P[x][i])
    <3>1. i \in DOMAIN upd /\ i \in Nat
      BY <1>1 DEF OpenCtx, UpdIs, TopLevel
    <3>2. PICK u : PrevAt(L, p, i, u)
      BY <3>1 DEF OpenCtx, UpdIs
    <3>3. upd[i].node = NodeAt(ord, u) /\ u \in 0 .. n /\ upd[i].rank = u
      BY <3>1, <3>2, UpdAt
    <3>4. i \in 0 .. (TopOf(L, u) - 1)
      <4>1. CASE u = 0
        <5>1. lv \in 1 .. ZSKIPLIST_MAXLEVEL /\ ZSKIPLIST_MAXLEVEL \in Nat
          BY SkiplistAssumption DEF Levels
        <5>2. QED
          BY <4>1, <5>1 DEF TopOf
      <4>2. CASE u # 0
        <5>1. L[u] > i /\ u \in 1 .. n
          BY <3>2, <3>3, <4>2 DEF PrevAt, Reaches
        <5>2. L[u] \in 1 .. z.level /\ z.level \in Nat
          BY <5>1, HeightsAre
        <5>3. QED
          BY <4>2, <5>1, <5>2 DEF TopOf
      <4>3. QED
        BY <4>1, <4>2
    <3> DEFINE y == NodeAt(ord, u)
               v == z.forward[y][i]
               d == z.span[y][i]
               w == F[x][i]
               e == P[x][i]
    <3>5. LinkValue(L, ord, z.level, u, i, v, d)
      BY <3>3, <3>4, LinkOf
    <3>6. w = v
      BY <2>1, <3>3
    <3>7. i > 0 => e = (IF i >= z.level THEN n ELSE d) - (upd[0].rank - upd[i].rank)
      <4>1. z.length = n
        BY HeightsAre
      <4>2. i > 0 => zslGetNodeSpanAtLevel(z, upd[i].node, i) = d
        BY <3>3 DEF zslGetNodeSpanAtLevel
      <4>3. e = IF i = 0 THEN 0
                ELSE (IF i >= z.level THEN z.length ELSE zslGetNodeSpanAtLevel(z, upd[i].node, i))
                     - (upd[0].rank - upd[i].rank)
        BY <2>1, <2>2
      <4> HIDE DEF d, e, n
      <4>4. QED
        BY <3>1, <4>1, <4>2, <4>3
    <3> HIDE DEF y, v, d, w, e, L, n
    <3>8. LinkValue(M, new, TopLevel(lv, z.level), p, i, v, e)
      BY <3>2, <3>5, <3>7, NewLink DEF L, n
    <3>9. LinkValue(M, new, top, p, i, w, e)
      BY <3>6, <3>8
    <3>10. QED
      BY <3>9 DEF w, e
  <2>6. DOMAIN F[x] = 0 .. (lv - 1) /\ DOMAIN P[x] = 0 .. (lv - 1)
    BY <2>1, <2>2
  <2> HIDE DEF F, P, top
  <2>7. QED
    BY <2>3, <2>4, <2>5, <2>6, ColumnFrom
<1>5. SUFFICES ASSUME NEW c \in 0 .. (n + 1) PROVE ColumnAt(F, P, M, new, top, c)
  OBVIOUS
<1> HIDE DEF F, P, L, n, top
<1>6. CASE c < p
  <2>1. c \in 0 .. n /\ c \in Int
    BY <1>1, <1>6
  <2>2. QED
    BY <1>3, <1>6, <2>1
<1>7. CASE c = p
  BY <1>4, <1>7
<1>8. CASE c > p
  <2>1. c - 1 \in 0 .. n /\ c \in Int /\ c = (c - 1) + 1 /\ ~(c - 1 < p)
    BY <1>1, <1>8
  <2>2. QED
    BY <1>3, <2>1
<1>9. QED
  BY <1>1, <1>6, <1>7, <1>8

\* The node behind the place before p is the one at p.
LEMMA NextNode ==
    ASSUME NEW z, NEW ord, GoodList(z, ord), NEW p \in 1 .. (Len(ord) + 1)
    PROVE  z.forward[NodeAt(ord, p - 1)][0] = NodeAt(ord, p)
<1> DEFINE L == HeightsOf(z.levels, ord)
           n == Len(ord)
           a == p - 1
           v == z.forward[NodeAt(ord, a)][0]
           d == z.span[NodeAt(ord, a)][0]
<1>1. /\ n \in Nat /\ HeightsUpTo(L, n) /\ \A c \in 1 .. n : L[c] \in 1 .. z.level
      /\ z.level \in Nat /\ ZSKIPLIST_MAXLEVEL \in Nat \ {0}
  BY HeightsAre, SkiplistAssumption
<1>2. a \in 0 .. n /\ a + 1 = p /\ p \in Int
  BY <1>1
<1>3. 0 \in 0 .. (TopOf(L, a) - 1)
  <2>1. CASE a = 0
    BY <1>1, <2>1 DEF TopOf
  <2>2. CASE a # 0
    <3>1. L[a] \in 1 .. z.level
      BY <1>1, <1>2, <2>2
    <3> HIDE DEF L, a
    <3>2. QED
      BY <1>1, <2>2, <3>1 DEF TopOf
  <2>3. QED
    BY <2>1, <2>2
<1>4. LinkValue(L, ord, z.level, a, 0, v, d)
  <2> HIDE DEF a
  <2> DEFINE i == 0
  <2>1. i \in 0 .. (TopOf(L, a) - 1)
    BY <1>3
  <2> HIDE DEF i
  <2>2. LinkValue(L, ord, z.level, a, i, z.forward[NodeAt(ord, a)][i], z.span[NodeAt(ord, a)][i])
    BY <1>2, <2>1, LinkOf
  <2>3. QED
    BY <2>2 DEF i
<1>5. PICK b : NextAt(L, n, a, 0, b) /\ v = NodeAt(ord, b)
  BY <1>4 DEF LinkValue
<1>6. b = p
  <2>1. b \in (a + 1) .. (n + 1) /\ \A c \in (a + 1) .. (b - 1) : L[c] <= 0
    BY <1>5 DEF NextAt
  <2>2. ASSUME b > p PROVE FALSE
    <3> HIDE DEF a, L, n
    <3>1. p \in (a + 1) .. (b - 1) /\ p \in 1 .. n
      BY <1>1, <1>2, <2>1, <2>2
    <3>2. L[p] <= 0 /\ L[p] \in 1 .. z.level
      BY <1>1, <2>1, <3>1
    <3>3. QED
      BY <1>1, <3>2
  <2> HIDE DEF a, L, n
  <2>3. QED
    BY <1>1, <1>2, <2>1, <2>2
<1>7. QED
  BY <1>5, <1>6

\* The previous nodes after an insertion.
Backward2(z, x, upd, next) ==
    [n \in Nodes(z) \cup {x} |->
        IF n = x
        THEN IF upd[0].node = HEAD THEN NIL ELSE upd[0].node
        ELSE IF n = next THEN x ELSE z.backward[n]]

\* They are right.
LEMMA BackOpened ==
    ASSUME NEW z, NEW ord, GoodList(z, ord), NEW x \in Nat \ {0}, x \notin DOMAIN z.score,
           NEW new, NEW p \in 1 .. (Len(ord) + 1), NEW upd, upd[0].node = NodeAt(ord, p - 1),
           NEW score, DOMAIN score = DOMAIN z.score \cup {x}, OrderOf(new, score),
           Len(new) = Len(ord) + 1, NodeAt(new, p) = x,
           \A c \in 0 .. Len(ord) : c < p => NodeAt(new, c) = NodeAt(ord, c),
           \A c \in 0 .. (Len(ord) + 1) : c >= p => NodeAt(new, c + 1) = NodeAt(ord, c)
    PROVE  BackIs(Backward2(z, x, upd, NodeAt(ord, p)), new)
<1> DEFINE n == Len(ord)
           B == z.backward
           G == Backward2(z, x, upd, NodeAt(ord, p))
           S == DOMAIN z.score
<1>1. OrderOf(ord, z.score) /\ BackIs(B, ord)
  BY DEF GoodList, GoodParts
<1>2. n \in Nat /\ p \in 1 .. (n + 1) /\ p \in Int
  BY <1>1, OrderIs
<1>3. /\ \A a \in 0 .. n : NodeAt(ord, a) \in S \cup {HEAD}
      /\ \A a \in 1 .. n : NodeAt(ord, a) = ord[a] /\ NodeAt(ord, a) # HEAD
      /\ \A a, b \in 0 .. (n + 1) : NodeAt(ord, a) = NodeAt(ord, b) => a = b
      /\ NodeAt(ord, 0) = HEAD
  BY <1>1, NodesDiffer
<1>4. \A a \in 1 .. (n + 1) : NodeAt(new, a) = new[a]
  BY NodesDiffer
<1>5. \A a \in 1 .. n : B[NodeAt(ord, a)] = IF a = 1 THEN NIL ELSE NodeAt(ord, a - 1)
  <2>1. \A a \in 1 .. n : B[ord[a]] = IF a = 1 THEN NIL ELSE ord[a - 1]
    BY <1>1 DEF BackIs
  <2> SUFFICES ASSUME NEW a \in 1 .. n PROVE B[NodeAt(ord, a)] = IF a = 1 THEN NIL ELSE NodeAt(ord, a - 1)
    OBVIOUS
  <2>2. a = 1 \/ a - 1 \in 1 .. n
    BY <1>2
  <2>3. NodeAt(ord, a) = ord[a] /\ (a # 1 => NodeAt(ord, a - 1) = ord[a - 1])
    BY <1>3, <2>2
  <2>4. QED
    BY <2>1, <2>3
<1>6. DOMAIN G = ToSet(new)
  BY DEF OrderOf, Backward2, Nodes
<1>7. /\ G[x] = IF NodeAt(ord, p - 1) = HEAD THEN NIL ELSE NodeAt(ord, p - 1)
      /\ \A y \in S : y # x => G[y] = IF y = NodeAt(ord, p) THEN x ELSE B[y]
  BY DEF Backward2, Nodes
<1> HIDE DEF G, B, n
<1>8. ASSUME NEW a \in 1 .. (n + 1) PROVE G[NodeAt(new, a)] = IF a = 1 THEN NIL ELSE NodeAt(new, a - 1)
  <2>1. CASE a < p
    <3>1. a \in 0 .. n /\ a \in 1 .. n /\ a - 1 \in 0 .. n /\ a - 1 < p /\ a # p /\ a \in 0 .. (n + 1) /\ p \in 0 .. (n + 1)
      BY <1>2, <2>1
    <3>2. NodeAt(new, a) = NodeAt(ord, a) /\ NodeAt(new, a - 1) = NodeAt(ord, a - 1)
      BY <2>1, <3>1 DEF n
    <3>3. NodeAt(ord, a) # NodeAt(ord, p) /\ NodeAt(ord, a) \in S /\ NodeAt(ord, a) # x
      BY <1>3, <3>1
    <3>4. QED
      BY <1>5, <1>7, <3>1, <3>2, <3>3
  <2>2. CASE a = p
    <3>1. NodeAt(new, a) = x
      BY <2>2
    <3>2. p - 1 \in 0 .. n /\ p - 1 < p /\ (p # 1 => p - 1 \in 1 .. n)
      BY <1>2
    <3>3. NodeAt(new, p - 1) = NodeAt(ord, p - 1)
      BY <3>2 DEF n
    <3>4. NodeAt(ord, p - 1) = HEAD <=> p = 1
      BY <1>3, <3>2
    <3>5. QED
      BY <1>7, <2>2, <3>1, <3>3, <3>4
  <2>3. CASE a > p
    <3> DEFINE c == a - 1
    <3>1. c \in 1 .. n /\ c \in 0 .. (n + 1) /\ c >= p /\ a # 1 /\ c + 1 = a /\ p \in 0 .. (n + 1)
      BY <1>2, <2>3
    <3> SUFFICES G[NodeAt(new, a)] = NodeAt(new, c)
      BY <3>1
    <3> HIDE DEF c
    <3>2. NodeAt(new, a) = NodeAt(ord, c)
      BY <3>1 DEF n
    <3>3. NodeAt(ord, c) \in S /\ NodeAt(ord, c) # x /\ (NodeAt(ord, c) = NodeAt(ord, p) <=> c = p)
      <4>1. c \in 0 .. n
        BY <1>2, <3>1
      <4>2. QED
        BY <1>3, <3>1, <4>1
    <3>4. CASE c = p
      BY <1>7, <3>2, <3>3, <3>4
    <3>5. CASE c # p
      <4>1. c - 1 \in 0 .. (n + 1) /\ c - 1 >= p /\ (c - 1) + 1 = c /\ c # 1
        BY <1>2, <3>1, <3>5
      <4>2. NodeAt(new, (c - 1) + 1) = NodeAt(ord, c - 1)
        BY <4>1 DEF n
      <4>3. NodeAt(new, c) = NodeAt(ord, c - 1)
        BY <4>1, <4>2
      <4>4. G[NodeAt(new, a)] = B[NodeAt(ord, c)]
        BY <1>7, <3>2, <3>3, <3>5
      <4>5. QED
        BY <1>5, <3>1, <4>1, <4>3, <4>4
    <3>6. QED
      BY <3>4, <3>5
  <2>4. QED
    BY <1>2, <2>1, <2>2, <2>3
<1>9. Len(new) = n + 1
  BY DEF n
<1>10. ASSUME NEW a \in 1 .. (n + 1) PROVE G[new[a]] = IF a = 1 THEN NIL ELSE new[a - 1]
  <2>1. a = 1 \/ a - 1 \in 1 .. (n + 1)
    BY <1>2
  <2>2. NodeAt(new, a) = new[a] /\ (a # 1 => NodeAt(new, a - 1) = new[a - 1])
    BY <1>4, <2>1
  <2>3. QED
    BY <1>8, <2>2
<1>11. BackIs(G, new)
  BY <1>6, <1>9, <1>10 DEF BackIs
<1>12. QED
  BY <1>11 DEF G

\* The level of the list.
LEMMA LevelOpened ==
    ASSUME NEW level, NEW levels, NEW x, NEW lv \in Levels, x \notin DOMAIN levels, LevelIs(level, levels),
           levels \in [DOMAIN levels -> Levels]
    PROVE  LevelIs(TopLevel(lv, level), With(levels, x, lv))
<1> DEFINE W == With(levels, x, lv)
           D == DOMAIN levels
           top == TopLevel(lv, level)
<1>1. /\ level \in Levels /\ \A y \in D : levels[y] <= level /\ levels[y] \in Levels
      /\ level = 1 \/ \E y \in D : levels[y] = level
  BY DEF LevelIs
<1>2. Levels \subseteq Int /\ \A k \in Levels : k >= 1
  BY SkiplistAssumption DEF Levels
<1>3. DOMAIN W = D \cup {x} /\ W[x] = lv /\ \A y \in D : W[y] = levels[y]
  BY DEF With
<1> HIDE DEF W, D
<1>4. CASE lv > level
  <2>1. top = lv
    BY <1>4 DEF TopLevel
  <2>2. \A y \in DOMAIN W : W[y] <= top
    BY <1>1, <1>2, <1>3, <1>4, <2>1
  <2> HIDE DEF top
  <2>3. LevelIs(top, W)
    BY <1>3, <2>1, <2>2 DEF LevelIs
  <2>4. QED
    BY <2>3 DEF top, W
<1>5. CASE ~(lv > level)
  <2>1. top = level /\ lv <= level
    BY <1>1, <1>2, <1>5 DEF TopLevel
  <2>2. \A y \in DOMAIN W : W[y] <= top
    BY <1>1, <1>2, <1>3, <2>1
  <2> HIDE DEF top
  <2>3. LevelIs(top, W)
    BY <1>1, <1>3, <2>1, <2>2 DEF LevelIs
  <2>4. QED
    BY <2>3 DEF top, W
<1>6. QED
  BY <1>4, <1>5

\* The record of a list after an insertion.
LEMMA LinkBehindIs ==
    ASSUME NEW z, ZRecord(z), NEW x, NEW s, NEW lv, NEW upd, NEW next, DOMAIN z.levels = DOMAIN z.score
    PROVE  ListIs(LinkBehind(z, x, s, lv, upd, next), TopLevel(lv, z.level), z.length + 1,
                  IF next = NIL THEN x ELSE z.tail, z.asserts, With(z.score, x, s), With(z.levels, x, lv),
                  Backward2(z, x, upd, next), Forward2(z, x, lv, upd), Span2(z, x, lv, upd))
<1> DEFINE all == Nodes(z) \cup {x}
           le == IF lv > z.level THEN lv ELSE z.level
           ln == z.length + 1
           ta == IF next = NIL THEN x ELSE z.tail
           sc == [n \in all |-> IF n = x THEN s ELSE z.score[n]]
           ls == [n \in all |-> IF n = x THEN lv ELSE z.levels[n]]
           ba == [n \in all |->
                IF n = x
                THEN IF upd[0].node = HEAD THEN NIL ELSE upd[0].node
                ELSE IF n = next THEN x ELSE z.backward[n]]
           fo == [n \in all \cup {HEAD} |->
                IF n = x
                THEN [i \in 0 .. (lv - 1) |-> z.forward[upd[i].node][i]]
                ELSE [i \in DOMAIN z.forward[n] |->
                         IF i < lv /\ i \in DOMAIN upd /\ upd[i].node = n
                         THEN x ELSE z.forward[n][i]]]
           sp == [n \in all \cup {HEAD} |->
                IF n = x THEN SpansOf(z, lv, upd) ELSE SpansWith(z, lv, upd, n)]
           y == [z EXCEPT !.level = le, !.length = ln, !.tail = ta, !.score = sc, !.levels = ls,
                          !.backward = ba, !.forward = fo, !.span = sp]
<1>1. LinkBehind(z, x, s, lv, upd, next) = y
  BY DEF LinkBehind
<1>2. /\ le = TopLevel(lv, z.level) /\ sc = With(z.score, x, s) /\ ls = With(z.levels, x, lv)
  BY DEF TopLevel, With, Nodes
<1>3. /\ ba = Backward2(z, x, upd, next) /\ fo = Forward2(z, x, lv, upd) /\ sp = Span2(z, x, lv, upd)
  BY DEF Backward2, Forward2, Span2
<1> HIDE DEF le, ln, ta, sc, ls, ba, fo, sp
<1>4. ListIs(y, le, ln, ta, z.asserts, sc, ls, ba, fo, sp)
  BY DEF ListIs, ZRecord, ZFields
<1>5. QED
  BY <1>1, <1>2, <1>3, <1>4 DEF ln, ta

\* zslInsert puts x in at its place, with every pointer, span and counter right.
InsertedWell(z, x, s, lv, y, new) ==
    GoodList(y, new) /\ y.score = With(z.score, x, s) /\ y.levels = With(z.levels, x, lv)

\* The parts of a list after an insertion.
LEMMA InsertParts ==
    ASSUME NEW z, NEW ord, GoodList(z, ord), NEW s \in Int, NEW x \in Nat \ {0}, x \notin DOMAIN z.score,
           NEW lv \in Levels, NEW p, SpotIs(z, ord, s, x, p), NEW upd, upd = UpdOf(z, lv, Path(z, s, x))
    PROVE  /\ upd[0].node = NodeAt(ord, p - 1) /\ p \in 1 .. (Len(ord) + 1)
           /\ GoodParts(TopLevel(lv, z.level), z.length + 1, IF NodeAt(ord, p) = NIL THEN x ELSE z.tail,
                        With(z.score, x, s), With(z.levels, x, lv), Backward2(z, x, upd, NodeAt(ord, p)),
                        Forward2(z, x, lv, upd), Span2(z, x, lv, upd), InsertedAt(ord, p - 1, x))
<1> DEFINE n == Len(ord)
           new == InsertedAt(ord, p - 1, x)
           L == HeightsOf(z.levels, ord)
           W == With(z.levels, x, lv)
           M == HeightsOf(W, new)
           sc == With(z.score, x, s)
           top == TopLevel(lv, z.level)
           next == NodeAt(ord, p)
           ba == Backward2(z, x, upd, next)
           fo == Forward2(z, x, lv, upd)
           sp == Span2(z, x, lv, upd)
           ta == IF next = NIL THEN x ELSE z.tail
<1>1. OpenCtx(L, M, ord, new, n, p, lv, z.level, x, upd)
  BY OpenCtxIs
<1>2. /\ n \in Nat /\ n = z.length /\ p \in 1 .. (n + 1) /\ p \in Int /\ OrderOf(ord, z.score)
  BY HeightsAre DEF SpotIs
<1>3. upd[0].node = NodeAt(ord, p - 1)
  <2> HIDE DEF L, M, new, n
  <2>1. QED
    BY <1>1, UpdZero
<1>4. OrderOf(new, sc)
  BY <1>2, OrderOpened
<1>5. /\ Len(new) = n + 1 /\ NodeAt(new, p) = x
      /\ \A c \in 0 .. n : c < p => NodeAt(new, c) = NodeAt(ord, c)
      /\ \A c \in 0 .. (n + 1) : c >= p => NodeAt(new, c + 1) = NodeAt(ord, c)
  BY <1>1 DEF OpenCtx
<1>6. DOMAIN sc = DOMAIN z.score \cup {x} /\ x # HEAD
  BY DEF With, HEAD
<1>7. BackIs(ba, new)
  <2> HIDE DEF new, sc
  <2>1. QED
    BY <1>2, <1>3, <1>4, <1>5, <1>6, BackOpened
<1>8. DOMAIN z.levels = DOMAIN z.score /\ z.levels \in [DOMAIN z.levels -> Levels] /\ LevelIs(z.level, z.levels)
      /\ z.tail = (IF n = 0 THEN NIL ELSE ord[n])
  BY DEF GoodList, GoodParts
<1>9. LevelIs(top, W)
  BY <1>8, LevelOpened
<1>10. W \in [DOMAIN sc -> Levels]
  BY <1>6, <1>8 DEF With
<1>11. \A c \in 0 .. (n + 1) : ColumnAt(fo, sp, M, new, top, c)
  <2> HIDE DEF M, new
  <2>1. QED
    BY <1>1, <1>6, ColumnsOpened
<1>12. DOMAIN fo = DOMAIN sc \cup {HEAD} /\ DOMAIN sp = DOMAIN sc \cup {HEAD}
  BY <1>6 DEF Forward2, Span2, Nodes
<1>13. ta = new[n + 1]
  <2>1. /\ \A c \in 0 .. n : NodeAt(ord, c) # NIL
        /\ NodeAt(ord, n + 1) = NIL /\ \A a \in 1 .. n : NodeAt(ord, a) = ord[a]
    BY <1>2, NodesDiffer
  <2>2. \A a \in 1 .. (n + 1) : NodeAt(new, a) = new[a]
    BY <1>4, <1>5, NodesDiffer
  <2> HIDE DEF new, n
  <2>3. NodeAt(new, n + 1) = new[n + 1]
    BY <1>2, <2>2
  <2>4. CASE p = n + 1
    BY <1>5, <2>1, <2>3, <2>4
  <2>5. CASE p # n + 1
    <3>1. n \in 0 .. (n + 1) /\ n >= p /\ n \in 1 .. n /\ p \in 0 .. n /\ n # 0
      BY <1>2, <2>5
    <3>2. next # NIL /\ ta = ord[n]
      BY <1>8, <2>1, <3>1
    <3>3. NodeAt(new, n + 1) = NodeAt(ord, n) /\ NodeAt(ord, n) = ord[n]
      BY <1>5, <2>1, <3>1
    <3>4. QED
      BY <2>3, <3>2, <3>3
  <2>6. QED
    BY <2>4, <2>5
<1>14. z.length + 1 = Len(new) /\ Len(new) # 0 /\ Len(new) = n + 1
  BY <1>2, <1>5
<1> HIDE DEF new, W, M, sc, top, next, ba, fo, sp, ta, n
<1>15. \A c \in 0 .. Len(new) : ColumnAt(fo, sp, HeightsOf(W, new), new, top, c)
  BY <1>11, <1>14 DEF M
<1>16. ta = (IF Len(new) = 0 THEN NIL ELSE new[Len(new)])
  BY <1>13, <1>14
<1>17. GoodParts(top, z.length + 1, ta, sc, W, ba, fo, sp, new)
  BY <1>4, <1>7, <1>9, <1>10, <1>12, <1>14, <1>15, <1>16 DEF GoodParts
<1>18. QED
  BY <1>2, <1>3, <1>17 DEF new, W, sc, top, next, ba, fo, sp, ta, n

\* It does, for a node of any height.
LEMMA InsertIs ==
    ASSUME NEW z, NEW ord, GoodList(z, ord), NEW s \in Int, NEW x \in Nat \ {0}, x \notin DOMAIN z.score,
           NEW lv \in Levels
    PROVE  \E new : InsertedWell(z, x, s, lv, zslInsert(z, s, x, lv), new)
<1> DEFINE upd == UpdOf(z, lv, Path(z, s, x))
           y == zslInsert(z, s, x, lv)
<1>1. OrderOf(ord, z.score) /\ ZRecord(z) /\ DOMAIN z.levels = DOMAIN z.score /\ z.asserts = TRUE
  BY DEF GoodList, GoodParts
<1>2. PICK p : SpotIs(z, ord, s, x, p)
  <2>1. x \in Int
    OBVIOUS
  <2>2. QED
    BY <1>1, <2>1, SpotExists
<1> DEFINE new == InsertedAt(ord, p - 1, x)
           next == NodeAt(ord, p)
           ta == IF next = NIL THEN x ELSE z.tail
           sc == With(z.score, x, s)
           W == With(z.levels, x, lv)
           ba == Backward2(z, x, upd, next)
           fo == Forward2(z, x, lv, upd)
           sp == Span2(z, x, lv, upd)
           top == TopLevel(lv, z.level)
           ln == z.length + 1
<1>3. /\ upd[0].node = NodeAt(ord, p - 1) /\ p \in 1 .. (Len(ord) + 1)
      /\ GoodParts(top, ln, ta, sc, W, ba, fo, sp, new)
  BY <1>2, InsertParts
<1>4. y = LinkBehind(z, x, s, lv, upd, z.forward[upd[0].node][0])
  BY DEF zslInsert, LinkAt, UpdOf, TopLevel
<1> HIDE DEF upd
<1>5. z.forward[upd[0].node][0] = next
  BY <1>3, NextNode
<1>6. y = LinkBehind(z, x, s, lv, upd, next)
  BY <1>4, <1>5
<1> HIDE DEF next, y
<1>7. ListIs(y, top, ln, ta, z.asserts, sc, W, ba, fo, sp)
  BY <1>1, <1>6, LinkBehindIs
<1> HIDE DEF ta, sc, W, ba, fo, sp, top, ln, new
<1>8. GoodList(y, new) /\ y.score = sc /\ y.levels = W
  <2>1. ListIs(y, top, ln, ta, TRUE, sc, W, ba, fo, sp)
    BY <1>1, <1>7 DEF ListIs
  <2>2. GoodParts(top, ln, ta, sc, W, ba, fo, sp, new)
    BY <1>3
  <2>3. QED
    BY <2>1, <2>2 DEF ListIs, GoodList
<1>9. InsertedWell(z, x, s, lv, y, new)
  BY <1>8 DEF InsertedWell, sc, W
<1>10. QED
  BY <1>9 DEF y

-----------------------------------------------------------------------------
(* Deletion. *)

\* The map without x.
LessOne(score, x) == [n \in DOMAIN score \ {x} |-> score[n]]

\* The nodes by place when the one at place p was taken out.
LEMMA NodesClosed ==
    ASSUME NEW ord, NEW S, ord \in Seq(S), NEW p \in 1 .. Len(ord)
    PROVE  /\ Len(DeletedAt(ord, p - 1)) = Len(ord) - 1
           /\ \A c \in 0 .. Len(ord) : c < p => NodeAt(DeletedAt(ord, p - 1), c) = NodeAt(ord, c)
           /\ \A c \in 0 .. (Len(ord) + 1) : c > p => NodeAt(DeletedAt(ord, p - 1), c - 1) = NodeAt(ord, c)
<1> DEFINE n == Len(ord)
           q == p - 1
           new == DeletedAt(ord, q)
<1>1. n \in Nat /\ q \in 0 .. (n - 1) /\ q + 1 = p /\ p \in Int
  OBVIOUS
<1>2. new = [i \in 1 .. (n - 1) |-> IF i <= q THEN ord[i] ELSE ord[i + 1]]
  BY DEF DeletedAt
<1>3. Len(new) = n - 1
  <2> HIDE DEF q
  <2>1. QED
    BY <1>1, DeletedType
<1>4. \A i \in 1 .. (n - 1) : new[i] = IF i <= q THEN ord[i] ELSE ord[i + 1]
  BY <1>2
<1> SUFFICES /\ Len(new) = n - 1
             /\ \A c \in 0 .. n : c < p => NodeAt(new, c) = NodeAt(ord, c)
             /\ \A c \in 0 .. (n + 1) : c > p => NodeAt(new, c - 1) = NodeAt(ord, c)
  OBVIOUS
<1>5. \A c \in Int : NodeAt(ord, c) = IF c = 0 THEN HEAD ELSE IF c <= n THEN ord[c] ELSE NIL
  BY DEF NodeAt
<1> HIDE DEF new, n, q
<1>6. \A c \in Int : NodeAt(new, c) = IF c = 0 THEN HEAD ELSE IF c <= n - 1 THEN new[c] ELSE NIL
  BY <1>3 DEF NodeAt
<1>7. ASSUME NEW c \in 0 .. n, c < p PROVE NodeAt(new, c) = NodeAt(ord, c)
  BY <1>1, <1>4, <1>5, <1>6, <1>7
<1>8. ASSUME NEW c \in 0 .. (n + 1), c > p PROVE NodeAt(new, c - 1) = NodeAt(ord, c)
  <2>1. c \in Int /\ c - 1 \in Int /\ c - 1 # 0 /\ c # 0 /\ (c - 1) + 1 = c
    BY <1>1, <1>8
  <2>2. CASE c <= n
    <3>1. c - 1 \in 1 .. (n - 1) /\ ~(c - 1 <= q) /\ c - 1 <= n - 1
      BY <1>1, <1>8, <2>2
    <3>2. new[c - 1] = ord[(c - 1) + 1]
      BY <1>4, <3>1
    <3>3. NodeAt(new, c - 1) = new[c - 1] /\ NodeAt(ord, c) = ord[c]
      BY <1>5, <1>6, <2>1, <2>2, <3>1
    <3>4. QED
      BY <2>1, <3>2, <3>3
  <2>3. CASE c = n + 1
    <3>1. ~(c - 1 <= n - 1) /\ ~(c <= n)
      BY <1>1, <2>3
    <3>2. QED
      BY <1>5, <1>6, <2>1, <3>1
  <2>4. QED
    BY <1>1, <2>2, <2>3
<1>9. QED
  BY <1>3, <1>7, <1>8

\* The order without x.
LEMMA OrderClosed ==
    ASSUME NEW ord, NEW score, OrderOf(ord, score), NEW p \in 1 .. Len(ord), NEW x, x = ord[p]
    PROVE  OrderOf(DeletedAt(ord, p - 1), LessOne(score, x))
<1> DEFINE n == Len(ord)
           q == p - 1
           new == DeletedAt(ord, q)
           S == DOMAIN score
           T == S \ {x}
           w == LessOne(score, x)
<1>1. /\ n \in Nat /\ DOMAIN ord = 1 .. n /\ \A a \in 1 .. n : ord[a] \in S
      /\ \A y \in S : score[y] \in Int /\ y \in Nat \ {0}
      /\ \A a, b \in 1 .. n : ord[a] = ord[b] => a = b
  BY OrderIs
<1>2. p \in Int /\ q \in 0 .. (n - 1) /\ q + 1 = p
  BY <1>1
<1>3. DOMAIN w = T /\ w \in [T -> Int] /\ \A y \in T : w[y] = score[y]
  BY <1>1 DEF LessOne
<1>4. ord \in Seq(S) /\ ToSet(ord) = S /\ \A i, j \in 1 .. n : i < j => Precedes(score, ord[i], ord[j])
  BY DEF OrderOf
<1>5. IsInjective(ord)
  BY <1>1 DEF IsInjective
<1>6. new \in Seq(S) /\ Len(new) = n - 1
  <2> HIDE DEF q
  <2>1. QED
    BY <1>2, <1>4, DeletedType
<1>7. ToSet(new) = T
  <2> HIDE DEF q
  <2>1. ToSet(new) = ToSet(ord) \ {ord[q + 1]}
    BY <1>2, <1>4, <1>5, DeletedDistinct
  <2>2. QED
    BY <1>2, <1>4, <2>1
<1>8. \A i \in 1 .. (n - 1) : new[i] = IF i < p THEN ord[i] ELSE ord[i + 1]
  BY <1>1, <1>2 DEF DeletedAt
<1>9. DOMAIN new = 1 .. (n - 1)
  BY DEF DeletedAt
<1> HIDE DEF new, n, q
<1>10. \A i \in 1 .. (n - 1) : new[i] \in T
  BY <1>7, <1>9 DEF ToSet
<1>11. new \in Seq(T)
  <2>1. new \in [1 .. (n - 1) -> T] /\ n - 1 \in Nat
    <3>1. new = [i \in 1 .. (n - 1) |-> new[i]]
      BY <1>9, <1>6
    <3>2. QED
      BY <1>1, <1>2, <1>10, <3>1
  <2>2. QED
    BY <2>1
<1>12. ASSUME NEW i \in 1 .. (n - 1), NEW j \in 1 .. (n - 1), i < j PROVE Precedes(w, new[i], new[j])
  <2> DEFINE f == IF i < p THEN i ELSE i + 1
             g == IF j < p THEN j ELSE j + 1
  <2>1. f \in 1 .. n /\ g \in 1 .. n /\ f < g
    BY <1>1, <1>2, <1>12
  <2>2. new[i] = ord[f] /\ new[j] = ord[g]
    BY <1>8
  <2> HIDE DEF f, g
  <2>3. Precedes(score, ord[f], ord[g])
    BY <1>4, <2>1
  <2>4. w[new[i]] = score[new[i]] /\ w[new[j]] = score[new[j]]
    BY <1>3, <1>10
  <2>5. QED
    BY <2>2, <2>3, <2>4 DEF Precedes
<1>13. T \subseteq Nat \ {0}
  BY <1>1
<1> HIDE DEF w, T
<1>14. OrderOf(new, w)
  BY <1>3, <1>6, <1>7, <1>11, <1>12, <1>13 DEF OrderOf
<1>15. QED
  BY <1>14 DEF new, w, q

\* The place of a node is where the search for it ends.
LEMMA SpotOfNode ==
    ASSUME NEW z, NEW ord, OrderOf(ord, z.score), NEW p \in 1 .. Len(ord), NEW x, x = ord[p]
    PROVE  SpotIs(z, ord, z.score[x], x, p)
<1> DEFINE n == Len(ord)
           sc == z.score
<1>1. n \in Nat /\ \A a \in 1 .. n : ord[a] \in DOMAIN sc /\ ord[a] \in Nat \ {0}
  BY OrderIs
<1>2. \A y \in DOMAIN sc : sc[y] \in Int
  BY OrderIs
<1>3. \A i, j \in 1 .. n : i < j => Precedes(sc, ord[i], ord[j])
  BY DEF OrderOf
<1>4. ASSUME NEW c \in 1 .. n PROVE After(z, sc[x], x, ord[c]) <=> c < p
  <2>1. /\ sc[ord[c]] \in Int /\ sc[x] \in Int /\ x \in Int /\ ord[c] \in Int /\ ord[c] # NIL
    BY <1>1, <1>2 DEF NIL
  <2>2. c < p => Precedes(sc, ord[c], x)
    BY <1>3
  <2>3. c > p => Precedes(sc, x, ord[c])
    BY <1>3
  <2>4. c = p => ord[c] = x
    OBVIOUS
  <2>5. c < p \/ c = p \/ c > p
    BY <1>1
  <2>6. QED
    BY <2>1, <2>2, <2>3, <2>4, <2>5 DEF After, Precedes
<1>5. p \in 1 .. (n + 1)
  BY <1>1
<1>6. QED
  BY <1>4, <1>5 DEF SpotIs

\* The heights without x.
LEMMA HeightsClosed ==
    ASSUME NEW z, NEW ord, GoodList(z, ord), NEW p \in 1 .. Len(ord), NEW x, x = ord[p]
    PROVE  Closed(HeightsOf(LessOne(z.levels, x), DeletedAt(ord, p - 1)), HeightsOf(z.levels, ord), Len(ord), p)
<1> DEFINE n == Len(ord)
           q == p - 1
           new == DeletedAt(ord, q)
           W == LessOne(z.levels, x)
           L == HeightsOf(z.levels, ord)
           M == HeightsOf(W, new)
<1>1. n \in Nat /\ HeightsUpTo(L, n) /\ OrderOf(ord, z.score) /\ q \in 0 .. (n - 1) /\ q + 1 = p /\ p \in Int
  BY HeightsAre
<1>2. DOMAIN z.levels = DOMAIN z.score
  BY DEF GoodList, GoodParts
<1>3. /\ \A a \in 1 .. n : ord[a] \in DOMAIN z.score
      /\ \A a, b \in 1 .. n : ord[a] = ord[b] => a = b
  BY <1>1, OrderIs
<1>4. Len(new) = n - 1
  <2>1. ord \in Seq(DOMAIN z.score)
    BY <1>1 DEF OrderOf
  <2>2. QED
    BY <2>1, NodesClosed
<1>5. \A i \in 1 .. (n - 1) : new[i] = IF i < p THEN ord[i] ELSE ord[i + 1]
  BY <1>1 DEF DeletedAt
<1>6. \A y \in DOMAIN z.score : y # x => W[y] = z.levels[y]
  BY <1>2 DEF LessOne
<1>7. L = [a \in 1 .. n |-> z.levels[ord[a]]]
  BY DEF HeightsOf
<1> HIDE DEF new, W, n, q, L
<1>8. M = [a \in 1 .. (n - 1) |-> W[new[a]]]
  BY <1>4 DEF HeightsOf
<1>9. ASSUME NEW c \in 1 .. (n - 1) PROVE W[new[c]] = IF c < p THEN L[c] ELSE L[c + 1]
  <2> DEFINE f == IF c < p THEN c ELSE c + 1
  <2>1. f \in 1 .. n /\ f # p
    BY <1>1
  <2>2. new[c] = ord[f]
    BY <1>5
  <2> SUFFICES W[new[c]] = L[f]
    OBVIOUS
  <2> HIDE DEF f
  <2>3. ord[f] \in DOMAIN z.score /\ ord[f] # x
    BY <1>3, <2>1 DEF n
  <2>4. QED
    BY <1>6, <1>7, <2>1, <2>2, <2>3
<1>10. M = [c \in 1 .. (n - 1) |-> IF c < p THEN L[c] ELSE L[c + 1]]
  BY <1>8, <1>9
<1>11. p \in 1 .. n
  BY DEF n
<1>12. Closed(M, L, n, p)
  BY <1>1, <1>10, <1>11 DEF Closed
<1>13. QED
  BY <1>12 DEF new, W, n, q, L

\* A list of n nodes with heights L, before and after x was taken out of place p.
CloseCtx(L, M, ord, new, n, p, level, x, upd) ==
    /\ n \in Nat /\ n = Len(ord) /\ Len(new) = n - 1 /\ Closed(M, L, n, p)
    /\ level \in Nat \ {0} /\ \A c \in 1 .. n : L[c] \in 1 .. level
    /\ UpdIs(upd, L, ord, p, level) /\ NodeAt(ord, p) = x
    /\ \A a, b \in 0 .. (n + 1) : NodeAt(ord, a) = NodeAt(ord, b) => a = b
    /\ \A c \in 0 .. n : c < p => NodeAt(new, c) = NodeAt(ord, c)
    /\ \A c \in 0 .. (n + 1) : c > p => NodeAt(new, c - 1) = NodeAt(ord, c)

\* The facts of a context that the proofs use.
LEMMA CloseFacts ==
    ASSUME NEW L, NEW M, NEW ord, NEW new, NEW n, NEW p, NEW level, NEW x, NEW upd,
           CloseCtx(L, M, ord, new, n, p, level, x, upd)
    PROVE  /\ n \in Nat /\ n = Len(ord) /\ Len(new) = n - 1 /\ Closed(M, L, n, p) /\ HeightsUpTo(L, n)
           /\ p \in 1 .. n /\ p \in Int /\ level \in Nat \ {0} /\ DOMAIN upd = 0 .. (level - 1)
           /\ p \in 1 .. (n + 1) /\ p \in 0 .. (n + 1) /\ \A i \in DOMAIN upd : \E u : PrevAt(L, p, i, u)
<1>1. /\ n \in Nat /\ n = Len(ord) /\ Len(new) = n - 1 /\ Closed(M, L, n, p)
      /\ level \in Nat \ {0} /\ UpdIs(upd, L, ord, p, level)
  BY DEF CloseCtx
<1>2. p \in 1 .. n /\ HeightsUpTo(L, n)
  BY <1>1 DEF Closed
<1>3. DOMAIN upd = 0 .. (level - 1) /\ \A i \in DOMAIN upd : \E u : PrevAt(L, p, i, u)
  BY <1>1 DEF UpdIs
<1>4. p \in Int /\ p \in 1 .. (n + 1) /\ p \in 0 .. (n + 1)
  BY <1>1, <1>2
<1>5. QED
  BY <1>1, <1>2, <1>3, <1>4

\* What update[i] is, for the node at place a.
LEMMA UpdCut ==
    ASSUME NEW L, NEW M, NEW ord, NEW new, NEW n, NEW p, NEW level, NEW x, NEW upd,
           CloseCtx(L, M, ord, new, n, p, level, x, upd), NEW i \in DOMAIN upd,
           NEW u, PrevAt(L, p, i, u)
    PROVE  /\ upd[i] = PosAt(ord, u) /\ upd[i].node = NodeAt(ord, u)
           /\ u \in 0 .. n /\ u < p /\ i \in Nat
           /\ \A a \in 0 .. n : upd[i].node = NodeAt(ord, a) <=> a = u
<1>1. /\ n \in Nat /\ HeightsUpTo(L, n) /\ p \in 1 .. (n + 1)
  BY CloseFacts
<1>0. \A a, b \in 0 .. (n + 1) : NodeAt(ord, a) = NodeAt(ord, b) => a = b
  BY DEF CloseCtx
<1>2. i \in Nat
  BY DEF CloseCtx, UpdIs
<1>3. PICK v : PrevAt(L, p, i, v) /\ upd[i] = PosAt(ord, v)
  BY DEF CloseCtx, UpdIs
<1>4. u = v
  BY <1>1, <1>2, <1>3, PrevUnique
<1>5. u \in 0 .. n /\ u < p
  BY <1>1 DEF PrevAt
<1>6. upd[i].node = NodeAt(ord, u)
  BY <1>3, <1>4 DEF PosAt
<1>7. \A a \in 0 .. n : a \in 0 .. (n + 1)
  BY <1>1
<1>8. \A a \in 0 .. n : NodeAt(ord, u) = NodeAt(ord, a) <=> a = u
  BY <1>0, <1>5, <1>7
<1>9. QED
  BY <1>2, <1>3, <1>4, <1>5, <1>6, <1>8

\* update[0] is the node before place p.
LEMMA UpdCutZero ==
    ASSUME NEW L, NEW M, NEW ord, NEW new, NEW n, NEW p, NEW level, NEW x, NEW upd,
           CloseCtx(L, M, ord, new, n, p, level, x, upd)
    PROVE  upd[0].node = NodeAt(ord, p - 1)
<1>1. /\ n \in Nat /\ p \in 1 .. n /\ level \in Nat \ {0} /\ DOMAIN upd = 0 .. (level - 1)
  BY CloseFacts
<1>2. 0 \in DOMAIN upd /\ \A c \in 1 .. n : L[c] \in 1 .. level
  BY <1>1 DEF CloseCtx
<1>3. p - 1 \in 0 .. (p - 1) /\ (p - 1 # 0 => p - 1 \in 1 .. n) /\ (p - 1) + 1 > p - 1
  BY <1>1
<1>4. Reaches(L, p - 1, 0)
  BY <1>1, <1>2, <1>3 DEF Reaches
<1>5. PrevAt(L, p, 0, p - 1)
  BY <1>1, <1>3, <1>4 DEF PrevAt
<1> DEFINE u == p - 1
           i == 0
<1>6. PrevAt(L, p, i, u) /\ i \in DOMAIN upd
  BY <1>2, <1>5
<1> HIDE DEF u, i
<1>7. upd[i].node = NodeAt(ord, u)
  BY <1>6, UpdCut
<1>8. QED
  BY <1>7 DEF u, i

\* Link v of span d becomes w and e; those of x are v2 and d2.
CutLink(upd, x, y, i, v, d, v2, d2, w, e) ==
    /\ w = (IF i \in DOMAIN upd /\ upd[i].node = y /\ v = x THEN v2 ELSE v)
    /\ i > 0 => e = IF ~(i \in DOMAIN upd /\ upd[i].node = y) THEN d
                    ELSE IF v = x THEN d + d2 - 1 ELSE d - 1

\* The links of the nodes before x.
LEMMA CutBelow ==
    ASSUME NEW L, NEW M, NEW ord, NEW new, NEW n, NEW p, NEW level, NEW x, NEW upd,
           CloseCtx(L, M, ord, new, n, p, level, x, upd),
           NEW a \in 0 .. n, a < p, NEW i \in Nat, Reaches(L, a, i), NEW v, NEW d,
           LinkValue(L, ord, level, a, i, v, d), NEW v2, NEW d2,
           i < L[p] => LinkValue(L, ord, level, p, i, v2, d2), NEW w, NEW e,
           CutLink(upd, x, NodeAt(ord, a), i, v, d, v2, d2, w, e)
    PROVE  LinkValue(M, new, level, a, i, w, e)
<1>0. /\ w = (IF i \in DOMAIN upd /\ upd[i].node = NodeAt(ord, a) /\ v = x THEN v2 ELSE v)
      /\ i > 0 => e = IF ~(i \in DOMAIN upd /\ upd[i].node = NodeAt(ord, a)) THEN d
                      ELSE IF v = x THEN d + d2 - 1 ELSE d - 1
  BY DEF CutLink
<1>1. /\ n \in Nat /\ n = Len(ord) /\ Len(new) = n - 1 /\ Closed(M, L, n, p) /\ HeightsUpTo(L, n)
      /\ p \in 1 .. n /\ p \in Int /\ level \in Nat \ {0} /\ DOMAIN upd = 0 .. (level - 1)
      /\ p \in 1 .. (n + 1) /\ p \in 0 .. (n + 1)
  BY CloseFacts
<1>2. PICK b : /\ NextAt(L, n, a, i, b) /\ v = NodeAt(ord, b)
               /\ i > 0 => d = IF b <= n THEN b - a ELSE IF i < level THEN n - a ELSE 0
  BY <1>1 DEF LinkValue
<1>3. b \in (a + 1) .. (n + 1) /\ b \in Int /\ b \in 0 .. (n + 1)
  BY <1>1, <1>2 DEF NextAt
<1>4. i \in DOMAIN upd <=> i < level
  BY <1>1
<1>5. /\ b < p => NextAt(M, n - 1, a, i, b)
      /\ b > p => NextAt(M, n - 1, a, i, b - 1)
      /\ b = p => \A f : NextAt(L, n, p, i, f) => NextAt(M, n - 1, a, i, f - 1)
  BY <1>1, <1>2, ClosedBelow
<1>6. b <= n => i < level
  <2>1. SUFFICES ASSUME b <= n PROVE i < level
    OBVIOUS
  <2>2. b \in 1 .. n /\ L[b] > i
    BY <1>2, <1>3, <2>1 DEF NextAt
  <2>3. L[b] \in 1 .. level
    BY <2>2 DEF CloseCtx
  <2>4. QED
    BY <1>1, <2>2, <2>3
<1>7. v = x <=> b = p
  BY <1>1, <1>2, <1>3 DEF CloseCtx
<1>8. CASE b < p
  <2>1. ~(i \in DOMAIN upd /\ upd[i].node = NodeAt(ord, a))
    <3>1. SUFFICES ASSUME i \in DOMAIN upd, upd[i].node = NodeAt(ord, a) PROVE FALSE
      OBVIOUS
    <3>2. PICK u : PrevAt(L, p, i, u)
      BY <3>1, CloseFacts
    <3>3. a = u
      BY <3>1, <3>2, UpdCut
    <3>4. b >= p
      BY <1>1, <1>2, <3>2, <3>3, NextBehind
    <3>5. QED
      BY <1>1, <1>3, <1>8, <3>4
  <2>2. w = v /\ (i > 0 => e = d)
    BY <1>0, <2>1
  <2>3. NodeAt(new, b) = NodeAt(ord, b) /\ b <= n /\ b <= n - 1
    BY <1>1, <1>3, <1>8 DEF CloseCtx
  <2>4. QED
    BY <1>1, <1>2, <1>5, <1>8, <2>2, <2>3 DEF LinkValue
<1>9. CASE b >= p
  <2>1. PrevAt(L, p, i, a)
    <3>1. a \in 0 .. (p - 1)
      BY <1>1
    <3>2. QED
      BY <1>1, <1>2, <1>9, <3>1, PrevIs
  <2>2. i \in DOMAIN upd => upd[i].node = NodeAt(ord, a)
    BY <2>1, UpdCut
  <2>3. CASE b = p
    <3>1. i < level /\ i \in DOMAIN upd /\ i < L[p]
      <4>1. b <= n
        BY <1>1, <2>3
      <4>2. L[b] > i
        BY <1>2, <4>1 DEF NextAt
      <4>3. L[p] \in 1 .. level
        BY <1>1 DEF CloseCtx
      <4>4. QED
        BY <1>1, <1>4, <1>6, <2>3, <4>1, <4>2, <4>3
    <3>2. LinkValue(L, ord, level, p, i, v2, d2)
      BY <3>1
    <3>3. PICK f : /\ NextAt(L, n, p, i, f) /\ v2 = NodeAt(ord, f)
                   /\ i > 0 => d2 = IF f <= n THEN f - p ELSE IF i < level THEN n - p ELSE 0
      BY <1>1, <3>2 DEF LinkValue
    <3>4. f \in 0 .. (n + 1) /\ f > p /\ f \in Int
      BY <1>1, <3>3 DEF NextAt
    <3>5. NextAt(M, n - 1, a, i, f - 1) /\ NodeAt(new, f - 1) = NodeAt(ord, f)
      BY <1>5, <2>3, <3>3, <3>4 DEF CloseCtx
    <3>6. w = v2 /\ (i > 0 => e = d + d2 - 1)
      BY <1>0, <1>7, <2>2, <2>3, <3>1
    <3>7. i > 0 => e = IF f - 1 <= n - 1 THEN (f - 1) - a ELSE IF i < level THEN (n - 1) - a ELSE 0
      <4>1. i > 0 => d = p - a
        BY <1>1, <1>2, <2>3
      <4>2. i > 0 => d2 = IF f <= n THEN f - p ELSE n - p
        BY <3>1, <3>3
      <4>3. QED
        BY <1>1, <3>1, <3>4, <3>6, <4>1, <4>2
    <3>8. QED
      BY <1>1, <3>3, <3>5, <3>6, <3>7 DEF LinkValue
  <2>4. CASE b > p
    <3>1. NextAt(M, n - 1, a, i, b - 1) /\ NodeAt(new, b - 1) = NodeAt(ord, b)
      BY <1>3, <1>5, <2>4 DEF CloseCtx
    <3>2. w = v /\ v # x
      BY <1>0, <1>1, <1>3, <1>7, <2>4
    <3>3. i > 0 => e = IF b - 1 <= n - 1 THEN (b - 1) - a ELSE IF i < level THEN (n - 1) - a ELSE 0
      <4>1. CASE i < level
        <5>1. i > 0 => e = d - 1
          BY <1>0, <1>4, <2>2, <3>2, <4>1
        <5>2. QED
          BY <1>1, <1>2, <1>3, <4>1, <5>1
      <4>2. CASE ~(i < level)
        <5>1. i > 0 => e = d
          BY <1>0, <1>4, <4>2
        <5>2. ~(b <= n)
          BY <1>6, <4>2
        <5>3. QED
          BY <1>1, <1>2, <1>3, <4>2, <5>1, <5>2
      <4>3. QED
        BY <4>1, <4>2
    <3>4. QED
      BY <1>1, <1>2, <3>1, <3>2, <3>3 DEF LinkValue
  <2>5. QED
    BY <1>1, <1>3, <1>9, <2>3, <2>4
<1>10. QED
  BY <1>1, <1>3, <1>8, <1>9

\* The links of the nodes behind x.
LEMMA CutAbove ==
    ASSUME NEW L, NEW M, NEW ord, NEW new, NEW n, NEW p, NEW level, NEW x, NEW upd,
           CloseCtx(L, M, ord, new, n, p, level, x, upd),
           NEW a \in 0 .. n, a > p, NEW i \in Nat, NEW v, NEW d, LinkValue(L, ord, level, a, i, v, d)
    PROVE  /\ LinkValue(M, new, level, a - 1, i, v, d)
           /\ ~(i \in DOMAIN upd /\ upd[i].node = NodeAt(ord, a))
<1>1. /\ n \in Nat /\ n = Len(ord) /\ Len(new) = n - 1 /\ Closed(M, L, n, p) /\ HeightsUpTo(L, n)
      /\ p \in 1 .. n /\ p \in Int /\ level \in Nat \ {0}
  BY CloseFacts
<1>2. PICK b : /\ NextAt(L, n, a, i, b) /\ v = NodeAt(ord, b)
               /\ i > 0 => d = IF b <= n THEN b - a ELSE IF i < level THEN n - a ELSE 0
  BY <1>1 DEF LinkValue
<1>3. b \in (a + 1) .. (n + 1) /\ b \in Int /\ b \in 0 .. (n + 1) /\ b > p
  BY <1>1, <1>2 DEF NextAt
<1>4. NextAt(M, n - 1, a - 1, i, b - 1)
  BY <1>1, <1>2, ClosedAbove
<1>5. NodeAt(new, b - 1) = NodeAt(ord, b)
  BY <1>3 DEF CloseCtx
<1>6. i > 0 => d = IF b - 1 <= n - 1 THEN (b - 1) - (a - 1) ELSE IF i < level THEN (n - 1) - (a - 1) ELSE 0
  BY <1>1, <1>2, <1>3
<1>7. LinkValue(M, new, level, a - 1, i, v, d)
  BY <1>1, <1>2, <1>4, <1>5, <1>6 DEF LinkValue
<1>8. ASSUME i \in DOMAIN upd, upd[i].node = NodeAt(ord, a) PROVE FALSE
  <2>1. PICK u : PrevAt(L, p, i, u)
    BY <1>8, CloseFacts
  <2>2. a = u /\ u < p
    BY <1>8, <2>1, UpdCut
  <2>3. QED
    BY <1>1, <2>2
<1>9. QED
  BY <1>7, <1>8

\* The pointers and spans after a deletion.
Forward3(z, x, upd) ==
    [n \in (Nodes(z) \ {x}) \cup {HEAD} |->
        [i \in DOMAIN z.forward[n] |->
            IF i \in {j \in DOMAIN upd : upd[j].node = n} /\ z.forward[n][i] = x
            THEN z.forward[x][i] ELSE z.forward[n][i]]]

Span3(z, x, upd) ==
    [n \in (Nodes(z) \ {x}) \cup {HEAD} |->
        [i \in DOMAIN z.span[n] |->
            IF i = 0 \/ i \notin {j \in DOMAIN upd : upd[j].node = n}
            THEN z.span[n][i]
            ELSE IF z.forward[n][i] = x
                 THEN z.span[n][i] + zslGetNodeSpanAtLevel(z, x, i) - 1
                 ELSE z.span[n][i] - 1]]

\* The columns f and g of a node y that stays.
CutColumn(z, x, upd, y, f, g) ==
    /\ DOMAIN f = DOMAIN z.forward[y] /\ DOMAIN g = DOMAIN z.span[y]
    /\ \A i \in DOMAIN z.forward[y] : i \in Nat =>
          /\ f[i] = IF i \in DOMAIN upd /\ upd[i].node = y /\ z.forward[y][i] = x
                    THEN z.forward[x][i] ELSE z.forward[y][i]
          /\ i > 0 => g[i] = IF ~(i \in DOMAIN upd /\ upd[i].node = y) THEN z.span[y][i]
                             ELSE IF z.forward[y][i] = x THEN z.span[y][i] + z.span[x][i] - 1
                                  ELSE z.span[y][i] - 1

\* UnlinkFrom gives such columns.
LEMMA CutValues ==
    ASSUME NEW z, NEW x, NEW upd, NEW y \in Nodes(z) \cup {HEAD}, y # x,
           DOMAIN z.forward[y] = DOMAIN z.span[y]
    PROVE  CutColumn(z, x, upd, y, Forward3(z, x, upd)[y], Span3(z, x, upd)[y])
<1> DEFINE G == Forward3(z, x, upd)[y]
           Q == Span3(z, x, upd)[y]
           D == DOMAIN z.forward[y]
<1>1. G = [i \in D |-> IF i \in {j \in DOMAIN upd : upd[j].node = y} /\ z.forward[y][i] = x
                       THEN z.forward[x][i] ELSE z.forward[y][i]]
  BY DEF Forward3
<1>2. Q = [i \in D |->
            IF i = 0 \/ i \notin {j \in DOMAIN upd : upd[j].node = y}
            THEN z.span[y][i]
            ELSE IF z.forward[y][i] = x
                 THEN z.span[y][i] + zslGetNodeSpanAtLevel(z, x, i) - 1
                 ELSE z.span[y][i] - 1]
  BY DEF Span3
<1> SUFFICES CutColumn(z, x, upd, y, G, Q)
  OBVIOUS
<1> HIDE DEF G, Q
<1>3. DOMAIN G = D /\ DOMAIN Q = DOMAIN z.span[y]
  BY <1>1, <1>2
<1>4. ASSUME NEW i \in D, i \in Nat
      PROVE  /\ G[i] = IF i \in DOMAIN upd /\ upd[i].node = y /\ z.forward[y][i] = x
                       THEN z.forward[x][i] ELSE z.forward[y][i]
             /\ i > 0 => Q[i] = IF ~(i \in DOMAIN upd /\ upd[i].node = y) THEN z.span[y][i]
                                ELSE IF z.forward[y][i] = x THEN z.span[y][i] + z.span[x][i] - 1
                                     ELSE z.span[y][i] - 1
  <2>1. i > 0 => zslGetNodeSpanAtLevel(z, x, i) = z.span[x][i] /\ i # 0
    BY <1>4 DEF zslGetNodeSpanAtLevel
  <2>2. i \in {j \in DOMAIN upd : upd[j].node = y} <=> i \in DOMAIN upd /\ upd[i].node = y
    OBVIOUS
  <2>3. G[i] = IF i \in DOMAIN upd /\ upd[i].node = y /\ z.forward[y][i] = x
               THEN z.forward[x][i] ELSE z.forward[y][i]
    BY <1>1, <2>2
  <2>4. Q[i] = IF i = 0 \/ ~(i \in DOMAIN upd /\ upd[i].node = y) THEN z.span[y][i]
               ELSE IF z.forward[y][i] = x THEN z.span[y][i] + zslGetNodeSpanAtLevel(z, x, i) - 1
                    ELSE z.span[y][i] - 1
    BY <1>2, <2>2
  <2>5. QED
    BY <2>1, <2>3, <2>4
<1>5. QED
  BY <1>3, <1>4 DEF CutColumn

\* The parts together.
LEMMA CloseCtxIs ==
    ASSUME NEW z, NEW ord, GoodList(z, ord), NEW p \in 1 .. Len(ord), NEW x, x = ord[p]
    PROVE  CloseCtx(HeightsOf(z.levels, ord), HeightsOf(LessOne(z.levels, x), DeletedAt(ord, p - 1)),
                    ord, DeletedAt(ord, p - 1), Len(ord), p, z.level, x, Path(z, z.score[x], x))
<1> DEFINE n == Len(ord)
           new == DeletedAt(ord, p - 1)
           L == HeightsOf(z.levels, ord)
           M == HeightsOf(LessOne(z.levels, x), new)
           upd == Path(z, z.score[x], x)
<1>1. /\ n \in Nat /\ HeightsUpTo(L, n) /\ z.level \in Nat \ {0} /\ OrderOf(ord, z.score)
      /\ \A c \in 1 .. n : L[c] \in 1 .. z.level
  BY HeightsAre
<1>2. Closed(M, L, n, p)
  BY HeightsClosed
<1>3. SpotIs(z, ord, z.score[x], x, p)
  BY <1>1, SpotOfNode
<1>4. UpdIs(upd, L, ord, p, z.level)
  <2> DEFINE s == z.score[x]
  <2> HIDE DEF s
  <2>1. SpotIs(z, ord, s, x, p)
    BY <1>3 DEF s
  <2>2. /\ DOMAIN Path(z, s, x) = 0 .. (z.level - 1)
        /\ \A i \in 0 .. (z.level - 1) : \E u : PrevAt(L, p, i, u) /\ Path(z, s, x)[i] = PosAt(ord, u)
    BY <2>1, PathIs
  <2>3. QED
    BY <2>2 DEF UpdIs, s
<1>5. /\ \A a, b \in 0 .. (n + 1) : NodeAt(ord, a) = NodeAt(ord, b) => a = b
      /\ NodeAt(ord, p) = x
  BY <1>1, NodesDiffer
<1>6. /\ Len(new) = n - 1
      /\ \A c \in 0 .. n : c < p => NodeAt(new, c) = NodeAt(ord, c)
      /\ \A c \in 0 .. (n + 1) : c > p => NodeAt(new, c - 1) = NodeAt(ord, c)
  <2>1. ord \in Seq(DOMAIN z.score)
    BY <1>1 DEF OrderOf
  <2>2. QED
    BY <2>1, NodesClosed
<1> HIDE DEF n, new, L, M, upd
<1>7. CloseCtx(L, M, ord, new, n, p, z.level, x, upd)
  BY <1>1, <1>2, <1>4, <1>5, <1>6 DEF CloseCtx, n
<1>8. QED
  BY <1>7 DEF n, new, L, M, upd

\* The columns after a deletion, before the empty levels are dropped.
LEMMA ColumnsClosed ==
    ASSUME NEW z, NEW ord, GoodList(z, ord), NEW M, NEW new, NEW p, NEW x, NEW upd,
           CloseCtx(HeightsOf(z.levels, ord), M, ord, new, Len(ord), p, z.level, x, upd)
    PROVE  \A c \in 0 .. (Len(ord) - 1) :
              ColumnAt(Forward3(z, x, upd), Span3(z, x, upd), M, new, z.level, c)
<1> DEFINE n == Len(ord)
           L == HeightsOf(z.levels, ord)
           F == Forward3(z, x, upd)
           P == Span3(z, x, upd)
           level == z.level
<1>1. n \in Nat /\ p \in 1 .. n /\ p \in Int /\ Closed(M, L, n, p) /\ p \in 0 .. (n + 1) /\ p \in 0 .. n
  BY CloseFacts
<1>2. ClosedFacts(M, L, n, p)
  BY <1>1, ClosedHeights
<1>3. NodeAt(ord, p) = x /\ \A a, b \in 0 .. (n + 1) : NodeAt(ord, a) = NodeAt(ord, b) => a = b
  BY DEF CloseCtx
<1>4. ASSUME NEW a \in 0 .. n, a # p, NEW c \in Int, c = IF a < p THEN a ELSE a - 1 PROVE ColumnAt(F, P, M, new, level, c)
  <2> DEFINE y == NodeAt(ord, a)
  <2>1. y \in Nodes(z) \cup {HEAD} /\ DOMAIN z.forward[y] = DOMAIN z.span[y]
        /\ DOMAIN z.forward[y] = 0 .. (TopOf(L, a) - 1)
    BY DomainOf DEF Nodes
  <2>0. y # x
    <3>1. a \in 0 .. (n + 1)
      BY <1>1
    <3>2. QED
      BY <1>1, <1>3, <1>4, <3>1
  <2>2. TopOf(M, c) = TopOf(L, a)
    <3>1. CASE a < p
      BY <1>1, <1>2, <1>4, <3>1 DEF TopOf, ClosedFacts
    <3>2. CASE ~(a < p)
      <4>1. a \in Int /\ p < a /\ a <= n /\ c = a - 1 /\ c # 0 /\ a # 0
        BY <1>1, <1>4, <3>2
      <4>2. M[a - 1] = L[a]
        BY <1>2, <4>1 DEF ClosedFacts
      <4>3. QED
        BY <4>1, <4>2 DEF TopOf
    <3>3. QED
      BY <3>1, <3>2
  <2>3. NodeAt(new, c) = y
    <3>1. a \in 0 .. (n + 1) /\ (a < p \/ a > p)
      BY <1>1, <1>4
    <3>2. QED
      BY <1>1, <1>4, <3>1 DEF CloseCtx
  <2>4. CutColumn(z, x, upd, y, F[y], P[y])
    <3> HIDE DEF y
    <3>1. QED
      BY <2>0, <2>1, CutValues
  <2>5. ASSUME NEW i \in 0 .. (TopOf(L, a) - 1) PROVE LinkValue(M, new, level, c, i, F[y][i], P[y][i])
    <3> DEFINE v == z.forward[y][i]
               d == z.span[y][i]
               v2 == z.forward[x][i]
               d2 == z.span[x][i]
               w == F[y][i]
               e == P[y][i]
    <3>1. LinkValue(L, ord, level, a, i, v, d) /\ i \in Nat /\ Reaches(L, a, i)
      BY LinkOf
    <3>2. i \in DOMAIN z.forward[y]
      BY <2>1
    <3>3. w = IF i \in DOMAIN upd /\ upd[i].node = NodeAt(ord, a) /\ v = x THEN v2 ELSE v
      BY <2>4, <3>1, <3>2 DEF CutColumn
    <3>4. i > 0 => e = IF ~(i \in DOMAIN upd /\ upd[i].node = NodeAt(ord, a)) THEN d
                       ELSE IF v = x THEN d + d2 - 1 ELSE d - 1
      BY <2>4, <3>1, <3>2 DEF CutColumn
    <3>5. i < L[p] => LinkValue(L, ord, level, p, i, v2, d2)
      <4>1. SUFFICES ASSUME i < L[p] PROVE LinkValue(L, ord, level, p, i, v2, d2)
        OBVIOUS
      <4>2. p # 0 /\ L[p] \in 1 .. level /\ level \in Nat
        BY <1>1, HeightsAre
      <4>3. i \in 0 .. (TopOf(L, p) - 1)
        BY <3>1, <4>1, <4>2 DEF TopOf
      <4>4. LinkValue(L, ord, level, p, i, z.forward[NodeAt(ord, p)][i], z.span[NodeAt(ord, p)][i])
        BY <1>1, <4>3, LinkOf
      <4>5. QED
        BY <1>3, <4>4
    <3>10. CutLink(upd, x, NodeAt(ord, a), i, v, d, v2, d2, w, e)
      BY <3>3, <3>4 DEF CutLink
    <3>9. CloseCtx(L, M, ord, new, n, p, level, x, upd) /\ a \in 0 .. n /\ i \in Nat /\ Reaches(L, a, i)
          /\ LinkValue(L, ord, level, a, i, v, d)
      BY <3>1
    <3> SUFFICES LinkValue(M, new, level, c, i, w, e)
      OBVIOUS
    <3> HIDE DEF v, d, v2, d2, w, e, F, P, L, n, level
    <3>6. CASE a < p
      <4>1. LinkValue(M, new, level, a, i, w, e)
        BY <3>9, <3>10, <3>5, <3>6, CutBelow
      <4>2. QED
        BY <1>4, <3>6, <4>1
    <3>7. CASE ~(a < p)
      <4>1. a > p /\ c = a - 1
        BY <1>1, <1>4, <3>7
      <4>2. /\ LinkValue(M, new, level, a - 1, i, v, d)
            /\ ~(i \in DOMAIN upd /\ upd[i].node = NodeAt(ord, a))
        BY <3>9, <4>1, CutAbove
      <4>3. w = v /\ (i > 0 => e = d)
        BY <3>3, <3>4, <4>2
      <4>4. QED
        BY <4>1, <4>2, <4>3 DEF LinkValue
    <3>8. QED
      BY <3>6, <3>7
  <2> HIDE DEF y, F, P, L, n, level
  <2>6. DOMAIN F[y] = 0 .. (TopOf(M, c) - 1) /\ DOMAIN P[y] = 0 .. (TopOf(M, c) - 1)
    BY <2>1, <2>2, <2>4 DEF CutColumn
  <2>7. \A i \in 0 .. (TopOf(M, c) - 1) : LinkValue(M, new, level, c, i, F[y][i], P[y][i])
    BY <2>2, <2>5
  <2>8. QED
    BY <2>3, <2>6, <2>7, ColumnFrom
<1>5. SUFFICES ASSUME NEW c \in 0 .. (n - 1) PROVE ColumnAt(F, P, M, new, level, c)
  OBVIOUS
<1> HIDE DEF F, P, L, n, level
<1>6. CASE c < p
  <2>1. c \in 0 .. n /\ c \in Int /\ c # p
    BY <1>1, <1>6
  <2>2. QED
    BY <1>4, <1>6, <2>1
<1>7. CASE c >= p
  <2>1. c + 1 \in 0 .. n /\ c \in Int /\ c = (c + 1) - 1 /\ ~(c + 1 < p) /\ c + 1 # p
    BY <1>1, <1>7
  <2>2. QED
    BY <1>4, <2>1
<1>8. QED
  BY <1>1, <1>6, <1>7

\* The previous nodes after a deletion.
Backward3(z, x, next) ==
    [n \in Nodes(z) \ {x} |-> IF n = next THEN z.backward[x] ELSE z.backward[n]]

\* The previous nodes after a deletion.
LEMMA BackClosed ==
    ASSUME NEW z, NEW ord, GoodList(z, ord), NEW p \in 1 .. Len(ord), NEW x, x = ord[p],
           NEW new, NEW score, DOMAIN score = DOMAIN z.score \ {x}, OrderOf(new, score),
           Len(new) = Len(ord) - 1,
           \A c \in 0 .. Len(ord) : c < p => NodeAt(new, c) = NodeAt(ord, c),
           \A c \in 0 .. (Len(ord) + 1) : c > p => NodeAt(new, c - 1) = NodeAt(ord, c)
    PROVE  BackIs(Backward3(z, x, NodeAt(ord, p + 1)), new)
<1> DEFINE n == Len(ord)
           B == z.backward
           G == Backward3(z, x, NodeAt(ord, p + 1))
           S == DOMAIN z.score
<1>1. OrderOf(ord, z.score) /\ BackIs(B, ord)
  BY DEF GoodList, GoodParts
<1>2. n \in Nat /\ p \in 1 .. n /\ p \in Int
  BY <1>1, OrderIs
<1>3. /\ \A a \in 1 .. n : NodeAt(ord, a) = ord[a] /\ ord[a] \in S
      /\ \A a, b \in 0 .. (n + 1) : NodeAt(ord, a) = NodeAt(ord, b) => a = b
      /\ NodeAt(ord, p) = x
  <2>1. \A a \in 1 .. n : ord[a] \in S
    BY <1>1, OrderIs
  <2>2. /\ \A a \in 1 .. n : NodeAt(ord, a) = ord[a]
        /\ \A a, b \in 0 .. (n + 1) : NodeAt(ord, a) = NodeAt(ord, b) => a = b
    BY <1>1, NodesDiffer
  <2>3. QED
    BY <2>1, <2>2
<1>4. \A a \in 1 .. (n - 1) : NodeAt(new, a) = new[a]
  BY NodesDiffer
<1>5. \A a \in 1 .. n : B[NodeAt(ord, a)] = IF a = 1 THEN NIL ELSE NodeAt(ord, a - 1)
  <2>1. \A a \in 1 .. n : B[ord[a]] = IF a = 1 THEN NIL ELSE ord[a - 1]
    BY <1>1 DEF BackIs
  <2> SUFFICES ASSUME NEW a \in 1 .. n PROVE B[NodeAt(ord, a)] = IF a = 1 THEN NIL ELSE NodeAt(ord, a - 1)
    OBVIOUS
  <2>2. a = 1 \/ a - 1 \in 1 .. n
    BY <1>2
  <2>3. NodeAt(ord, a) = ord[a] /\ (a # 1 => NodeAt(ord, a - 1) = ord[a - 1])
    BY <1>3, <2>2
  <2>4. QED
    BY <2>1, <2>3
<1>6. DOMAIN G = ToSet(new)
  BY DEF OrderOf, Backward3, Nodes
<1>7. \A y \in S : y # x => G[y] = IF y = NodeAt(ord, p + 1) THEN B[x] ELSE B[y]
  BY DEF Backward3, Nodes
<1> HIDE DEF G, B, n
<1>8. ASSUME NEW a \in 1 .. (n - 1) PROVE G[NodeAt(new, a)] = IF a = 1 THEN NIL ELSE NodeAt(new, a - 1)
  <2> DEFINE f == IF a < p THEN a ELSE a + 1
  <2>1. /\ f \in 1 .. n /\ f \in 0 .. (n + 1) /\ f # p /\ p \in 0 .. (n + 1) /\ p + 1 \in 0 .. (n + 1)
        /\ (a >= p => f = a + 1) /\ (a < p => f = a) /\ (f = p + 1 <=> a = p) /\ a \in Int
    BY <1>2
  <2>2. NodeAt(new, a) = NodeAt(ord, f)
    <3>1. CASE a < p
      <4>1. a \in 0 .. n
        BY <1>2
      <4>2. QED
        BY <2>1, <3>1, <4>1 DEF n
    <3>2. CASE ~(a < p)
      <4>1. a + 1 \in 0 .. (n + 1) /\ a + 1 > p /\ (a + 1) - 1 = a
        BY <1>2, <3>2
      <4>2. NodeAt(new, (a + 1) - 1) = NodeAt(ord, a + 1)
        BY <4>1 DEF n
      <4>3. QED
        BY <1>2, <2>1, <3>2, <4>1, <4>2
    <3>3. QED
      BY <3>1, <3>2
  <2> HIDE DEF f
  <2>3. NodeAt(ord, f) \in S /\ NodeAt(ord, f) # x /\ (NodeAt(ord, f) = NodeAt(ord, p + 1) <=> a = p)
    BY <1>3, <2>1
  <2>4. CASE a = p
    <3>1. G[NodeAt(new, a)] = B[NodeAt(ord, p)]
      BY <1>3, <1>7, <2>2, <2>3, <2>4
    <3>2. p - 1 \in 0 .. n /\ p - 1 < p
      BY <1>2
    <3>3. NodeAt(new, p - 1) = NodeAt(ord, p - 1)
      BY <3>2 DEF n
    <3>4. QED
      BY <1>2, <1>5, <2>4, <3>1, <3>3
  <2>5. CASE a # p
    <3>1. G[NodeAt(new, a)] = B[NodeAt(ord, f)]
      BY <1>7, <2>2, <2>3, <2>5
    <3>2. CASE a < p
      <4>1. a - 1 \in 0 .. n /\ a - 1 < p
        BY <1>2, <3>2
      <4>2. NodeAt(new, a - 1) = NodeAt(ord, a - 1)
        BY <4>1 DEF n
      <4>3. QED
        BY <1>5, <2>1, <3>1, <3>2, <4>2
    <3>3. CASE ~(a < p)
      <4>0. a > p /\ a >= p /\ a \in 0 .. (n + 1) /\ a # 1
        BY <1>2, <2>5, <3>3
      <4>1. f = a + 1 /\ a > p /\ a \in 0 .. (n + 1) /\ a # 1 /\ f # 1 /\ f - 1 = a
        BY <2>1, <4>0
      <4>2. NodeAt(new, a - 1) = NodeAt(ord, a)
        BY <4>1 DEF n
      <4>3. QED
        BY <1>5, <2>1, <3>1, <4>1, <4>2
    <3>4. QED
      BY <3>2, <3>3
  <2>6. QED
    BY <2>4, <2>5
<1>9. Len(new) = n - 1
  BY DEF n
<1>10. ASSUME NEW a \in 1 .. (n - 1) PROVE G[new[a]] = IF a = 1 THEN NIL ELSE new[a - 1]
  <2>1. a = 1 \/ a - 1 \in 1 .. (n - 1)
    BY <1>2
  <2>2. NodeAt(new, a) = new[a] /\ (a # 1 => NodeAt(new, a - 1) = new[a - 1])
    BY <1>4, <2>1
  <2>3. QED
    BY <1>8, <2>2
<1>11. BackIs(G, new)
  BY <1>6, <1>9, <1>10 DEF BackIs
<1>12. QED
  BY <1>11 DEF G

\* What UsedLevels finds: the height of the highest node.
HighestIs(k, M, m, K) ==
    /\ k \in 1 .. K /\ \A c \in 1 .. m : M[c] <= k
    /\ k = 1 \/ \E c \in 1 .. m : M[c] = k

\* UsedLevels finds the highest level in use.
LEMMA UsedIs ==
    ASSUME NEW w, NEW M, NEW new, NEW m \in Nat, m = Len(new), HeightsUpTo(M, m),
           NEW K \in 1 .. ZSKIPLIST_MAXLEVEL, w.level = K, \A c \in 1 .. m : M[c] \in 1 .. K,
           NEW score, OrderOf(new, score), ColumnAt(w.forward, w.span, M, new, K, 0)
    PROVE  HighestIs(UsedLevels(w), M, m, K)
<1> DEFINE J == {j \in 1 .. (K - 1) : w.forward[HEAD][j] # NIL}
           U == {1} \cup {i + 1 : i \in J}
           k == UsedLevels(w)
<1>1. ZSKIPLIST_MAXLEVEL \in Nat /\ K \in Nat \ {0} /\ K <= ZSKIPLIST_MAXLEVEL
  BY SkiplistAssumption
<1>2. k = Max(U)
  BY DEF UsedLevels
<1>3. U \in SUBSET (0 .. K) /\ U # {} /\ 1 \in U
  BY <1>1
<1>4. k \in U /\ \A y \in U : k >= y
  <2> HIDE DEF U, k
  <2>1. QED
    BY <1>1, <1>2, <1>3, MaxExists
<1>5. /\ \A a \in 0 .. m : NodeAt(new, a) # NIL
      /\ NodeAt(new, m + 1) = NIL /\ NodeAt(new, 0) = HEAD
  BY NodesDiffer
<1>6. ASSUME NEW j \in 1 .. (K - 1) PROVE w.forward[HEAD][j] # NIL <=> \E c \in 1 .. m : M[c] > j
  <2>1. j \in 0 .. (TopOf(M, 0) - 1)
    BY <1>1 DEF TopOf
  <2>2. LinksAt(w.forward, w.span, M, new, K, 0, j)
    BY <2>1 DEF ColumnAt
  <2>3. PICK b : NextAt(M, m, 0, j, b) /\ w.forward[HEAD][j] = NodeAt(new, b)
    BY <1>5, <2>2 DEF LinksAt
  <2>4. b \in 1 .. (m + 1) /\ (b <= m => M[b] > j) /\ \A c \in 1 .. (b - 1) : M[c] <= j
    BY <2>3 DEF NextAt
  <2>5. CASE b <= m
    <3>1. b \in 1 .. m /\ b \in 0 .. m
      BY <2>4, <2>5
    <3>2. QED
      BY <1>5, <2>3, <2>4, <2>5, <3>1
  <2>6. CASE ~(b <= m)
    <3>1. b = m + 1 /\ b - 1 = m
      BY <2>4, <2>6
    <3>2. \A c \in 1 .. m : M[c] <= j /\ M[c] \in Int
      BY <1>1, <2>4, <3>1
    <3>3. QED
      BY <1>5, <2>3, <3>1, <3>2
  <2>7. QED
    BY <2>5, <2>6
<1>7. ASSUME NEW c \in 1 .. m PROVE M[c] <= k
  <2>1. M[c] \in 1 .. K /\ k \in Int
    BY <1>1, <1>3, <1>4
  <2>2. CASE M[c] = 1
    BY <1>3, <1>4, <2>2
  <2>3. CASE M[c] # 1
    <3> DEFINE j == M[c] - 1
    <3>1. j \in 1 .. (K - 1) /\ M[c] > j /\ j + 1 = M[c]
      BY <1>1, <2>1, <2>3
    <3> HIDE DEF j
    <3>2. j \in J
      BY <1>6, <3>1
    <3>3. M[c] \in U
      BY <3>1, <3>2
    <3>4. QED
      BY <1>4, <2>1, <3>3
  <2>4. QED
    BY <2>2, <2>3
<1>8. k \in 1 .. K
  BY <1>1, <1>4
<1>9. k = 1 \/ \E c \in 1 .. m : M[c] = k
  <2>1. SUFFICES ASSUME k # 1 PROVE \E c \in 1 .. m : M[c] = k
    OBVIOUS
  <2>2. PICK j \in J : k = j + 1
    BY <1>4, <2>1
  <2>3. PICK c \in 1 .. m : M[c] > j
    BY <1>6
  <2> HIDE DEF k
  <2>4. M[c] <= k /\ M[c] \in Int /\ j \in Int
    BY <1>1, <1>7
  <2>5. M[c] = k
    BY <2>2, <2>3, <2>4
  <2>6. QED
    BY <2>5
<1>10. QED
  BY <1>7, <1>8, <1>9 DEF HighestIs

\* The spans when the levels from k on are dropped.
Dropped(P, k, K) ==
    [P EXCEPT ![HEAD] = [i \in DOMAIN P[HEAD] |-> IF k <= i /\ i < K THEN 0 ELSE P[HEAD][i]]]

\* The columns after the empty levels were dropped.
LEMMA ColumnsTrimmed ==
    ASSUME NEW F, NEW P, NEW M, NEW new, NEW m \in Nat, m = Len(new), HeightsUpTo(M, m),
           NEW K \in Nat, NEW k, HighestIs(k, M, m, K), NEW score, OrderOf(new, score),
           DOMAIN P = DOMAIN score \cup {HEAD},
           \A c \in 0 .. m : ColumnAt(F, P, M, new, K, c)
    PROVE  \A c \in 0 .. m : ColumnAt(F, Dropped(P, k, K), M, new, k, c)
<1> DEFINE Q == Dropped(P, k, K)
<1>1. k \in 1 .. K /\ k \in Nat /\ k <= K /\ \A c \in 1 .. m : M[c] <= k /\ M[c] \in Nat
  BY DEF HighestIs, HeightsUpTo
<1>2. /\ \A a \in 0 .. m : NodeAt(new, a) \in DOMAIN P
      /\ NodeAt(new, 0) = HEAD /\ \A a \in 1 .. m : NodeAt(new, a) # HEAD
  BY NodesDiffer
<1>3. /\ Q[HEAD] = [i \in DOMAIN P[HEAD] |-> IF k <= i /\ i < K THEN 0 ELSE P[HEAD][i]]
      /\ \A y \in DOMAIN P : y # HEAD => Q[y] = P[y]
  BY DEF Dropped
<1> SUFFICES ASSUME NEW a \in 0 .. m PROVE ColumnAt(F, Q, M, new, k, a)
  OBVIOUS
<1> HIDE DEF Q
<1> DEFINE y == NodeAt(new, a)
           T == TopOf(M, a)
<1>4. DOMAIN F[y] = 0 .. (T - 1) /\ DOMAIN P[y] = 0 .. (T - 1)
  BY DEF ColumnAt
<1>5. DOMAIN Q[y] = DOMAIN P[y]
  BY <1>2, <1>3
<1>6. ASSUME NEW i \in 0 .. (T - 1) PROVE LinkValue(M, new, k, a, i, F[y][i], Q[y][i])
  <2> DEFINE v == F[y][i]
             d == P[y][i]
             e == Q[y][i]
  <2>1. LinkValue(M, new, K, a, i, v, d)
    <3>1. LinksAt(F, P, M, new, K, a, i)
      BY DEF ColumnAt
    <3>2. QED
      BY <3>1, LinkValueIs
  <2>2. PICK b : /\ NextAt(M, m, a, i, b) /\ v = NodeAt(new, b)
                 /\ i > 0 => d = IF b <= m THEN b - a ELSE IF i < K THEN m - a ELSE 0
    BY <2>1 DEF LinkValue
  <2>3. e = IF a = 0 /\ k <= i /\ i < K THEN 0 ELSE d
    <3>1. CASE a = 0
      BY <1>2, <1>3, <1>4, <3>1
    <3>2. CASE a # 0
      <4>1. y \in DOMAIN P /\ y # HEAD
        BY <1>2, <3>2
      <4>2. QED
        BY <1>3, <3>2, <4>1
    <3>3. QED
      BY <3>1, <3>2
  <2>4. i \in Int /\ b \in Int /\ b <= m + 1 /\ b > a
    BY <2>2 DEF NextAt
  <2>5. a # 0 => i < k
    <3>1. SUFFICES ASSUME a # 0 PROVE i < k
      OBVIOUS
    <3>2. a \in 1 .. m /\ T = M[a]
      BY <3>1 DEF TopOf
    <3>3. QED
      BY <1>1, <3>2
  <2>6. b <= m => i < k
    <3>1. SUFFICES ASSUME b <= m PROVE i < k
      OBVIOUS
    <3>2. b \in 1 .. m /\ M[b] > i
      BY <2>2, <2>4, <3>1 DEF NextAt
    <3>3. QED
      BY <1>1, <2>4, <3>2
  <2> HIDE DEF v, d, e
  <2>7. i > 0 => e = IF b <= m THEN b - a ELSE IF i < k THEN m - a ELSE 0
    BY <1>1, <2>2, <2>3, <2>4, <2>5, <2>6
  <2>8. LinkValue(M, new, k, a, i, v, e)
    BY <2>2, <2>7 DEF LinkValue
  <2>9. QED
    BY <2>8 DEF v, e
<1> HIDE DEF y, T
<1>7. NodeAt(new, a) = y /\ T = TopOf(M, a)
  BY DEF y, T
<1>8. QED
  BY <1>4, <1>5, <1>6, <1>7, ColumnFrom

\* The record of a list after its empty levels are dropped.
LEMMA DropIs ==
    ASSUME NEW w, NEW K, NEW ln, NEW ta, NEW as, NEW sc, NEW ls, NEW ba, NEW fo, NEW sp,
           ListIs(w, K, ln, ta, as, sc, ls, ba, fo, sp), NEW k, HEAD \in DOMAIN sp
    PROVE  ListIs(DropLevels(w, k), k, ln, ta, as, sc, ls, ba, fo, Dropped(sp, k, K))
<1> DEFINE q == [i \in DOMAIN w.span[HEAD] |-> IF k <= i /\ i < w.level THEN 0 ELSE w.span[HEAD][i]]
           t == [w.span EXCEPT ![HEAD] = q]
           y == [w EXCEPT !.level = k, !.span = t]
<1>1. ZRecord(w) /\ w.level = K /\ w.length = ln /\ w.tail = ta /\ w.asserts = as
      /\ w.score = sc /\ w.levels = ls /\ w.backward = ba /\ w.forward = fo /\ w.span = sp
  BY DEF ListIs
<1>2. DropLevels(w, k) = y
  BY <1>1 DEF DropLevels, ZRecord, ZFields
<1>3. t = Dropped(sp, k, K)
  BY <1>1 DEF Dropped
<1> HIDE DEF t
<1>4. ListIs(y, k, ln, ta, as, sc, ls, ba, fo, t)
  BY <1>1 DEF ListIs, ZRecord, ZFields
<1>5. QED
  BY <1>2, <1>3, <1>4

\* The record of a list after a node was unlinked.
LEMMA UnlinkFromIs ==
    ASSUME NEW z, ZRecord(z), NEW x, NEW upd, NEW next, DOMAIN z.levels = DOMAIN z.score
    PROVE  ListIs(UnlinkFrom(z, x, upd, next), z.level, z.length - 1,
                  IF next = NIL THEN z.backward[x] ELSE z.tail, z.asserts,
                  LessOne(z.score, x), LessOne(z.levels, x), Backward3(z, x, next),
                  Forward3(z, x, upd), Span3(z, x, upd))
<1> DEFINE rest == Nodes(z) \ {x}
           ln == z.length - 1
           ta == IF next = NIL THEN z.backward[x] ELSE z.tail
           sc == [n \in rest |-> z.score[n]]
           ls == [n \in rest |-> z.levels[n]]
           ba == [n \in rest |-> IF n = next THEN z.backward[x] ELSE z.backward[n]]
           fo == [n \in rest \cup {HEAD} |->
                [i \in DOMAIN z.forward[n] |->
                    IF i \in {j \in DOMAIN upd : upd[j].node = n} /\ z.forward[n][i] = x
                    THEN z.forward[x][i] ELSE z.forward[n][i]]]
           sp == [n \in rest \cup {HEAD} |->
                [i \in DOMAIN z.span[n] |->
                    IF i = 0 \/ i \notin {j \in DOMAIN upd : upd[j].node = n}
                    THEN z.span[n][i]
                    ELSE IF z.forward[n][i] = x
                         THEN z.span[n][i] + zslGetNodeSpanAtLevel(z, x, i) - 1
                         ELSE z.span[n][i] - 1]]
           y == [z EXCEPT !.length = ln, !.tail = ta, !.score = sc, !.levels = ls,
                          !.backward = ba, !.forward = fo, !.span = sp]
<1>1. UnlinkFrom(z, x, upd, next) = y
  BY DEF UnlinkFrom
<1>2. sc = LessOne(z.score, x) /\ ls = LessOne(z.levels, x) /\ ba = Backward3(z, x, next)
  BY DEF LessOne, Nodes, Backward3
<1>3. fo = Forward3(z, x, upd) /\ sp = Span3(z, x, upd)
  BY DEF Forward3, Span3
<1> HIDE DEF ln, ta, sc, ls, ba, fo, sp
<1>4. ListIs(y, z.level, ln, ta, z.asserts, sc, ls, ba, fo, sp)
  BY DEF ListIs, ZRecord, ZFields
<1>5. QED
  BY <1>1, <1>2, <1>3, <1>4 DEF ln, ta

DeletedWell(z, x, y, new) ==
    GoodList(y, new) /\ y.score = LessOne(z.score, x) /\ y.levels = LessOne(z.levels, x)

\* The level of the list, by its nodes.
LEMMA LevelClosed ==
    ASSUME NEW W, NEW new, NEW score, OrderOf(new, score), DOMAIN W = DOMAIN score, NEW m \in Nat, m = Len(new),
           NEW K \in Levels, NEW k, HighestIs(k, HeightsOf(W, new), m, K)
    PROVE  LevelIs(k, W)
<1> DEFINE M == HeightsOf(W, new)
<1>1. \A c \in 1 .. m : M[c] = W[new[c]]
  BY DEF HeightsOf
<1>2. /\ \A y \in DOMAIN W : \E c \in 1 .. m : new[c] = y
      /\ \A c \in 1 .. m : new[c] \in DOMAIN W
  BY OrderIs
<1>3. k \in 1 .. K /\ (\A c \in 1 .. m : M[c] <= k) /\ (k = 1 \/ \E c \in 1 .. m : M[c] = k)
  BY DEF HighestIs
<1> HIDE DEF M
<1>4. k \in Levels
  BY <1>3, SkiplistAssumption DEF Levels
<1>5. \A y \in DOMAIN W : W[y] <= k
  BY <1>1, <1>2, <1>3
<1>6. k = 1 \/ \E y \in DOMAIN W : W[y] = k
  BY <1>1, <1>2, <1>3
<1>7. QED
  BY <1>4, <1>5, <1>6 DEF LevelIs

\* The parts of a list after a deletion.
LEMMA DeleteParts ==
    ASSUME NEW z, NEW ord, GoodList(z, ord), NEW p \in 1 .. Len(ord), NEW x, x = ord[p],
           NEW upd, upd = Path(z, z.score[x], x), NEW next, next = NodeAt(ord, p + 1), NEW w,
           ListIs(w, z.level, z.length - 1, IF next = NIL THEN z.backward[x] ELSE z.tail, z.asserts,
                  LessOne(z.score, x), LessOne(z.levels, x), Backward3(z, x, next),
                  Forward3(z, x, upd), Span3(z, x, upd))
    PROVE  /\ upd[0].node = NodeAt(ord, p - 1) /\ HEAD \in DOMAIN Span3(z, x, upd)
           /\ GoodParts(UsedLevels(w), z.length - 1, IF next = NIL THEN z.backward[x] ELSE z.tail,
                        LessOne(z.score, x), LessOne(z.levels, x), Backward3(z, x, next),
                        Forward3(z, x, upd), Dropped(Span3(z, x, upd), UsedLevels(w), z.level),
                        DeletedAt(ord, p - 1))
<1> DEFINE n == Len(ord)
           new == DeletedAt(ord, p - 1)
           L == HeightsOf(z.levels, ord)
           W == LessOne(z.levels, x)
           M == HeightsOf(W, new)
           sc == LessOne(z.score, x)
           K == z.level
           k == UsedLevels(w)
           ba == Backward3(z, x, next)
           fo == Forward3(z, x, upd)
           sp == Span3(z, x, upd)
           ta == IF next = NIL THEN z.backward[x] ELSE z.tail
           m == n - 1
<1>1. CloseCtx(L, M, ord, new, n, p, K, x, upd)
  BY CloseCtxIs
<1>2. /\ n \in Nat /\ n = z.length /\ p \in 1 .. n /\ p \in Int /\ OrderOf(ord, z.score)
      /\ K \in 1 .. ZSKIPLIST_MAXLEVEL /\ K \in Nat
      /\ \A c \in 1 .. n : L[c] \in 1 .. K
  BY HeightsAre
<1>3. upd[0].node = NodeAt(ord, p - 1)
  <2> HIDE DEF L, M, new, n
  <2>1. QED
    BY <1>1, UpdCutZero
<1>4. OrderOf(new, sc)
  BY <1>2, OrderClosed
<1>5. /\ Len(new) = m /\ Closed(M, L, n, p)
      /\ \A c \in 0 .. n : c < p => NodeAt(new, c) = NodeAt(ord, c)
      /\ \A c \in 0 .. (n + 1) : c > p => NodeAt(new, c - 1) = NodeAt(ord, c)
  BY <1>1 DEF CloseCtx
<1>6. DOMAIN sc = DOMAIN z.score \ {x} /\ m \in Nat
  BY <1>2 DEF LessOne
<1>7. BackIs(ba, new)
  <2> HIDE DEF new, sc, ba, m
  <2>0. Len(new) = Len(ord) - 1
    BY <1>5 DEF m
  <2>1. BackIs(Backward3(z, x, NodeAt(ord, p + 1)), new)
    BY <1>2, <1>4, <1>5, <1>6, <2>0, BackClosed
  <2>2. QED
    BY <2>1 DEF ba
<1>8. /\ DOMAIN z.levels = DOMAIN z.score /\ z.levels \in [DOMAIN z.levels -> Levels]
      /\ z.tail = (IF n = 0 THEN NIL ELSE ord[n]) /\ BackIs(z.backward, ord)
  BY DEF GoodList, GoodParts
<1>9. W \in [DOMAIN sc -> Levels] /\ DOMAIN W = DOMAIN sc
  BY <1>6, <1>8 DEF LessOne
<1>10. DOMAIN fo = DOMAIN sc \cup {HEAD} /\ DOMAIN sp = DOMAIN sc \cup {HEAD}
  BY <1>6 DEF Forward3, Span3, Nodes
<1>11. \A c \in 0 .. m : ColumnAt(fo, sp, M, new, K, c)
  <2> HIDE DEF M, new
  <2>1. QED
    BY <1>1, ColumnsClosed
<1>12. HeightsUpTo(M, m) /\ \A c \in 1 .. m : M[c] \in 1 .. K
  <2> HIDE DEF M, new, L
  <2>1. HeightsUpTo(M, n - 1) /\ ClosedFacts(M, L, n, p)
    BY <1>2, <1>5, ClosedHeights
  <2>2. M = [c \in 1 .. (n - 1) |-> IF c < p THEN L[c] ELSE L[c + 1]]
    BY <1>5 DEF Closed
  <2>3. ASSUME NEW c \in 1 .. m PROVE M[c] \in 1 .. K
    <3>1. c \in 1 .. n /\ c + 1 \in 1 .. n /\ c \in 1 .. (n - 1)
      BY <1>2
    <3>2. QED
      BY <1>2, <2>2, <3>1
  <2>4. QED
    BY <2>1, <2>3
<1>13. w.level = K /\ w.forward = fo /\ w.span = sp
  BY DEF ListIs
<1>14. ta = (IF m = 0 THEN NIL ELSE new[m])
  <2>1. /\ \A c \in 0 .. n : NodeAt(ord, c) # NIL
        /\ NodeAt(ord, n + 1) = NIL /\ \A a \in 1 .. n : NodeAt(ord, a) = ord[a]
    BY <1>2, NodesDiffer
  <2>2. \A a \in 1 .. m : NodeAt(new, a) = new[a]
    BY <1>4, <1>5, NodesDiffer
  <2>3. z.backward[x] = IF p = 1 THEN NIL ELSE ord[p - 1]
    BY <1>2, <1>8 DEF BackIs
  <2> HIDE DEF new, n, ta
  <2>4. CASE p = n
    <3>1. ta = z.backward[x]
      BY <2>1, <2>4 DEF ta
    <3>2. p - 1 = m /\ (p = 1 <=> m = 0)
      BY <1>2, <2>4
    <3>3. m # 0 => new[m] = ord[m]
      <4>1. SUFFICES ASSUME m # 0 PROVE new[m] = ord[m]
        OBVIOUS
      <4>2. m \in 1 .. m /\ m \in 1 .. n /\ m \in 0 .. n /\ m < p
        BY <1>2, <2>4, <4>1
      <4>3. QED
        BY <1>5, <2>1, <2>2, <4>2
    <3>4. QED
      BY <2>3, <3>1, <3>2, <3>3
  <2>5. CASE p # n
    <3>1. n \in 0 .. (n + 1) /\ n > p /\ n \in 1 .. n /\ p + 1 \in 0 .. n /\ n # 0 /\ m # 0 /\ m \in 1 .. m
      BY <1>2, <2>5
    <3>2. next # NIL /\ ta = ord[n]
      BY <1>8, <2>1, <3>1 DEF ta
    <3>3. NodeAt(new, n - 1) = NodeAt(ord, n) /\ NodeAt(ord, n) = ord[n]
      BY <1>5, <2>1, <3>1
    <3>4. QED
      BY <2>2, <3>1, <3>2, <3>3
  <2>6. QED
    BY <2>4, <2>5
<1>15. 0 \in 0 .. m
  BY <1>6
<1> HIDE DEF new, W, M, sc, K, k, ba, fo, sp, ta, n, m
<1>16. HighestIs(k, M, m, K)
  <2>1. ColumnAt(w.forward, w.span, M, new, K, 0)
    BY <1>11, <1>13, <1>15
  <2>2. m = Len(new) /\ K \in 1 .. ZSKIPLIST_MAXLEVEL
    BY <1>2, <1>5
  <2>3. HighestIs(UsedLevels(w), M, m, K)
    BY <1>4, <1>6, <1>12, <1>13, <2>1, <2>2, UsedIs
  <2>4. QED
    BY <2>3 DEF k
<1>17. \A c \in 0 .. m : ColumnAt(fo, Dropped(sp, k, K), M, new, k, c)
  <2>1. m = Len(new)
    BY <1>5
  <2>2. QED
    BY <1>2, <1>4, <1>6, <1>10, <1>11, <1>12, <1>16, <2>1, ColumnsTrimmed
<1>18. LevelIs(k, W)
  <2>1. K \in Levels /\ m = Len(new)
    BY <1>2, <1>5 DEF Levels
  <2>2. HighestIs(k, HeightsOf(W, new), m, K)
    BY <1>16 DEF M
  <2>3. QED
    BY <1>4, <1>6, <1>9, <2>1, <2>2, LevelClosed
<1>19. DOMAIN Dropped(sp, k, K) = DOMAIN sp
  BY DEF Dropped
<1>20. \A c \in 0 .. Len(new) : ColumnAt(fo, Dropped(sp, k, K), HeightsOf(W, new), new, k, c)
  BY <1>5, <1>17 DEF M
<1>21. ta = (IF Len(new) = 0 THEN NIL ELSE new[Len(new)]) /\ z.length - 1 = Len(new)
  BY <1>2, <1>5, <1>14 DEF m
<1>22. GoodParts(k, z.length - 1, ta, sc, W, ba, fo, Dropped(sp, k, K), new)
  BY <1>4, <1>7, <1>9, <1>10, <1>18, <1>19, <1>20, <1>21 DEF GoodParts
<1>23. HEAD \in DOMAIN sp
  BY <1>10
<1>24. QED
  BY <1>3, <1>22, <1>23 DEF new, W, sc, k, K, ba, fo, sp, ta

\* zslDelete takes x out, with every pointer, span and counter right.
LEMMA DeleteIs ==
    ASSUME NEW z, NEW ord, GoodList(z, ord), NEW x \in DOMAIN z.score
    PROVE  \E new : DeletedWell(z, x, zslDelete(z, x), new)
<1> DEFINE upd == Path(z, z.score[x], x)
           y == zslDelete(z, x)
<1>1. OrderOf(ord, z.score) /\ ZRecord(z) /\ DOMAIN z.levels = DOMAIN z.score /\ z.asserts = TRUE
  BY DEF GoodList, GoodParts
<1>2. PICK p \in 1 .. Len(ord) : ord[p] = x
  BY <1>1, OrderIs
<1> DEFINE next == NodeAt(ord, p + 1)
           w == UnlinkFrom(z, x, upd, next)
           ta == IF next = NIL THEN z.backward[x] ELSE z.tail
           sc == LessOne(z.score, x)
           W == LessOne(z.levels, x)
           ba == Backward3(z, x, next)
           fo == Forward3(z, x, upd)
           sp == Span3(z, x, upd)
           ln == z.length - 1
           k == UsedLevels(w)
           K == z.level
           new == DeletedAt(ord, p - 1)
<1>3. ListIs(w, K, ln, ta, z.asserts, sc, W, ba, fo, sp)
  <2> HIDE DEF upd, next
  <2>1. QED
    BY <1>1, UnlinkFromIs
<1>4. /\ upd[0].node = NodeAt(ord, p - 1) /\ HEAD \in DOMAIN sp
      /\ GoodParts(k, ln, ta, sc, W, ba, fo, Dropped(sp, k, K), new)
  <2> HIDE DEF w
  <2>1. QED
    BY <1>2, <1>3, DeleteParts
<1>5. Len(ord) \in Nat /\ p \in Int /\ p \in 1 .. (Len(ord) + 1) /\ p + 1 \in 1 .. (Len(ord) + 1) /\ (p + 1) - 1 = p
  <2>1. Len(ord) \in Nat
    BY <1>1, OrderIs
  <2>2. QED
    BY <2>1
<1>6. NodeAt(ord, p) = x
  BY <1>1, <1>2, NodesDiffer
<1>7. z.forward[upd[0].node][0] = x
  BY <1>4, <1>5, <1>6, NextNode
<1>8. z.forward[x][0] = next
  <2> DEFINE q == p + 1
  <2>1. q \in 1 .. (Len(ord) + 1) /\ q - 1 = p
    BY <1>5
  <2> HIDE DEF q
  <2>2. z.forward[NodeAt(ord, q - 1)][0] = NodeAt(ord, q)
    BY <2>1, NextNode
  <2>3. QED
    BY <1>6, <2>1, <2>2 DEF q
<1>9. y = DropLevels(w, k)
  BY <1>7, <1>8 DEF zslDelete, DeleteBehind, zslUnlinkNode, TrimLevels
<1> HIDE DEF w, k, K, ln, ta, sc, W, ba, fo, sp, new, y, next, upd
<1>10. ListIs(w, K, ln, ta, TRUE, sc, W, ba, fo, sp)
  BY <1>1, <1>3 DEF ListIs
<1>11. ListIs(DropLevels(w, k), k, ln, ta, TRUE, sc, W, ba, fo, Dropped(sp, k, K))
  <2> DEFINE t == TRUE
  <2>1. ListIs(w, K, ln, ta, t, sc, W, ba, fo, sp)
    BY <1>10
  <2> HIDE DEF t
  <2>2. ListIs(DropLevels(w, k), k, ln, ta, t, sc, W, ba, fo, Dropped(sp, k, K))
    BY <1>4, <2>1, DropIs
  <2>3. QED
    BY <2>2 DEF t
<1>12. GoodList(y, new) /\ y.score = sc /\ y.levels = W
  BY <1>4, <1>9, <1>11 DEF ListIs, GoodList
<1>13. DeletedWell(z, x, y, new)
  BY <1>12 DEF DeletedWell, sc, W
<1>14. QED
  BY <1>13 DEF y

-----------------------------------------------------------------------------
(* Creation and a new score. *)

\* The empty list is sound.
LEMMA CreateIs == GoodList(zslCreate, <<>>) /\ DOMAIN zslCreate.score = {} /\ zslCreate.asserts = TRUE
<1> DEFINE z == zslCreate
           e == [x \in {} |-> 0]
           ls == [x \in {} |-> 1]
           ba == [x \in {} |-> NIL]
           fo == [x \in {HEAD} |-> Each(NIL)]
           sp == [x \in {HEAD} |-> Each(0)]
<1>1. z = [level |-> 1, length |-> 0, tail |-> NIL, asserts |-> TRUE, score |-> e, levels |-> ls,
           backward |-> ba, forward |-> fo, span |-> sp]
  BY DEF zslCreate
<1>2. /\ DOMAIN e = {} /\ DOMAIN ls = {} /\ DOMAIN ba = {} /\ DOMAIN fo = {HEAD} /\ DOMAIN sp = {HEAD}
      /\ fo[HEAD] = Each(NIL) /\ sp[HEAD] = Each(0)
      /\ e \in [{} -> Int] /\ ls \in [{} -> Levels]
  OBVIOUS
<1>3. /\ DOMAIN Each(NIL) = 0 .. (ZSKIPLIST_MAXLEVEL - 1) /\ DOMAIN Each(0) = 0 .. (ZSKIPLIST_MAXLEVEL - 1)
      /\ \A i \in 0 .. (ZSKIPLIST_MAXLEVEL - 1) : Each(NIL)[i] = NIL /\ Each(0)[i] = 0
  BY DEF Each
<1>4. <<>> \in Seq({}) /\ Len(<<>>) = 0 /\ ToSet(<<>>) = {}
  BY DEF ToSet
<1> HIDE DEF e, ls, ba, fo, sp, z
<1>5. OrderOf(<<>>, e)
  BY <1>2, <1>4 DEF OrderOf
<1>6. LevelIs(1, ls)
  BY <1>2, SkiplistAssumption DEF LevelIs, Levels
<1>7. BackIs(ba, <<>>)
  BY <1>2, <1>4 DEF BackIs
<1>8. ColumnAt(fo, sp, HeightsOf(ls, <<>>), <<>>, 1, 0)
  <2> DEFINE L == HeightsOf(ls, <<>>)
  <2> HIDE DEF L
  <2>1. NodeAt(<<>>, 0) = HEAD /\ TopOf(L, 0) = ZSKIPLIST_MAXLEVEL /\ NodeAt(<<>>, 1) = NIL
    BY <1>4 DEF NodeAt, TopOf
  <2>2. ASSUME NEW i \in 0 .. (ZSKIPLIST_MAXLEVEL - 1) PROVE LinksAt(fo, sp, L, <<>>, 1, 0, i)
    <3>1. NextAt(L, Len(<<>>), 0, i, 1)
      BY <1>4 DEF NextAt
    <3>2. fo[NodeAt(<<>>, 0)][i] = NodeAt(<<>>, 1) /\ sp[NodeAt(<<>>, 0)][i] = 0
      BY <1>2, <1>3, <2>1
    <3>3. i > 0 => ~(i < 1)
      OBVIOUS
    <3>4. QED
      BY <1>4, <3>1, <3>2, <3>3 DEF LinksAt
  <2>3. ColumnAt(fo, sp, L, <<>>, 1, 0)
    BY <1>2, <1>3, <2>1, <2>2 DEF ColumnAt
  <2>4. QED
    BY <2>3 DEF L
<1>9. GoodParts(1, 0, NIL, e, ls, ba, fo, sp, <<>>)
  <2>1. \A a \in 0 .. Len(<<>>) : ColumnAt(fo, sp, HeightsOf(ls, <<>>), <<>>, 1, a)
    BY <1>4, <1>8
  <2>2. QED
    BY <1>2, <1>4, <1>5, <1>6, <1>7, <2>1 DEF GoodParts
<1>10. ZRecord(z)
  BY <1>1 DEF ZRecord, ZFields
<1>11. GoodList(z, <<>>)
  BY <1>1, <1>9, <1>10 DEF GoodList
<1>12. QED
  BY <1>1, <1>2, <1>11 DEF z

\* A new score that keeps a node between its neighbours.
LEMMA OrderInPlace ==
    ASSUME NEW z, NEW ord, GoodList(z, ord), NEW x \in DOMAIN z.score, NEW s \in Int, InPlace(z, x, s)
    PROVE  OrderOf(ord, With(z.score, x, s)) /\ With(z.score, x, s) = [z.score EXCEPT ![x] = s]
<1> DEFINE n == Len(ord)
           sc == z.score
           w == With(sc, x, s)
<1>1. OrderOf(ord, sc) /\ BackIs(z.backward, ord)
  BY DEF GoodList, GoodParts
<1>2. /\ n \in Nat /\ \A a \in 1 .. n : ord[a] \in DOMAIN sc /\ ord[a] \in Int /\ ord[a] # NIL
      /\ \A a, b \in 1 .. n : ord[a] = ord[b] => a = b
  <2>1. n \in Nat /\ \A a \in 1 .. n : ord[a] \in DOMAIN sc /\ ord[a] \in Nat \ {0} /\ ord[a] \in Int
    BY <1>1, OrderIs
  <2>2. \A a, b \in 1 .. n : ord[a] = ord[b] => a = b
    BY <1>1, OrderIs
  <2>3. QED
    BY <2>1, <2>2 DEF NIL
<1>3. \A y \in DOMAIN sc : sc[y] \in Int
  BY <1>1, OrderIs
<1>4. PICK p \in 1 .. n : ord[p] = x
  BY <1>1, OrderIs
<1>5. /\ ord \in Seq(DOMAIN sc) /\ ToSet(ord) = DOMAIN sc /\ sc \in [DOMAIN sc -> Int] /\ DOMAIN sc \subseteq Nat \ {0}
      /\ \A i, j \in 1 .. n : i < j => Precedes(sc, ord[i], ord[j])
  BY <1>1 DEF OrderOf
<1>6. DOMAIN w = DOMAIN sc /\ w[x] = s /\ (\A y \in DOMAIN sc : y # x => w[y] = sc[y]) /\ w \in [DOMAIN sc -> Int]
  BY <1>3 DEF With
<1>7. w = [sc EXCEPT ![x] = s]
  BY <1>5 DEF With
<1>8. p > 1 => sc[ord[p - 1]] < s
  <2>1. SUFFICES ASSUME p > 1 PROVE sc[ord[p - 1]] < s
    OBVIOUS
  <2>2. z.backward[x] = ord[p - 1] /\ p - 1 \in 1 .. n
    BY <1>1, <1>2, <1>4, <2>1 DEF BackIs
  <2>3. QED
    BY <1>2, <2>2 DEF InPlace
<1>9. p < n => sc[ord[p + 1]] > s
  <2>1. SUFFICES ASSUME p < n PROVE sc[ord[p + 1]] > s
    OBVIOUS
  <2> DEFINE q == p + 1
  <2>2. q \in 1 .. (n + 1) /\ q - 1 = p /\ q \in 1 .. n /\ p \in 1 .. n
    BY <1>2, <2>1
  <2> HIDE DEF q
  <2>3. z.forward[NodeAt(ord, q - 1)][0] = NodeAt(ord, q)
    BY <2>2, NextNode
  <2>4. NodeAt(ord, p) = ord[p] /\ NodeAt(ord, q) = ord[q]
    BY <1>1, <2>2, NodesDiffer
  <2>5. z.forward[x][0] = ord[q] /\ ord[q] # NIL
    BY <1>2, <1>4, <2>2, <2>3, <2>4
  <2>6. sc[ord[q]] > s
    BY <2>5 DEF InPlace
  <2>7. QED
    BY <2>6 DEF q
<1> HIDE DEF w, sc, n
<1>10. ASSUME NEW i \in 1 .. n, NEW j \in 1 .. n, i < j PROVE Precedes(w, ord[i], ord[j])
  <2>1. Precedes(sc, ord[i], ord[j]) /\ sc[ord[i]] \in Int /\ sc[ord[j]] \in Int
    BY <1>2, <1>3, <1>5, <1>10
  <2>2. CASE i # p /\ j # p
    <3>1. w[ord[i]] = sc[ord[i]] /\ w[ord[j]] = sc[ord[j]]
      BY <1>2, <1>4, <1>6, <2>2
    <3>2. QED
      BY <2>1, <3>1 DEF Precedes
  <2>3. CASE j = p
    <3>1. p > 1 /\ p - 1 \in 1 .. n /\ i <= p - 1
      BY <1>2, <1>10, <2>3
    <3>2. sc[ord[i]] <= sc[ord[p - 1]]
      <4>1. CASE i = p - 1
        BY <2>1, <4>1
      <4>2. CASE i < p - 1
        <5>1. Precedes(sc, ord[i], ord[p - 1]) /\ sc[ord[p - 1]] \in Int
          BY <1>2, <1>3, <1>5, <3>1, <4>2
        <5>2. QED
          BY <2>1, <5>1 DEF Precedes
      <4>3. QED
        BY <1>2, <3>1, <4>1, <4>2
    <3>3. sc[ord[p - 1]] \in Int
      BY <1>2, <1>3, <3>1
    <3>4. i # p
      BY <1>10, <2>3
    <3>5. w[ord[i]] = sc[ord[i]] /\ w[ord[j]] = s
      BY <1>2, <1>4, <1>6, <2>3, <3>4
    <3>6. w[ord[i]] < w[ord[j]]
      BY <1>8, <2>1, <3>1, <3>2, <3>3, <3>5
    <3>7. QED
      BY <3>6 DEF Precedes
  <2>4. CASE i = p
    <3>1. p < n /\ p + 1 \in 1 .. n /\ p + 1 <= j
      BY <1>2, <1>10, <2>4
    <3>2. sc[ord[p + 1]] <= sc[ord[j]]
      <4>1. CASE j = p + 1
        BY <2>1, <4>1
      <4>2. CASE p + 1 < j
        <5>1. Precedes(sc, ord[p + 1], ord[j]) /\ sc[ord[p + 1]] \in Int
          BY <1>2, <1>3, <1>5, <3>1, <4>2
        <5>2. QED
          BY <2>1, <5>1 DEF Precedes
      <4>3. QED
        BY <1>2, <3>1, <4>1, <4>2
    <3>3. sc[ord[p + 1]] \in Int
      BY <1>2, <1>3, <3>1
    <3>4. j # p
      BY <1>10, <2>4
    <3>5. w[ord[j]] = sc[ord[j]] /\ w[ord[i]] = s
      BY <1>2, <1>4, <1>6, <2>4, <3>4
    <3>6. w[ord[i]] < w[ord[j]]
      BY <1>9, <2>1, <3>1, <3>2, <3>3, <3>5
    <3>7. QED
      BY <3>6 DEF Precedes
  <2>5. QED
    BY <2>2, <2>3, <2>4
<1>11. OrderOf(ord, w)
  BY <1>5, <1>6, <1>10 DEF OrderOf, n
<1>12. QED
  BY <1>7, <1>11 DEF w, sc

UpdatedWell(z, x, s, y, new) ==
    GoodList(y, new) /\ y.score = With(z.score, x, s) /\ y.levels = z.levels

\* zslUpdateScore, in place or by taking the node out and putting it in again.
LEMMA UpdateIs ==
    ASSUME NEW z, NEW ord, GoodList(z, ord), NEW x \in DOMAIN z.score, NEW s \in Int
    PROVE  \E new : UpdatedWell(z, x, s, zslUpdateScore(z, x, s), new)
<1>1. /\ OrderOf(ord, z.score) /\ ZRecord(z) /\ z.levels \in [DOMAIN z.score -> Levels] /\ z.asserts = TRUE
      /\ GoodParts(z.level, z.length, z.tail, z.score, z.levels, z.backward, z.forward, z.span, ord)
  BY DEF GoodList, GoodParts
<1>2. CASE InPlace(z, x, s)
  <2> DEFINE w == With(z.score, x, s)
             y == [z EXCEPT !.score = w]
  <2>1. OrderOf(ord, w) /\ w = [z.score EXCEPT ![x] = s]
    BY <1>2, OrderInPlace
  <2>2. zslUpdateScore(z, x, s) = y
    BY <1>1, <1>2, <2>1 DEF zslUpdateScore, ZRecord, ZFields
  <2>3. DOMAIN w = DOMAIN z.score
    BY DEF With
  <2> HIDE DEF w
  <2>4. ListIs(y, z.level, z.length, z.tail, z.asserts, w, z.levels, z.backward, z.forward, z.span)
    BY <1>1 DEF ListIs, ZRecord, ZFields
  <2>5. GoodParts(z.level, z.length, z.tail, w, z.levels, z.backward, z.forward, z.span, ord)
    BY <1>1, <2>1, <2>3 DEF GoodParts
  <2> HIDE DEF y
  <2>6. GoodList(y, ord) /\ y.score = w /\ y.levels = z.levels
    BY <1>1, <2>4, <2>5 DEF ListIs, GoodList
  <2>7. UpdatedWell(z, x, s, y, ord)
    BY <2>6 DEF UpdatedWell, w
  <2>8. QED
    BY <2>2, <2>7
<1>3. CASE ~InPlace(z, x, s)
  <2> DEFINE d == zslDelete(z, x)
             lv == z.levels[x]
             y == zslInsert(d, s, x, lv)
  <2>1. zslUpdateScore(z, x, s) = y
    BY <1>3 DEF zslUpdateScore
  <2>2. PICK o : DeletedWell(z, x, d, o)
    BY DeleteIs
  <2>3. GoodList(d, o) /\ d.score = LessOne(z.score, x) /\ d.levels = LessOne(z.levels, x)
    BY <2>2 DEF DeletedWell
  <2>4. x \in Nat \ {0} /\ lv \in Levels
    BY <1>1 DEF OrderOf
  <2> HIDE DEF d, lv
  <2>5. x \notin DOMAIN d.score
    BY <2>3 DEF LessOne
  <2>6. PICK new : InsertedWell(d, x, s, lv, zslInsert(d, s, x, lv), new)
    BY <2>3, <2>4, <2>5, InsertIs
  <2>7. GoodList(y, new) /\ y.score = With(d.score, x, s) /\ y.levels = With(d.levels, x, lv)
    BY <2>6 DEF InsertedWell
  <2> HIDE DEF y
  <2>8. With(d.score, x, s) = With(z.score, x, s)
    BY <2>3 DEF With, LessOne
  <2>9. With(d.levels, x, lv) = z.levels
    <3>1. z.levels = [k \in DOMAIN z.levels |-> z.levels[k]] /\ x \in DOMAIN z.levels
      BY <1>1
    <3>2. With(LessOne(z.levels, x), x, z.levels[x]) = [k \in DOMAIN z.levels |-> z.levels[k]]
      BY <3>1 DEF With, LessOne
    <3>3. QED
      BY <2>3, <3>1, <3>2 DEF lv
  <2>10. UpdatedWell(z, x, s, y, new)
    BY <2>7, <2>8, <2>9 DEF UpdatedWell
  <2>11. QED
    BY <2>1, <2>10
<1>4. QED
  BY <1>2, <1>3

-----------------------------------------------------------------------------
(* The list a score map calls for. *)

\* A strictly increasing map of 1 .. n to itself is the identity.
LEMMA IncreasingIs ==
    ASSUME NEW n \in Nat, NEW h \in [1 .. n -> 1 .. n],
           \A i, j \in 1 .. n : i < j => h[i] < h[j]
    PROVE  \A i \in 1 .. n : h[i] = i
<1> DEFINE S == {i \in 0 .. n : \A j \in 1 .. i : h[j] >= j}
           T == {i \in 0 .. n : \A j \in 1 .. n : j >= n - i => h[j] <= j}
<1>1. 0 \in S
  OBVIOUS
<1>2. ASSUME NEW i \in 0 .. (n - 1), i \in S PROVE i + 1 \in S
  <2>1. i + 1 \in 1 .. n /\ h[i + 1] \in 1 .. n
    OBVIOUS
  <2>2. h[i + 1] >= i + 1
    <3>1. CASE i = 0
      BY <2>1, <3>1
    <3>2. CASE i # 0
      <4>1. i \in 1 .. n /\ i < i + 1 /\ h[i] >= i /\ h[i] \in 1 .. n
        BY <1>2, <3>2
      <4>2. h[i] < h[i + 1]
        BY <2>1, <4>1
      <4>3. QED
        BY <2>1, <4>1, <4>2
    <3>3. QED
      BY <3>1, <3>2
  <2>3. \A j \in 1 .. (i + 1) : j = i + 1 \/ j \in 1 .. i
    OBVIOUS
  <2>4. QED
    BY <1>2, <2>1, <2>2, <2>3
<1>3. n \in S
  <2> HIDE DEF S
  <2>1. \A i \in 0 .. n : i \in S
    BY <1>1, <1>2, UpTo
  <2>2. QED
    BY <2>1
<1>4. 0 \in T
  BY DEF T
<1>5. ASSUME NEW i \in 0 .. (n - 1), i \in T PROVE i + 1 \in T
  <2>1. ASSUME NEW j \in 1 .. n, j >= n - (i + 1) PROVE h[j] <= j
    <3>1. CASE j >= n - i
      BY <1>5, <3>1
    <3>2. CASE ~(j >= n - i)
      <4>1. j + 1 \in 1 .. n /\ j + 1 >= n - i /\ j < j + 1 /\ h[j] \in Int /\ h[j + 1] \in Int
        BY <2>1, <3>2
      <4>2. h[j + 1] <= j + 1 /\ h[j] < h[j + 1]
        BY <1>5, <4>1
      <4>3. QED
        BY <4>1, <4>2
    <3>3. QED
      BY <3>1, <3>2
  <2>2. QED
    BY <2>1
<1>6. n \in T
  <2> HIDE DEF T
  <2>1. \A i \in 0 .. n : i \in T
    BY <1>4, <1>5, UpTo
  <2>2. QED
    BY <2>1
<1>7. ASSUME NEW i \in 1 .. n PROVE h[i] = i
  <2>1. h[i] >= i /\ h[i] <= i /\ h[i] \in Int
    BY <1>3, <1>6
  <2>2. QED
    BY <2>1
<1>8. QED
  BY <1>7

\* There is one order of a score map, and Sorted finds it.
LEMMA SortedIs ==
    ASSUME NEW ord, NEW score, OrderOf(ord, score)
    PROVE  Sorted(score) = ord /\ Cardinality(DOMAIN score) = Len(ord)
<1> DEFINE n == Len(ord)
           S == DOMAIN score
           D == [1 .. n -> S]
           Ok(o) == \A i, j \in DOMAIN o : i < j => Precedes(score, o[i], o[j])
<1>1. /\ n \in Nat /\ DOMAIN ord = 1 .. n
      /\ \A a \in 1 .. n : ord[a] \in S /\ ord[a] \in Int
      /\ \A a, b \in 1 .. n : ord[a] = ord[b] => a = b
  BY OrderIs
<1>2. \A x \in S : score[x] \in Int /\ x \in Int /\ \E a \in 1 .. n : ord[a] = x
  BY OrderIs
<1>3. ord \in Seq(S) /\ ToSet(ord) = S /\ \A i, j \in 1 .. n : i < j => Precedes(score, ord[i], ord[j])
  BY DEF OrderOf
<1>4. Cardinality(S) = n
  <2>1. IsInjective(ord)
    BY <1>1 DEF IsInjective
  <2>2. QED
    BY <1>3, <2>1, DistinctCount
<1>5. Sorted(score) = CHOOSE o \in D : Ok(o)
  BY <1>4 DEF Sorted
<1>6. ord \in D /\ Ok(ord)
  BY <1>1, <1>3
<1>7. ASSUME NEW o \in D, Ok(o) PROVE o = ord
  <2> DEFINE h == [i \in 1 .. n |-> CHOOSE a \in 1 .. n : ord[a] = o[i]]
  <2>1. ASSUME NEW i \in 1 .. n PROVE h[i] \in 1 .. n /\ ord[h[i]] = o[i]
    <3>1. o[i] \in S
      OBVIOUS
    <3>2. \E a \in 1 .. n : ord[a] = o[i]
      BY <1>2, <3>1
    <3>3. QED
      BY <3>2
  <2>2. h \in [1 .. n -> 1 .. n]
    BY <2>1
  <2>3. ASSUME NEW i \in 1 .. n, NEW j \in 1 .. n, i < j PROVE h[i] < h[j]
    <3>1. Precedes(score, o[i], o[j])
      BY <1>7, <2>3
    <3>2. h[i] \in 1 .. n /\ h[j] \in 1 .. n /\ ord[h[i]] = o[i] /\ ord[h[j]] = o[j]
      BY <2>1
    <3> HIDE DEF h
    <3>3. /\ score[o[i]] \in Int /\ score[o[j]] \in Int /\ o[i] \in Int /\ o[j] \in Int
      BY <1>2
    <3>4. h[i] = h[j] => FALSE
      BY <3>1, <3>2, <3>3 DEF Precedes
    <3>5. h[j] < h[i] => FALSE
      <4>1. h[j] < h[i] => Precedes(score, o[j], o[i])
        BY <1>3, <3>2
      <4>2. QED
        BY <3>1, <3>3, <4>1 DEF Precedes
    <3>6. QED
      BY <1>1, <3>2, <3>4, <3>5
  <2> HIDE DEF h
  <2>4. \A i \in 1 .. n : h[i] = i
    BY <1>1, <2>2, <2>3, IncreasingIs
  <2>5. \A i \in 1 .. n : o[i] = ord[i]
    BY <2>1, <2>4
  <2>6. QED
    BY <1>6, <2>5
<1>8. (CHOOSE o \in D : Ok(o)) = ord
  <2> DEFINE c == CHOOSE o \in D : Ok(o)
  <2>1. c \in D /\ Ok(c)
    BY <1>6
  <2> HIDE DEF c
  <2>2. c = ord
    BY <1>7, <2>1
  <2>3. QED
    BY <2>2 DEF c
<1>9. QED
  BY <1>4, <1>5, <1>8

\* The smallest element.
LEMMA MinIs ==
    ASSUME NEW S \in SUBSET Int, NEW m \in S, \A x \in S : m <= x
    PROVE  Min(S) = m
<1>1. \E x \in S : \A y \in S : x <= y
  OBVIOUS
<1>2. Min(S) \in S /\ \A y \in S : Min(S) <= y
  BY <1>1, Zenon DEF Min
<1>3. Min(S) \in Int /\ m \in Int /\ Min(S) <= m /\ m <= Min(S)
  BY <1>2
<1>4. QED
  BY <1>3

\* What LinkedAs asks of a node and a level.
Asks(z, ord, x, i, a) ==
    LET Behind == {j \in DOMAIN ord : j > a /\ z.levels[ord[j]] > i}
    IN  IF Behind = {}
        THEN /\ z.forward[x][i] = NIL
             /\ i > 0 => z.span[x][i] = (IF i < z.level THEN z.length - a ELSE 0)
        ELSE /\ z.forward[x][i] = ord[Min(Behind)]
             /\ i > 0 => z.span[x][i] = Min(Behind) - a

\* A sound list has it.
LEMMA AskedIs ==
    ASSUME NEW z, NEW ord, GoodList(z, ord), NEW a \in 0 .. Len(ord),
           NEW i \in 0 .. (TopOf(HeightsOf(z.levels, ord), a) - 1)
    PROVE  Asks(z, ord, NodeAt(ord, a), i, a)
<1> DEFINE n == Len(ord)
           L == HeightsOf(z.levels, ord)
           x == NodeAt(ord, a)
           v == z.forward[x][i]
           d == z.span[x][i]
           Behind == {j \in DOMAIN ord : j > a /\ z.levels[ord[j]] > i}
<1>1. OrderOf(ord, z.score) /\ n \in Nat /\ z.length = n /\ DOMAIN ord = 1 .. n
  <2>1. OrderOf(ord, z.score) /\ n \in Nat /\ z.length = n
    BY HeightsAre
  <2>2. QED
    BY <2>1, OrderIs
<1>2. LinkValue(L, ord, z.level, a, i, v, d)
  BY LinkOf
<1>3. PICK b : /\ NextAt(L, n, a, i, b) /\ v = NodeAt(ord, b)
               /\ i > 0 => d = IF b <= n THEN b - a ELSE IF i < z.level THEN n - a ELSE 0
  BY <1>2 DEF LinkValue
<1>4. \A j \in 1 .. n : L[j] = z.levels[ord[j]]
  BY DEF HeightsOf
<1>5. b \in (a + 1) .. (n + 1) /\ (b <= n => L[b] > i) /\ \A c \in (a + 1) .. (b - 1) : L[c] <= i
  BY <1>3 DEF NextAt
<1>6. \A j \in 1 .. n : L[j] \in Nat
  BY HeightsAre DEF HeightsUpTo
<1>7. i \in Int
  OBVIOUS
<1>8. \A j : j \in Behind <=> j \in 1 .. n /\ j > a /\ L[j] > i
  BY <1>1, <1>4
<1> HIDE DEF L, n, Behind
<1>9. CASE b <= n
  <2>1. b \in Behind /\ b \in 1 .. n
    BY <1>1, <1>5, <1>8, <1>9 DEF n
  <2>2. \A j \in Behind : b <= j
    BY <1>1, <1>5, <1>6, <1>7, <1>8 DEF n
  <2>3. Min(Behind) = b
    <3>1. Behind \in SUBSET Int
      BY <1>8
    <3>2. QED
      BY <2>1, <2>2, <3>1, MinIs
  <2>4. v = ord[b]
    BY <1>1, <1>3, <2>1, NodesDiffer DEF n
  <2>5. QED
    BY <1>3, <1>9, <2>1, <2>3, <2>4 DEF Asks, Behind
<1>10. CASE ~(b <= n)
  <2>1. b = n + 1 /\ b - 1 = n
    BY <1>1, <1>5, <1>10 DEF n
  <2>2. Behind = {}
    BY <1>1, <1>5, <1>6, <1>7, <1>8, <2>1 DEF n
  <2>3. v = NIL
    BY <1>1, <1>3, <2>1, NodesDiffer DEF n
  <2>4. QED
    BY <1>1, <1>3, <1>10, <2>2, <2>3 DEF Asks, Behind
<1>11. QED
  BY <1>9, <1>10

\* The list is linked as its sorted elements call for, and no assertion failed.
ZslSound(z) == \E ord : GoodList(z, ord)

\* The place of a node is the one LinkedAs chooses.
LEMMA PlaceIs ==
    ASSUME NEW ord, NEW score, OrderOf(ord, score), NEW a \in 1 .. Len(ord)
    PROVE  (CHOOSE i \in DOMAIN ord : ord[i] = ord[a]) = a
<1>1. DOMAIN ord = 1 .. Len(ord) /\ \A c, d \in 1 .. Len(ord) : ord[c] = ord[d] => c = d
  BY OrderIs
<1> DEFINE c == CHOOSE i \in DOMAIN ord : ord[i] = ord[a]
<1>2. c \in DOMAIN ord /\ ord[c] = ord[a]
  BY <1>1
<1> HIDE DEF c
<1>3. c = a
  BY <1>1, <1>2
<1>4. QED
  BY <1>3 DEF c

\* The level is the height of the tallest node.
LEMMA TallestIs ==
    ASSUME NEW level, NEW levels, NEW S, levels \in [S -> Levels], LevelIs(level, levels)
    PROVE  level = Max({1} \cup {levels[x] : x \in S})
<1> DEFINE H == {1} \cup {levels[x] : x \in S}
<1>1. Levels \subseteq Int /\ level \in Levels /\ \A k \in Levels : k >= 1
  BY SkiplistAssumption DEF Levels, LevelIs
<1>2. H \in SUBSET Int
  <2>1. \A x \in S : levels[x] \in Int
    BY <1>1
  <2>2. QED
    BY <2>1
<1>3. level \in H
  BY DEF LevelIs
<1>4. \A k \in H : k <= level
  BY <1>1 DEF LevelIs
<1> HIDE DEF H
<1>5. Max(H) = level
  BY <1>2, <1>3, <1>4, MaxIs
<1>6. QED
  BY <1>5 DEF H

\* A sound list is linked as LinkedAs says, in the order that Sorted gives.
LEMMA LinkedIs ==
    ASSUME NEW z, NEW ord, GoodList(z, ord)
    PROVE  LinkedAs(z, ord) /\ Sorted(z.score) = ord /\ z.asserts = TRUE
<1> DEFINE n == Len(ord)
           Place(x) == IF x = HEAD THEN 0 ELSE CHOOSE i \in DOMAIN ord : ord[i] = x
           Height(x) == IF x = HEAD THEN ZSKIPLIST_MAXLEVEL ELSE z.levels[x]
<1>1. /\ OrderOf(ord, z.score) /\ z.asserts = TRUE /\ z.levels \in [DOMAIN z.score -> Levels]
      /\ z.length = n /\ LevelIs(z.level, z.levels) /\ BackIs(z.backward, ord)
      /\ z.tail = IF n = 0 THEN NIL ELSE ord[n]
  BY DEF GoodList, GoodParts
<1>2. n \in Nat /\ DOMAIN ord = 1 .. n /\ \A x \in DOMAIN z.score : \E a \in 1 .. n : ord[a] = x
  BY <1>1, OrderIs
<1>3. Sorted(z.score) = ord
  BY <1>1, SortedIs
<1>4. z.length = Cardinality(DOMAIN ord)
  <2>1. Cardinality(1 .. n) = n
    BY <1>2, FS_Interval
  <2>2. QED
    BY <1>1, <1>2, <2>1
<1>5. z.level = Max({1} \cup {z.levels[x] : x \in Nodes(z)})
  BY <1>1, TallestIs DEF Nodes
<1>6. ASSUME NEW x \in Nodes(z) PROVE z.backward[x] = IF Place(x) = 1 THEN NIL ELSE ord[Place(x) - 1]
  <2>1. PICK a \in 1 .. n : ord[a] = x
    BY <1>2 DEF Nodes
  <2>2. (CHOOSE i \in DOMAIN ord : ord[i] = ord[a]) = a
    BY <1>1, PlaceIs
  <2>3. x # HEAD
    BY <1>1, NodesDiffer DEF Nodes
  <2>4. Place(x) = a
    BY <2>1, <2>2, <2>3
  <2>5. z.backward[x] = IF a = 1 THEN NIL ELSE ord[a - 1]
    BY <1>1, <2>1 DEF BackIs
  <2>6. QED
    BY <2>4, <2>5
<1>7. ASSUME NEW x \in Nodes(z) \cup {HEAD}
      PROVE  \A i \in 0 .. (Height(x) - 1) : Asks(z, ord, x, i, Place(x))
  <2> DEFINE L == HeightsOf(z.levels, ord)
  <2>1. PICK a \in 0 .. n : x = NodeAt(ord, a)
    BY <1>1, NodesDiffer DEF Nodes
  <2>2. Place(x) = a /\ Height(x) = TopOf(L, a)
    <3>1. CASE a = 0
      BY <2>1, <3>1 DEF NodeAt, TopOf
    <3>2. CASE a # 0
      <4>1. a \in 1 .. n
        BY <1>2, <3>2
      <4>2. x = ord[a] /\ x # HEAD
        BY <1>1, <2>1, <4>1, NodesDiffer
      <4>3. (CHOOSE i \in DOMAIN ord : ord[i] = ord[a]) = a
        BY <1>1, <4>1, PlaceIs
      <4>4. L[a] = z.levels[ord[a]]
        BY <4>1 DEF HeightsOf
      <4>5. QED
        BY <3>2, <4>2, <4>3, <4>4 DEF TopOf
    <3>3. QED
      BY <3>1, <3>2
  <2> HIDE DEF Place, Height
  <2>3. \A i \in 0 .. (TopOf(L, a) - 1) : Asks(z, ord, NodeAt(ord, a), i, a)
    BY AskedIs
  <2>4. QED
    BY <2>1, <2>2, <2>3
<1>8. z.tail = IF z.length = 0 THEN NIL ELSE ord[z.length]
  BY <1>1
<1>9. LinkedAs(z, ord)
  <2>1. \A x \in Nodes(z) \cup {HEAD} : \A i \in 0 .. (Height(x) - 1) :
           LET Behind == {j \in DOMAIN ord : j > Place(x) /\ z.levels[ord[j]] > i}
           IN  IF Behind = {}
               THEN /\ z.forward[x][i] = NIL
                    /\ i > 0 => z.span[x][i] = (IF i < z.level THEN z.length - Place(x) ELSE 0)
               ELSE /\ z.forward[x][i] = ord[Min(Behind)]
                    /\ i > 0 => z.span[x][i] = Min(Behind) - Place(x)
    <3> HIDE DEF Place, Height
    <3>1. QED
      BY <1>7, Zenon DEF Asks
  <2>2. QED
    BY <1>4, <1>5, <1>6, <1>8, <2>1, Zenon DEF LinkedAs
<1>10. QED
  BY <1>1, <1>3, <1>9

-----------------------------------------------------------------------------
(* Node by node. *)

\* Two sequences of values that start and go on alike are alike.
LEMMA SameUpTo ==
    ASSUME NEW k \in Nat, NEW s, NEW v, s[0] = v[0], \A j \in 1 .. k : s[j - 1] = v[j - 1] => s[j] = v[j]
    PROVE  s[k] = v[k]
<1> DEFINE T == {j \in 0 .. k : s[j] = v[j]}
<1>1. 0 \in T
  OBVIOUS
<1>2. ASSUME NEW j \in 0 .. (k - 1), j \in T PROVE j + 1 \in T
  <2>1. j + 1 \in 1 .. k /\ (j + 1) - 1 = j /\ j + 1 \in 0 .. k
    OBVIOUS
  <2>2. s[j + 1] = v[j + 1]
    BY <1>2, <2>1
  <2>3. QED
    BY <2>1, <2>2
<1>3. k \in T
  <2> HIDE DEF T
  <2>1. \A j \in 0 .. k : j \in T
    BY <1>1, <1>2, UpTo
  <2>2. QED
    BY <2>1
<1>4. QED
  BY <1>3

StepsForward(z, x, k) == Steps(x, k, LAMBDA y : z.forward[y][0])
StepsBackward(z, x, k) == Steps(x, k, LAMBDA y : z.backward[y])

RunsForward(s, z, x, k) == s = [j \in 0 .. k |-> IF j = 0 THEN x ELSE z.forward[s[j - 1]][0]]
RunsBackward(s, z, x, k) == s = [j \in 0 .. k |-> IF j = 0 THEN x ELSE z.backward[s[j - 1]]]

\* Any values that follow the pointers are the ones the steps take.
LEMMA StepsForwardAre ==
    ASSUME NEW z, NEW x, NEW k \in Nat, NEW v, RunsForward(v, z, x, k)
    PROVE  StepsForward(z, x, k) = v[k]
<1> DEFINE s == CHOOSE s : RunsForward(s, z, x, k)
<1>1. RunsForward(s, z, x, k)
  OBVIOUS
<1>2. StepsForward(z, x, k) = s[k]
  BY DEF StepsForward, Steps, RunsForward
<1> HIDE DEF s
<1>3. s[0] = x /\ \A j \in 1 .. k : s[j] = z.forward[s[j - 1]][0]
  BY <1>1 DEF RunsForward
<1>4. v[0] = x /\ \A j \in 1 .. k : v[j] = z.forward[v[j - 1]][0]
  BY DEF RunsForward
<1>5. s[0] = v[0] /\ \A j \in 1 .. k : s[j - 1] = v[j - 1] => s[j] = v[j]
  BY <1>3, <1>4
<1>6. s[k] = v[k]
  BY <1>5, SameUpTo
<1>7. QED
  BY <1>2, <1>6

\* The same backwards.
LEMMA StepsBackwardAre ==
    ASSUME NEW z, NEW x, NEW k \in Nat, NEW v, RunsBackward(v, z, x, k)
    PROVE  StepsBackward(z, x, k) = v[k]
<1> DEFINE s == CHOOSE s : RunsBackward(s, z, x, k)
<1>1. RunsBackward(s, z, x, k)
  OBVIOUS
<1>2. StepsBackward(z, x, k) = s[k]
  BY DEF StepsBackward, Steps, RunsBackward
<1> HIDE DEF s
<1>3. s[0] = x /\ \A j \in 1 .. k : s[j] = z.backward[s[j - 1]]
  BY <1>1 DEF RunsBackward
<1>4. v[0] = x /\ \A j \in 1 .. k : v[j] = z.backward[v[j - 1]]
  BY DEF RunsBackward
<1>5. s[0] = v[0] /\ \A j \in 1 .. k : s[j - 1] = v[j - 1] => s[j] = v[j]
  BY <1>3, <1>4
<1>6. s[k] = v[k]
  BY <1>5, SameUpTo
<1>7. QED
  BY <1>2, <1>6

\* k steps forward from place a.
LEMMA StepsForwardIs ==
    ASSUME NEW z, NEW ord, GoodList(z, ord), NEW a \in 0 .. Len(ord), NEW k \in 0 .. ((Len(ord) + 1) - a)
    PROVE  StepsForward(z, NodeAt(ord, a), k) = NodeAt(ord, a + k)
<1> DEFINE v == [j \in 0 .. k |-> NodeAt(ord, a + j)]
<1>1. Len(ord) \in Nat /\ k \in Nat
  BY HeightsAre
<1>2. ASSUME NEW j \in 1 .. k PROVE v[j] = z.forward[v[j - 1]][0]
  <2> DEFINE q == a + j
  <2>1. q \in 1 .. (Len(ord) + 1) /\ a + (j - 1) = q - 1 /\ j - 1 \in 0 .. k /\ j \in 0 .. k
    BY <1>1
  <2> HIDE DEF q
  <2>2. z.forward[NodeAt(ord, q - 1)][0] = NodeAt(ord, q)
    BY <2>1, NextNode
  <2>3. v[j] = NodeAt(ord, q) /\ v[j - 1] = NodeAt(ord, q - 1)
    BY <2>1 DEF q
  <2>4. QED
    BY <2>2, <2>3
<1>3. v[0] = NodeAt(ord, a) /\ v[k] = NodeAt(ord, a + k)
  BY <1>1
<1>4. v = [j \in 0 .. k |-> v[j]]
  OBVIOUS
<1> HIDE DEF v
<1>5. RunsForward(v, z, NodeAt(ord, a), k)
  <2>1. \A j \in 0 .. k : v[j] = IF j = 0 THEN NodeAt(ord, a) ELSE z.forward[v[j - 1]][0]
    BY <1>1, <1>2, <1>3
  <2>2. QED
    BY <1>4, <2>1 DEF RunsForward
<1>6. QED
  BY <1>1, <1>3, <1>5, StepsForwardAre

\* k steps back from place a.
LEMMA StepsBackwardIs ==
    ASSUME NEW z, NEW ord, GoodList(z, ord), NEW a \in 1 .. Len(ord), NEW k \in 0 .. (a - 1)
    PROVE  StepsBackward(z, ord[a], k) = ord[a - k]
<1> DEFINE v == [j \in 0 .. k |-> ord[a - j]]
<1>1. Len(ord) \in Nat /\ k \in Nat
  BY HeightsAre
<1>2. BackIs(z.backward, ord)
  BY DEF GoodList, GoodParts
<1>3. ASSUME NEW j \in 1 .. k PROVE v[j] = z.backward[v[j - 1]]
  <2> DEFINE q == a - (j - 1)
  <2>1. q \in 1 .. Len(ord) /\ q # 1 /\ a - j = q - 1 /\ j - 1 \in 0 .. k /\ j \in 0 .. k
    BY <1>1
  <2> HIDE DEF q
  <2>2. z.backward[ord[q]] = ord[q - 1]
    BY <1>2, <2>1 DEF BackIs
  <2>3. v[j] = ord[q - 1] /\ v[j - 1] = ord[q]
    BY <2>1 DEF q
  <2>4. QED
    BY <2>2, <2>3
<1>4. v[0] = ord[a] /\ v[k] = ord[a - k]
  BY <1>1
<1>5. v = [j \in 0 .. k |-> v[j]]
  OBVIOUS
<1> HIDE DEF v
<1>6. RunsBackward(v, z, ord[a], k)
  <2>1. \A j \in 0 .. k : v[j] = IF j = 0 THEN ord[a] ELSE z.backward[v[j - 1]]
    BY <1>1, <1>3, <1>4
  <2>2. QED
    BY <1>5, <2>1 DEF RunsBackward
<1>7. QED
  BY <1>1, <1>4, <1>6, StepsBackwardAre

-----------------------------------------------------------------------------
(* Ranges. *)

\* The node the offset leads to, and whether the range still holds it.
FoundAt(x, e, ok) == IF x # NIL /\ ok THEN [node |-> x, rank |-> e] ELSE Nowhere

\* x is the node at place e, or there is none because the search had passed it.
Target(ord, l, e, x) == x \in {NIL, ord[e]} /\ (l <= e => x = ord[e]) /\ e \in 1 .. Len(ord)

\* From the front: the search left the top level at place l, and e places are before the range.
LEMMA FromFirstIs ==
    ASSUME NEW z, NEW ord, GoodList(z, ord), NEW r, NEW k \in Nat,
           NEW l \in 0 .. Len(ord), Reaches(HeightsOf(z.levels, ord), l, z.level - 1), NEW e \in 0 .. Len(ord)
    PROVE  \/ e + k >= Len(ord) /\ NthFromFirst(z, r, k, PosAt(ord, l), PosAt(ord, e)) = Nowhere
           \/ \E x : /\ Target(ord, l, (e + k) + 1, x)
                     /\ NthFromFirst(z, r, k, PosAt(ord, l), PosAt(ord, e))
                            = FoundAt(x, (e + k) + 1, LteMax(Bound(z, r, x), r))
<1> DEFINE n == Len(ord)
           top == z.level - 1
           d == (e + k) + 1
           rank == ((e + 1) + k) - l
           X == IF k < ZSKIPLIST_MAX_SEARCH THEN StepsForward(z, NodeAt(ord, e), k + 1)
                ELSE zslGetElementByRankFromNode(z, NodeAt(ord, l), top, rank)
           R == NthFromFirst(z, r, k, PosAt(ord, l), PosAt(ord, e))
<1>1. n \in Nat /\ z.length = n /\ z.level \in Nat \ {0} /\ OrderOf(ord, z.score)
  BY HeightsAre
<1>2. PosAt(ord, l).node = NodeAt(ord, l) /\ PosAt(ord, l).rank = l /\ PosAt(ord, e).node = NodeAt(ord, e) /\ PosAt(ord, e).rank = e
  BY DEF PosAt
<1>3. R = IF e + k >= n THEN Nowhere ELSE FoundAt(X, d, LteMax(Bound(z, r, X), r))
  BY <1>1, <1>2 DEF NthFromFirst, Reached, StepsForward, FoundAt
<1>4. CASE e + k >= n
  BY <1>3, <1>4
<1>5. CASE ~(e + k >= n)
  <2>1. d \in 1 .. n /\ k + 1 \in 0 .. ((n + 1) - e) /\ e + (k + 1) = d
    BY <1>1, <1>5
  <2>2. NodeAt(ord, d) = ord[d]
    BY <1>1, <2>1, NodesDiffer
  <2>3. CASE k < ZSKIPLIST_MAX_SEARCH
    <3> DEFINE m == k + 1
    <3>1. m \in 0 .. ((n + 1) - e)
      BY <2>1
    <3> HIDE DEF m
    <3>2. StepsForward(z, NodeAt(ord, e), m) = NodeAt(ord, e + m)
      BY <3>1, StepsForwardIs
    <3>3. X = ord[d]
      BY <2>1, <2>2, <2>3, <3>2 DEF m
    <3>4. Target(ord, l, d, X)
      BY <2>1, <3>3 DEF Target
    <3>5. QED
      BY <1>3, <1>5, <3>4
  <2>4. CASE ~(k < ZSKIPLIST_MAX_SEARCH)
    <3>1. rank \in Int /\ top \in 0 .. (z.level - 1) /\ l + rank = d
      BY <1>1
    <3> HIDE DEF rank, top, d
    <3>2. zslGetElementByRankFromNode(z, NodeAt(ord, l), top, rank)
              = IF rank \in 0 .. (n - l) THEN NodeAt(ord, l + rank) ELSE NIL
      BY <3>1, ByRankIs DEF top
    <3>3. l <= d => rank \in 0 .. (n - l)
      BY <1>1, <2>1, <3>1
    <3>4. X \in {NIL, ord[d]} /\ (l <= d => X = ord[d])
      BY <2>2, <2>4, <3>1, <3>2, <3>3
    <3> HIDE DEF X
    <3>5. Target(ord, l, d, X)
      BY <2>1, <3>4 DEF Target
    <3>6. QED
      BY <1>3, <1>5, <3>5 DEF d
  <2>5. QED
    BY <2>3, <2>4
<1>6. QED
  BY <1>4, <1>5

\* From the back: the search left the top level at place l, and the range ends at place e.
LEMMA FromLastIs ==
    ASSUME NEW z, NEW ord, GoodList(z, ord), NEW r, NEW k \in Int, k < 0,
           NEW l \in 0 .. Len(ord), Reaches(HeightsOf(z.levels, ord), l, z.level - 1), NEW e \in 0 .. Len(ord)
    PROVE  \/ e + k < 0 /\ NthFromLast(z, r, k, PosAt(ord, l), PosAt(ord, e)) = Nowhere
           \/ \E x : /\ Target(ord, l, (e + k) + 1, x)
                     /\ NthFromLast(z, r, k, PosAt(ord, l), PosAt(ord, e))
                            = FoundAt(x, (e + k) + 1, GteMin(Bound(z, r, x), r))
<1> DEFINE n == Len(ord)
           top == z.level - 1
           d == (e + k) + 1
           rank == ((e + 1) + k) - l
           X == IF k + 1 > -ZSKIPLIST_MAX_SEARCH THEN StepsBackward(z, NodeAt(ord, e), -k - 1)
                ELSE zslGetElementByRankFromNode(z, NodeAt(ord, l), top, rank)
           R == NthFromLast(z, r, k, PosAt(ord, l), PosAt(ord, e))
<1>1. n \in Nat /\ z.length = n /\ z.level \in Nat \ {0} /\ OrderOf(ord, z.score)
  BY HeightsAre
<1>2. PosAt(ord, l).node = NodeAt(ord, l) /\ PosAt(ord, l).rank = l /\ PosAt(ord, e).node = NodeAt(ord, e) /\ PosAt(ord, e).rank = e
  BY DEF PosAt
<1>3. R = IF e < -k THEN Nowhere ELSE FoundAt(X, d, GteMin(Bound(z, r, X), r))
  BY <1>1, <1>2 DEF NthFromLast, Reached, StepsBackward, FoundAt
<1>4. CASE e < -k
  <2>1. e + k < 0
    BY <1>1, <1>4
  <2>2. QED
    BY <1>3, <1>4, <2>1
<1>5. CASE ~(e < -k)
  <2>1. d \in 1 .. n /\ e \in 1 .. n /\ -k - 1 \in 0 .. (e - 1) /\ e - (-k - 1) = d
    BY <1>1, <1>5
  <2>2. NodeAt(ord, d) = ord[d] /\ NodeAt(ord, e) = ord[e]
    BY <1>1, <2>1, NodesDiffer
  <2>3. CASE k + 1 > -ZSKIPLIST_MAX_SEARCH
    <3> DEFINE m == -k - 1
    <3>1. m \in 0 .. (e - 1)
      BY <2>1
    <3> HIDE DEF m
    <3>2. StepsBackward(z, ord[e], m) = ord[e - m]
      BY <2>1, <3>1, StepsBackwardIs
    <3>3. X = ord[d]
      BY <2>1, <2>2, <2>3, <3>2 DEF m
    <3>4. Target(ord, l, d, X)
      BY <2>1, <3>3 DEF Target
    <3>5. QED
      BY <1>3, <1>5, <3>4
  <2>4. CASE ~(k + 1 > -ZSKIPLIST_MAX_SEARCH)
    <3>1. rank \in Int /\ top \in 0 .. (z.level - 1) /\ l + rank = d
      BY <1>1
    <3> HIDE DEF rank, top, d
    <3>2. zslGetElementByRankFromNode(z, NodeAt(ord, l), top, rank)
              = IF rank \in 0 .. (n - l) THEN NodeAt(ord, l + rank) ELSE NIL
      BY <3>1, ByRankIs DEF top
    <3>3. l <= d => rank \in 0 .. (n - l)
      BY <1>1, <2>1, <3>1
    <3>4. X \in {NIL, ord[d]} /\ (l <= d => X = ord[d])
      BY <2>2, <2>4, <3>1, <3>2, <3>3
    <3> HIDE DEF X
    <3>5. Target(ord, l, d, X)
      BY <2>1, <3>4 DEF Target
    <3>6. QED
      BY <1>3, <1>5, <3>5 DEF d
  <2>5. QED
    BY <2>3, <2>4
<1>6. QED
  BY <1>4, <1>5

-----------------------------------------------------------------------------
(* Ranges of a list in order: lo nodes are below the range, and the first hi are not above it. *)

RangeCut(z, ord, r, lo, hi) ==
    /\ lo \in 0 .. Len(ord) /\ hi \in 0 .. Len(ord)
    /\ \A b \in 1 .. Len(ord) : /\ GteMin(Bound(z, r, ord[b]), r) <=> b > lo
                                /\ LteMax(Bound(z, r, ord[b]), r) <=> b <= hi
    /\ EmptyRange(r) => lo >= hi
    /\ ~EmptyRange(r) => lo <= hi

\* The node at the offset k of the range, from its end when k is negative.
NthOf(ord, lo, hi, k) ==
    IF k >= 0
    THEN IF (lo + k) + 1 <= hi THEN PosAt(ord, (lo + k) + 1) ELSE Nowhere
    ELSE IF (hi + k) + 1 > lo THEN PosAt(ord, (hi + k) + 1) ELSE Nowhere

\* A node of the list with its place, or none.
OnList(ord, q) == q = Nowhere \/ \E a \in 1 .. Len(ord) : q = PosAt(ord, a)

\* The positions of the two searches: l where the first left the top level, e where it ended.
BelowEdges(z, ord, r, l, e) ==
    /\ l \in 0 .. Len(ord) /\ e \in 0 .. Len(ord) /\ Reaches(HeightsOf(z.levels, ord), l, z.level - 1)
    /\ SearchBelow(z, r, Start, z.level - 1)[z.level - 1] = PosAt(ord, l)
    /\ SearchBelow(z, r, Start, z.level - 1)[0] = PosAt(ord, e)
    /\ \A lo, hi : RangeCut(z, ord, r, lo, hi) => l <= lo /\ e = lo

\* The search for the last node below the range.
LEMMA BelowIs ==
    ASSUME NEW z, NEW ord, GoodList(z, ord), NEW r
    PROVE  \E l, e : BelowEdges(z, ord, r, l, e)
<1> DEFINE n == Len(ord)
           G == {b \in 1 .. n : ~GteMin(Bound(z, r, ord[b]), r)}
           top == z.level - 1
           o == 0
           S == SearchBelow(z, r, PosFrom(ord, o, o), top)
<1>1. n \in Nat /\ top \in Nat /\ o \in 0 .. top /\ top \in 0 .. top
  BY HeightsAre
<1>2. G \in SUBSET (1 .. n)
  OBVIOUS
<1>3. LetsBelow(z, ord, o, r, G)
  BY DEF LetsBelow
<1>4. StartsAt(z, ord, o, G, o, top) /\ Start = PosFrom(ord, o, o)
  <2> HIDE DEF G
  <2>1. QED
    BY <1>2, StartsAtHead
<1>45. ASSUME NEW lo, NEW hi, RangeCut(z, ord, r, lo, hi)
      PROVE  G = 1 .. lo /\ lo \in 0 .. n
  BY <1>1, <1>45 DEF RangeCut
<1>46. o = 0
  OBVIOUS
<1> HIDE DEF o, G
<1>5. DOMAIN S = 0 .. top /\ \A i \in 0 .. top : LeftAt(z, ord, o, G, o, top, i, S[i])
  <2> HIDE DEF top
  <2>1. QED
    BY <1>3, <1>4, SearchBelowIs
<1> HIDE DEF S
<1>6. ASSUME NEW i \in 0 .. top
      PROVE  \E u \in 0 .. n : S[i] = PosAt(ord, u) /\ Reaches(HeightsOf(z.levels, ord), u, i) /\ (u = o \/ u \in G)
  <2>1. LeftAt(z, ord, o, G, o, top, i, S[i])
    BY <1>5
  <2>2. PICK u \in o .. n : S[i] = PosFrom(ord, o, u) /\ Reaches(HeightsOf(z.levels, ord), u, i) /\ (u = o \/ u \in G)
    BY <1>1, <1>6, <2>1 DEF LeftAt
  <2>3. u \in 0 .. n /\ u - o = u
    BY <1>1, <1>46, <2>2
  <2>4. QED
    BY <2>2, <2>3 DEF PosFrom, PosAt
<1>7. PICK l \in 0 .. n : S[top] = PosAt(ord, l) /\ Reaches(HeightsOf(z.levels, ord), l, top) /\ (l = o \/ l \in G)
  BY <1>1, <1>6
<1>8. PICK e \in 0 .. n : S[o] = PosAt(ord, e)
  BY <1>1, <1>6
<1>9. ASSUME NEW lo, NEW hi, RangeCut(z, ord, r, lo, hi)
      PROVE  l <= lo /\ e = lo
  <2>1. G = 1 .. lo /\ lo \in 0 .. n
    BY <1>9, <1>45
  <2> DEFINE p == lo + 1
  <2>2. p \in 1 .. (Len(ord) + 1) /\ G = 1 .. (p - 1) /\ o \in 0 .. (p - 1) /\ p - 1 = lo
    BY <1>1, <1>46, <2>1
  <2> HIDE DEF p, n
  <2>3. StartsAt(z, ord, o, 1 .. (p - 1), o, top) /\ LeftAt(z, ord, o, 1 .. (p - 1), o, top, o, S[o])
    BY <1>1, <1>4, <1>5, <2>2
  <2>4. PICK u : PrevAt(HeightsOf(z.levels, ord), p, o, u) /\ S[o] = PosFrom(ord, o, u)
    BY <1>1, <2>2, <2>3, LeftPrev
  <2>5. u = lo
    BY <1>46, <2>2, <2>4, PrevZero
  <2>6. PosFrom(ord, o, u).rank = lo - 0 /\ PosAt(ord, e).rank = e
    BY <1>46, <2>5 DEF PosFrom, PosAt
  <2>7. e = lo
    BY <1>8, <2>1, <2>4, <2>6 DEF n
  <2>8. QED
    BY <1>1, <1>46, <1>7, <2>1, <2>7
<1>10. QED
  BY <1>4, <1>46, <1>7, <1>8, <1>9 DEF BelowEdges, S

\* The search for the last node of the range goes on from there.
LEMMA WithinIs ==
    ASSUME NEW z, NEW ord, GoodList(z, ord), NEW r, NEW l \in 0 .. Len(ord),
           Reaches(HeightsOf(z.levels, ord), l, z.level - 1)
    PROVE  \E f \in 0 .. Len(ord) :
               /\ SearchWithin(z, r, PosAt(ord, l), z.level - 1)[0] = PosAt(ord, f)
               /\ \A lo, hi : RangeCut(z, ord, r, lo, hi) /\ l <= hi => f = hi
<1> DEFINE n == Len(ord)
           G == {b \in 1 .. n : LteMax(Bound(z, r, ord[b]), r)}
           top == z.level - 1
           o == 0
           S == SearchWithin(z, r, PosFrom(ord, o, l), top)
<1>1. n \in Nat /\ top \in Nat /\ o \in 0 .. top /\ z.level \in Nat \ {0}
  BY HeightsAre
<1>2. StartsAt(z, ord, o, G, l, top)
  BY <1>1 DEF StartsAt
<1>3. LetsWithin(z, ord, o, r, G)
  BY DEF LetsWithin
<1>45. ASSUME NEW lo, NEW hi, RangeCut(z, ord, r, lo, hi)
      PROVE  G = 1 .. hi /\ hi \in 0 .. n
  BY <1>1, <1>45 DEF RangeCut
<1>46. o = 0 /\ PosFrom(ord, o, l) = PosAt(ord, l)
  BY DEF PosFrom, PosAt
<1> HIDE DEF o, G
<1>5. DOMAIN S = 0 .. top /\ \A i \in 0 .. top : LeftAt(z, ord, o, G, l, top, i, S[i])
  <2> HIDE DEF top
  <2>1. QED
    BY <1>2, <1>3, SearchWithinIs
<1> HIDE DEF S
<1>6. PICK e \in 0 .. n : S[o] = PosAt(ord, e)
  <2>1. LeftAt(z, ord, o, G, l, top, o, S[o])
    BY <1>1, <1>5
  <2>2. PICK u \in l .. n : S[o] = PosFrom(ord, o, u)
    BY <2>1 DEF LeftAt
  <2>3. u \in 0 .. n /\ u - o = u
    BY <1>1, <1>46, <2>2
  <2>4. QED
    BY <2>2, <2>3 DEF PosFrom, PosAt
<1>9. ASSUME NEW lo, NEW hi, RangeCut(z, ord, r, lo, hi), l <= hi
      PROVE  e = hi
  <2>1. G = 1 .. hi /\ hi \in 0 .. n
    BY <1>9, <1>45
  <2> DEFINE p == hi + 1
  <2>2. p \in 1 .. (Len(ord) + 1) /\ G = 1 .. (p - 1) /\ l \in 0 .. (p - 1) /\ p - 1 = hi
    BY <1>1, <1>9, <2>1
  <2> HIDE DEF p, n
  <2>3. StartsAt(z, ord, o, 1 .. (p - 1), l, top) /\ LeftAt(z, ord, o, 1 .. (p - 1), l, top, o, S[o])
    BY <1>1, <1>2, <1>5, <2>2
  <2>4. PICK u : PrevAt(HeightsOf(z.levels, ord), p, o, u) /\ S[o] = PosFrom(ord, o, u)
    BY <1>1, <2>2, <2>3, LeftPrev
  <2>5. u = hi
    BY <1>46, <2>2, <2>4, PrevZero
  <2>6. PosFrom(ord, o, u).rank = hi - 0 /\ PosAt(ord, e).rank = e
    BY <1>46, <2>5 DEF PosFrom, PosAt
  <2>7. QED
    BY <1>6, <2>1, <2>4, <2>6 DEF n
<1>10. QED
  BY <1>46, <1>6, <1>9 DEF S

\* zslNthInRange from the places of its searches, and what they are for a range.
NthAs(z, r, k, l, e, f, ord) ==
    zslNthInRange(z, r, k)
        = IF ~zslIsInRange(z, r) THEN Nowhere
          ELSE IF k >= 0 THEN NthFromFirst(z, r, k, PosAt(ord, l), PosAt(ord, e))
          ELSE NthFromLast(z, r, k, PosAt(ord, l), PosAt(ord, f))

EdgesFit(z, ord, r, l, e, f) ==
    \A lo, hi : RangeCut(z, ord, r, lo, hi) => l <= lo /\ e = lo /\ (lo <= hi => f = hi)

\* There are such places.
LEMMA NthSplit ==
    ASSUME NEW z, NEW ord, GoodList(z, ord), NEW r, NEW k
    PROVE  \E l, e, f \in 0 .. Len(ord) :
              /\ NthAs(z, r, k, l, e, f, ord) /\ Reaches(HeightsOf(z.levels, ord), l, z.level - 1)
              /\ EdgesFit(z, ord, r, l, e, f)
<1>1. PICK l, e : BelowEdges(z, ord, r, l, e)
  BY BelowIs
<1>2. l \in 0 .. Len(ord) /\ e \in 0 .. Len(ord) /\ Reaches(HeightsOf(z.levels, ord), l, z.level - 1)
  BY <1>1 DEF BelowEdges
<1>3. PICK f \in 0 .. Len(ord) :
               /\ SearchWithin(z, r, PosAt(ord, l), z.level - 1)[0] = PosAt(ord, f)
               /\ \A lo, hi : RangeCut(z, ord, r, lo, hi) /\ l <= hi => f = hi
  BY <1>2, WithinIs
<1>4. NthAs(z, r, k, l, e, f, ord)
  <2>1. /\ SearchBelow(z, r, Start, z.level - 1)[z.level - 1] = PosAt(ord, l)
        /\ SearchBelow(z, r, Start, z.level - 1)[0] = PosAt(ord, e)
    BY <1>1 DEF BelowEdges
  <2>2. zslNthInRange(z, r, k) = IF ~zslIsInRange(z, r) THEN Nowhere ELSE NthFrom(z, r, k, SearchBelow(z, r, Start, z.level - 1))
    BY DEF zslNthInRange, SearchBelow
  <2> DEFINE B == SearchBelow(z, r, Start, z.level - 1)
  <2>3. NthFrom(z, r, k, B) = IF k >= 0 THEN NthFromFirst(z, r, k, B[z.level - 1], B[0])
                              ELSE NthFromLast(z, r, k, B[z.level - 1], SearchWithin(z, r, B[z.level - 1], z.level - 1)[0])
    BY DEF NthFrom, SearchWithin
  <2> HIDE DEF B
  <2>4. B[z.level - 1] = PosAt(ord, l) /\ B[0] = PosAt(ord, e)
    BY <2>1 DEF B
  <2>5. NthFrom(z, r, k, B) = IF k >= 0 THEN NthFromFirst(z, r, k, PosAt(ord, l), PosAt(ord, e))
                              ELSE NthFromLast(z, r, k, PosAt(ord, l), PosAt(ord, f))
    BY <1>3, <2>3, <2>4
  <2>6. QED
    BY <2>2, <2>5 DEF NthAs, B
<1>5. ASSUME NEW lo, NEW hi, RangeCut(z, ord, r, lo, hi)
      PROVE  l <= lo /\ e = lo /\ (lo <= hi => f = hi)
  <2>1. l <= lo /\ e = lo
    BY <1>1, <1>5 DEF BelowEdges
  <2>2. lo \in Int /\ hi \in Int /\ l \in Int
    BY <1>2, <1>5, HeightsAre DEF RangeCut
  <2>3. lo <= hi => l <= hi
    BY <2>1, <2>2
  <2>4. QED
    BY <1>3, <1>5, <2>1, <2>3
<1>6. QED
  BY <1>2, <1>3, <1>4, <1>5 DEF EdgesFit

\* Whatever the bounds are, the answer is a node of the list with its rank, or none.
LEMMA NthOnList ==
    ASSUME NEW z, NEW ord, GoodList(z, ord), NEW r, NEW k \in Int
    PROVE  OnList(ord, zslNthInRange(z, r, k))
<1>1. PICK l, e, f \in 0 .. Len(ord) : NthAs(z, r, k, l, e, f, ord) /\ Reaches(HeightsOf(z.levels, ord), l, z.level - 1)
  BY NthSplit
<1>2. OrderOf(ord, z.score) /\ Len(ord) \in Nat
  BY HeightsAre
<1>3. ASSUME NEW d, NEW x, NEW ok, Target(ord, l, d, x)
      PROVE  OnList(ord, FoundAt(x, d, ok))
  <2>1. d \in 1 .. Len(ord) /\ x \in {NIL, ord[d]}
    BY <1>3 DEF Target
  <2>2. NodeAt(ord, d) = ord[d]
    BY <1>2, <2>1 DEF NodeAt
  <2>3. x = ord[d] => [node |-> x, rank |-> d] = PosAt(ord, d)
    BY <2>2 DEF PosAt
  <2>4. QED
    BY <2>1, <2>3 DEF FoundAt, OnList
<1>4. CASE ~zslIsInRange(z, r)
  BY <1>1, <1>4 DEF NthAs, OnList
<1>5. CASE zslIsInRange(z, r) /\ k >= 0
  <2>1. k \in Nat /\ zslNthInRange(z, r, k) = NthFromFirst(z, r, k, PosAt(ord, l), PosAt(ord, e))
    BY <1>1, <1>5 DEF NthAs
  <2>2. OnList(ord, NthFromFirst(z, r, k, PosAt(ord, l), PosAt(ord, e)))
    BY <1>1, <1>3, <2>1, FromFirstIs DEF OnList
  <2>3. QED
    BY <2>1, <2>2
<1>6. CASE zslIsInRange(z, r) /\ ~(k >= 0)
  <2>1. k < 0 /\ zslNthInRange(z, r, k) = NthFromLast(z, r, k, PosAt(ord, l), PosAt(ord, f))
    BY <1>1, <1>6 DEF NthAs
  <2>2. OnList(ord, NthFromLast(z, r, k, PosAt(ord, l), PosAt(ord, f)))
    BY <1>1, <1>3, <2>1, FromLastIs DEF OnList
  <2>3. QED
    BY <2>1, <2>2
<1>7. QED
  BY <1>4, <1>5, <1>6

\* zslIsInRange is false only when no node is in the range.
LEMMA OutOfRange ==
    ASSUME NEW z, NEW ord, GoodList(z, ord), NEW r, NEW lo, NEW hi, RangeCut(z, ord, r, lo, hi), ~zslIsInRange(z, r)
    PROVE  lo >= hi
<1>1. OrderOf(ord, z.score) /\ Len(ord) \in Nat /\ z.level \in Nat \ {0}
  BY HeightsAre
<1>2. z.tail = IF Len(ord) = 0 THEN NIL ELSE ord[Len(ord)]
  BY DEF GoodList, GoodParts
<1>3. z.forward[HEAD][0] = NodeAt(ord, 1)
  <2> DEFINE o == 0
  <2>1. o \in 0 .. (z.level - 1) /\ o \in 0 .. Len(ord) /\ o \in Int /\ Reaches(HeightsOf(z.levels, ord), o, o)
    BY <1>1 DEF Reaches
  <2> HIDE DEF o
  <2>2. PICK b : HopsTo(z, ord, o, o, o, b)
    BY <2>1, HopIs
  <2>3. NextAt(HeightsOf(z.levels, ord), Len(ord), 0, 0, b) /\ z.forward[NodeAt(ord, 0)][0] = NodeAt(ord, b)
    BY <2>2 DEF HopsTo, o
  <2>4. b = 1
    <3>1. \A c \in 1 .. Len(ord) : HeightsOf(z.levels, ord)[c] \in 1 .. z.level
      BY HeightsAre
    <3>2. b \in 1 .. (Len(ord) + 1) /\ \A c \in 1 .. (b - 1) : HeightsOf(z.levels, ord)[c] <= 0
      BY <1>1, <2>3 DEF NextAt
    <3>3. CASE b # 1
      <4>1. 1 \in 1 .. (b - 1) /\ 1 \in 1 .. Len(ord)
        BY <1>1, <3>2, <3>3
      <4>2. HeightsOf(z.levels, ord)[1] \in 1 .. z.level /\ HeightsOf(z.levels, ord)[1] <= 0
        BY <3>1, <3>2, <4>1
      <4>3. QED
        BY <1>1, <4>2
    <3>4. QED
      BY <3>3
  <2>5. NodeAt(ord, 0) = HEAD
    BY DEF NodeAt
  <2>6. QED
    BY <2>3, <2>4, <2>5
<1>4. lo \in 0 .. Len(ord) /\ hi \in 0 .. Len(ord) /\ (EmptyRange(r) => lo >= hi)
  BY DEF RangeCut
<1>5. CASE EmptyRange(r)
  BY <1>4, <1>5
<1>6. CASE Len(ord) = 0
  BY <1>4, <1>6
<1>7. CASE ~EmptyRange(r) /\ Len(ord) # 0
  <2>1. 1 \in 1 .. Len(ord) /\ Len(ord) \in 1 .. Len(ord)
    BY <1>1, <1>7
  <2>2. NodeAt(ord, 1) = ord[1] /\ ord[1] # NIL /\ ord[Len(ord)] # NIL
    <3>1. ord[1] \in Nat /\ ord[Len(ord)] \in Nat
      BY <1>1, <2>1, OrderIs
    <3>2. QED
      BY <2>1, <3>1 DEF NodeAt, NIL
  <2>3. ~GteMin(Bound(z, r, ord[Len(ord)]), r) \/ ~LteMax(Bound(z, r, ord[1]), r)
    BY <1>2, <1>3, <1>7, <2>2 DEF zslIsInRange
  <2>4. ~(Len(ord) > lo) \/ ~(1 <= hi)
    BY <2>1, <2>3 DEF RangeCut
  <2>5. QED
    BY <1>1, <1>4, <2>4
<1>8. QED
  BY <1>5, <1>6, <1>7

\* The node at an offset of a range.
LEMMA NthIs ==
    ASSUME NEW z, NEW ord, GoodList(z, ord), NEW r, NEW lo, NEW hi, RangeCut(z, ord, r, lo, hi), NEW k \in Int
    PROVE  zslNthInRange(z, r, k) = NthOf(ord, lo, hi, k)
<1>1. PICK l, e, f \in 0 .. Len(ord) :
              /\ NthAs(z, r, k, l, e, f, ord) /\ Reaches(HeightsOf(z.levels, ord), l, z.level - 1)
              /\ EdgesFit(z, ord, r, l, e, f)
  BY NthSplit
<1>2. l <= lo /\ e = lo /\ (lo <= hi => f = hi)
  BY <1>1 DEF EdgesFit
<1>3. OrderOf(ord, z.score) /\ Len(ord) \in Nat /\ lo \in 0 .. Len(ord) /\ hi \in 0 .. Len(ord)
  BY HeightsAre DEF RangeCut
<1>4. CASE ~zslIsInRange(z, r)
  <2>1. lo >= hi
    BY <1>4, OutOfRange
  <2>2. NthOf(ord, lo, hi, k) = Nowhere
    <3>1. CASE k >= 0
      <4>1. ~((lo + k) + 1 <= hi)
        BY <1>3, <2>1, <3>1
      <4>2. QED
        BY <3>1, <4>1 DEF NthOf
    <3>2. CASE ~(k >= 0)
      <4>1. ~((hi + k) + 1 > lo)
        BY <1>3, <2>1, <3>2
      <4>2. QED
        BY <3>2, <4>1 DEF NthOf
    <3>3. QED
      BY <3>1, <3>2
  <2>3. QED
    BY <1>1, <1>4, <2>2 DEF NthAs
<1>5. ASSUME NEW d \in 1 .. Len(ord)
      PROVE  /\ NodeAt(ord, d) = ord[d] /\ ord[d] # NIL /\ [node |-> ord[d], rank |-> d] = PosAt(ord, d)
             /\ GteMin(Bound(z, r, ord[d]), r) <=> d > lo
             /\ LteMax(Bound(z, r, ord[d]), r) <=> d <= hi
  <2>1. ord[d] \in Nat
    BY <1>3, OrderIs
  <2>2. NodeAt(ord, d) = ord[d]
    BY <1>3 DEF NodeAt
  <2>3. QED
    BY <2>1, <2>2 DEF RangeCut, PosAt, NIL
<1>6. CASE zslIsInRange(z, r) /\ k >= 0
  <2> DEFINE d == (lo + k) + 1
  <2>1. k \in Nat /\ zslNthInRange(z, r, k) = NthFromFirst(z, r, k, PosAt(ord, l), PosAt(ord, lo))
    BY <1>1, <1>2, <1>6 DEF NthAs
  <2>2. \/ lo + k >= Len(ord) /\ NthFromFirst(z, r, k, PosAt(ord, l), PosAt(ord, lo)) = Nowhere
        \/ \E x : /\ Target(ord, l, d, x)
                  /\ NthFromFirst(z, r, k, PosAt(ord, l), PosAt(ord, lo)) = FoundAt(x, d, LteMax(Bound(z, r, x), r))
    BY <1>1, <1>3, <2>1, FromFirstIs
  <2>3. NthOf(ord, lo, hi, k) = IF d <= hi THEN PosAt(ord, d) ELSE Nowhere
    BY <1>6 DEF NthOf
  <2>4. CASE lo + k >= Len(ord) /\ NthFromFirst(z, r, k, PosAt(ord, l), PosAt(ord, lo)) = Nowhere
    <3>1. ~(d <= hi)
      BY <1>3, <2>4
    <3>2. QED
      BY <2>1, <2>3, <2>4, <3>1
  <2>5. ASSUME NEW x, Target(ord, l, d, x),
               NthFromFirst(z, r, k, PosAt(ord, l), PosAt(ord, lo)) = FoundAt(x, d, LteMax(Bound(z, r, x), r))
        PROVE  zslNthInRange(z, r, k) = NthOf(ord, lo, hi, k)
    <3>1. l <= d
      BY <1>2, <1>3, <2>1
    <3> HIDE DEF d
    <3>2. x = ord[d] /\ d \in 1 .. Len(ord)
      BY <2>5, <3>1 DEF Target
    <3>3. QED
      BY <1>5, <2>1, <2>3, <2>5, <3>2 DEF FoundAt
  <2>6. QED
    BY <2>2, <2>4, <2>5
<1>7. CASE zslIsInRange(z, r) /\ ~(k >= 0)
  <2>0. lo <= hi
    BY <1>7 DEF RangeCut, zslIsInRange
  <2> DEFINE d == (hi + k) + 1
  <2>1. k < 0 /\ zslNthInRange(z, r, k) = NthFromLast(z, r, k, PosAt(ord, l), PosAt(ord, hi))
    BY <1>1, <1>2, <1>7, <2>0 DEF NthAs
  <2>2. \/ hi + k < 0 /\ NthFromLast(z, r, k, PosAt(ord, l), PosAt(ord, hi)) = Nowhere
        \/ \E x : /\ Target(ord, l, d, x)
                  /\ NthFromLast(z, r, k, PosAt(ord, l), PosAt(ord, hi)) = FoundAt(x, d, GteMin(Bound(z, r, x), r))
    BY <1>1, <1>3, <2>1, FromLastIs
  <2>3. NthOf(ord, lo, hi, k) = IF d > lo THEN PosAt(ord, d) ELSE Nowhere
    BY <1>7 DEF NthOf
  <2>4. CASE hi + k < 0 /\ NthFromLast(z, r, k, PosAt(ord, l), PosAt(ord, hi)) = Nowhere
    <3>1. ~(d > lo)
      BY <1>3, <2>4
    <3>2. QED
      BY <2>1, <2>3, <2>4, <3>1
  <2>5. ASSUME NEW x, Target(ord, l, d, x),
               NthFromLast(z, r, k, PosAt(ord, l), PosAt(ord, hi)) = FoundAt(x, d, GteMin(Bound(z, r, x), r))
        PROVE  zslNthInRange(z, r, k) = NthOf(ord, lo, hi, k)
    <3>0. d \in Int /\ lo \in Int /\ l \in Int
      BY <1>3
    <3> HIDE DEF d
    <3>1. x \in {NIL, ord[d]} /\ (l <= d => x = ord[d]) /\ d \in 1 .. Len(ord)
      BY <2>5 DEF Target
    <3>2. CASE d > lo
      <4>1. x = ord[d]
        BY <1>2, <3>0, <3>1, <3>2
      <4>2. QED
        BY <1>5, <2>1, <2>3, <2>5, <3>1, <3>2, <4>1 DEF FoundAt
    <3>3. CASE ~(d > lo)
      <4>1. ~GteMin(Bound(z, r, ord[d]), r)
        BY <1>5, <3>1, <3>3
      <4>2. FoundAt(x, d, GteMin(Bound(z, r, x), r)) = Nowhere
        BY <3>1, <4>1 DEF FoundAt
      <4>3. QED
        BY <2>1, <2>3, <2>5, <3>3, <4>2
    <3>4. QED
      BY <3>2, <3>3
  <2>6. QED
    BY <2>2, <2>4, <2>5
<1>8. QED
  BY <1>4, <1>6, <1>7

-----------------------------------------------------------------------------
(* The rank of a node. *)

\* Past the last node, after a walk that counts from place a.
Gone(ord, a) == [node |-> NIL, rank |-> Len(ord) - a]

\* One hop by the top level of a node.
TopHop(z, p) == IF p.node = NIL THEN p ELSE Hop(z, p, z.levels[p.node] - 1)

\* It leads to a later node or past the last one.
LEMMA TopHopIs ==
    ASSUME NEW z, NEW ord, GoodList(z, ord), NEW a \in Int, NEW u \in 1 .. Len(ord)
    PROVE  \/ TopHop(z, PosFrom(ord, a, u)) = Gone(ord, a)
           \/ \E b \in (u + 1) .. Len(ord) : TopHop(z, PosFrom(ord, a, u)) = PosFrom(ord, a, b)
<1> DEFINE L == HeightsOf(z.levels, ord)
           n == Len(ord)
           F == z.forward
           P == z.span
           i == z.levels[ord[u]] - 1
<1>1. /\ HeightsUpTo(L, n) /\ n \in Nat /\ z.level \in 1 .. ZSKIPLIST_MAXLEVEL
      /\ ZSKIPLIST_MAXLEVEL \in Nat /\ OrderOf(ord, z.score) /\ \A d \in 1 .. n : L[d] \in 1 .. z.level
  BY HeightsAre
<1>2. NodeAt(ord, u) = ord[u] /\ ord[u] # NIL /\ PosFrom(ord, a, u).node = ord[u]
  BY <1>1, NodesDiffer DEF PosFrom
<1>3. L[u] = z.levels[ord[u]] /\ L[u] \in 1 .. z.level
  BY <1>1 DEF HeightsOf
<1>4. i \in 0 .. (z.level - 1) /\ Reaches(L, u, i) /\ u \in 0 .. n /\ i \in 0 .. (TopOf(L, u) - 1) /\ i < z.level
  BY <1>1, <1>3 DEF Reaches, TopOf
<1>5. TopHop(z, PosFrom(ord, a, u)) = Hop(z, PosFrom(ord, a, u), i)
  BY <1>2 DEF TopHop
<1> HIDE DEF i
<1>6. PICK b : HopsTo(z, ord, a, i, u, b)
  BY <1>4, HopIs
<1>7. CASE b <= n
  <2>1. b \in (u + 1) .. n /\ Hop(z, PosFrom(ord, a, u), i) = PosFrom(ord, a, b)
    BY <1>1, <1>6, <1>7 DEF HopsTo
  <2>2. QED
    BY <1>5, <2>1
<1>8. CASE ~(b <= n)
  <2>0. b \in (u + 1) .. (n + 1) /\ NextAt(L, n, u, i, b)
    BY <1>6 DEF HopsTo
  <2>1. b > n /\ F[NodeAt(ord, u)][i] = NIL
    BY <1>1, <1>6, <1>8, <2>0 DEF HopsTo
  <2>2. zslGetNodeSpanAtLevel(z, NodeAt(ord, u), i) = n - u
    <3>1. CASE i > 0
      <4>1. ColumnAt(F, P, L, ord, z.level, u)
        BY <1>4 DEF GoodList, GoodParts
      <4>2. LinksAt(F, P, L, ord, z.level, u, i)
        BY <1>4, <4>1 DEF ColumnAt
      <4>3. PICK c : NextAt(L, n, u, i, c) /\ (i > 0 => P[NodeAt(ord, u)][i] = IF c <= n THEN c - u
                                                  ELSE IF i < z.level THEN n - u ELSE 0)
        BY <4>2 DEF LinksAt
      <4>4. i \in Nat
        BY <1>1, <1>4
      <4>5. c = b
        BY <1>1, <1>4, <2>0, <4>3, <4>4, NextUnique
      <4>6. P[NodeAt(ord, u)][i] = n - u
        BY <1>4, <1>8, <3>1, <4>3, <4>5
      <4>7. QED
        BY <3>1, <4>6 DEF zslGetNodeSpanAtLevel
    <3>2. CASE i = 0
      <4>1. u = n
        <5>1. SUFFICES ASSUME u # n PROVE FALSE
          OBVIOUS
        <5>2. u + 1 \in (u + 1) .. (b - 1) /\ u + 1 \in 1 .. n
          BY <1>1, <2>0, <2>1, <5>1
        <5>3. L[u + 1] <= 0 /\ L[u + 1] \in 1 .. z.level
          BY <1>1, <2>0, <3>2, <5>2 DEF NextAt
        <5>4. QED
          BY <1>1, <5>3
      <4>2. zslGetNodeSpanAtLevel(z, NodeAt(ord, u), 0) = 0
        BY <2>1, <3>2 DEF zslGetNodeSpanAtLevel
      <4>3. QED
        BY <1>1, <3>2, <4>1, <4>2
    <3>3. QED
      BY <1>1, <1>4, <3>1, <3>2
  <2>3. Hop(z, PosFrom(ord, a, u), i) = [node |-> NIL, rank |-> (u - a) + (n - u)]
    BY <2>1, <2>2 DEF Hop, PosFrom
  <2>4. (u - a) + (n - u) = n - a
    BY <1>1
  <2>5. QED
    BY <1>5, <2>3, <2>4 DEF Gone
<1>9. QED
  BY <1>7, <1>8

\* The positions of zslGetRankByNode.
Fars(far, z, x) ==
    far = [n \in 0 .. z.length |->
              IF n = 0 THEN [node |-> x, rank |-> 0]
              ELSE IF far[n - 1].node = NIL THEN far[n - 1]
                   ELSE Hop(z, far[n - 1], z.levels[far[n - 1].node] - 1)]

\* It is the last of them.
LEMMA FarAt ==
    ASSUME NEW z, NEW x, NEW g, Fars(g, z, x)
    PROVE  \E far : Fars(far, z, x) /\ zslGetRankByNode(z, x) = z.length - far[z.length].rank
<1> DEFINE far == CHOOSE far : Fars(far, z, x)
<1>1. Fars(far, z, x)
  OBVIOUS
<1>2. zslGetRankByNode(z, x) = z.length - far[z.length].rank
  BY DEF zslGetRankByNode, Fars
<1>3. QED
  BY <1>1, <1>2

\* There are such positions.
LEMMA FarsExist ==
    ASSUME NEW z, NEW ord, GoodList(z, ord), NEW a \in 1 .. Len(ord)
    PROVE  \E g : Fars(g, z, ord[a])
<1> DEFINE N == z.length
           D == {PosFrom(ord, a, u) : u \in 1 .. Len(ord)} \cup {Gone(ord, a)}
           f == [m \in (1 .. N) \X D |-> TopHop(z, m[2])]
           s == [node |-> ord[a], rank |-> 0]
<1>1. N \in Nat /\ Len(ord) \in Nat /\ N = Len(ord) /\ OrderOf(ord, z.score)
  BY HeightsAre
<1>2. s = PosFrom(ord, a, a)
  <2>1. NodeAt(ord, a) = ord[a]
    BY <1>1 DEF NodeAt
  <2>2. a - a = 0
    BY <1>1
  <2>3. QED
    BY <2>1, <2>2 DEF PosFrom
<1>3. s \in D
  BY <1>2
<1>4. ASSUME NEW q \in D PROVE TopHop(z, q) \in D
  <2>1. CASE q = Gone(ord, a)
    BY <2>1 DEF Gone, TopHop
  <2>2. ASSUME NEW u \in 1 .. Len(ord), q = PosFrom(ord, a, u) PROVE TopHop(z, q) \in D
    <3>1. a \in Int
      BY <1>1
    <3>2. \/ TopHop(z, q) = Gone(ord, a)
          \/ \E b \in (u + 1) .. Len(ord) : TopHop(z, q) = PosFrom(ord, a, b)
      BY <2>2, <3>1, TopHopIs
    <3>3. \A b \in (u + 1) .. Len(ord) : b \in 1 .. Len(ord)
      BY <1>1
    <3>4. QED
      BY <3>2, <3>3
  <2>3. QED
    BY <2>1, <2>2
<1>5. f \in [(1 .. N) \X D -> D] /\ \A n \in 1 .. N : \A q \in D : f[<<n, q>>] = TopHop(z, q)
  <2> HIDE DEF D, N
  <2>1. QED
    BY <1>4
<1>6. PICK g : Accumulates(g, N, s, f, D)
  <2> HIDE DEF N, D, f, s
  <2>1. QED
    BY <1>1, <1>3, <1>5, RecursionExists
<1>7. g \in [0 .. N -> D] /\ g[0] = s /\ \A n \in 1 .. N : g[n] = f[<<n, g[n - 1]>>]
  BY <1>6 DEF Accumulates
<1> HIDE DEF f, D
<1>8. \A n \in 1 .. N : g[n] = TopHop(z, g[n - 1])
  <2> TAKE n \in 1 .. N
  <2>1. n - 1 \in 0 .. N
    BY <1>1
  <2>2. g[n - 1] \in D
    BY <1>7, <2>1
  <2>3. QED
    BY <1>5, <1>7, <2>2
<1>9. \A n \in 0 .. N : g[n] = IF n = 0 THEN s ELSE IF g[n - 1].node = NIL THEN g[n - 1]
                   ELSE Hop(z, g[n - 1], z.levels[g[n - 1].node] - 1)
  <2> TAKE n \in 0 .. N
  <2>1. n # 0 => n \in 1 .. N
    BY <1>1
  <2>2. QED
    BY <1>7, <1>8, <2>1 DEF TopHop
<1>10. Fars(g, z, ord[a])
  BY <1>7, <1>9 DEF Fars
<1>11. QED
  BY <1>10

\* zslGetRankByNode is the place of the node.
LEMMA RankIs ==
    ASSUME NEW z, NEW ord, GoodList(z, ord), NEW a \in 1 .. Len(ord)
    PROVE  zslGetRankByNode(z, ord[a]) = a
<1> DEFINE n == Len(ord)
<1>1. n \in Nat /\ z.length = n /\ OrderOf(ord, z.score)
  BY HeightsAre
<1>2. PICK far : Fars(far, z, ord[a]) /\ zslGetRankByNode(z, ord[a]) = z.length - far[z.length].rank
  BY FarsExist, FarAt
<1>3. \A k \in 0 .. n : far[k] = IF k = 0 THEN [node |-> ord[a], rank |-> 0] ELSE TopHop(z, far[k - 1])
  BY <1>1, <1>2 DEF Fars, TopHop
<1> DEFINE T == {k \in 0 .. n : far[k] = Gone(ord, a) \/ \E u \in (a + k) .. n : far[k] = PosFrom(ord, a, u)}
<1>4. 0 \in T
  <2>1. NodeAt(ord, a) = ord[a] /\ a - a = 0 /\ a + 0 = a /\ a \in a .. n /\ 0 \in 0 .. n
    BY <1>1 DEF NodeAt
  <2>2. far[0] = PosFrom(ord, a, a)
    BY <1>3, <2>1 DEF PosFrom
  <2>3. QED
    BY <2>1, <2>2
<1>5. ASSUME NEW k \in 0 .. (n - 1), k \in T PROVE k + 1 \in T
  <2>1. k + 1 \in 0 .. n /\ k + 1 # 0 /\ (k + 1) - 1 = k
    BY <1>1
  <2>2. far[k + 1] = TopHop(z, far[k])
    BY <1>3, <2>1
  <2>3. CASE far[k] = Gone(ord, a)
    <3>1. far[k + 1] = Gone(ord, a)
      BY <2>2, <2>3 DEF TopHop, Gone
    <3>2. QED
      BY <2>1, <3>1
  <2>4. ASSUME NEW u \in (a + k) .. n, far[k] = PosFrom(ord, a, u) PROVE k + 1 \in T
    <3>1. a \in Int /\ u \in 1 .. Len(ord)
      BY <1>1
    <3>2. \/ TopHop(z, far[k]) = Gone(ord, a)
          \/ \E b \in (u + 1) .. Len(ord) : TopHop(z, far[k]) = PosFrom(ord, a, b)
      BY <2>4, <3>1, TopHopIs
    <3>3. \A b \in (u + 1) .. n : b \in (a + (k + 1)) .. n
      BY <1>1, <2>4
    <3>4. QED
      BY <2>1, <2>2, <3>2, <3>3
  <2>5. QED
    BY <1>5, <2>3, <2>4
<1>6. \A k \in 0 .. n : k \in T
  <2> HIDE DEF T, n
  <2>1. QED
    BY <1>1, <1>4, <1>5, UpTo
<1>7. n \in T
  BY <1>1, <1>6
<1>8. far[n] = Gone(ord, a)
  <2>1. (a + n) .. n = {}
    BY <1>1
  <2>2. QED
    BY <1>7, <2>1
<1>9. z.length - far[z.length].rank = n - (n - a)
  BY <1>1, <1>8 DEF Gone
<1>10. n - (n - a) = a
  BY <1>1
<1>11. QED
  BY <1>2, <1>9, <1>10

-----------------------------------------------------------------------------
(* The elements as level 0 links them. *)

\* The loop of a walk.
WalkAll(z, b, s) == FoldLeft(LAMBDA q, i : LET x == z.forward[IF q = <<>> THEN HEAD ELSE q[i - 1]][0] IN Append(q, x), b, s)

WalkAllStep(z, acc, x) == Append(acc, z.forward[IF acc = <<>> THEN HEAD ELSE acc[x - 1]][0])

WalkAllRun(g, z, b, s) == g[0] = b /\ \A n \in 1 .. Len(s) : g[n] = WalkAllStep(z, g[n - 1], s[n])

\* Such a loop passes through the values of its accumulator.
LEMMA WalkAllFold ==
    ASSUME NEW z, NEW b, NEW S, NEW s \in Seq(S)
    PROVE  \E g : WalkAllRun(g, z, b, s) /\ WalkAll(z, b, s) = g[Len(s)]
<1> DEFINE N == Len(s)
           Eqn(it, m) == it = [V \in SUBSET (1 .. m) |->
                           IF V = {} THEN b ELSE WalkAllStep(z, it[V \ {Max(V)}], s[Max(V)])]
           T == {m \in 0 .. N : \E it : Eqn(it, m)}
           it == CHOOSE it : Eqn(it, N)
<1>1. N \in Nat /\ DOMAIN s = 1 .. N
  OBVIOUS
<1>2. 0 \in T
  <2>1. SUBSET (1 .. 0) = {{}}
    OBVIOUS
  <2>2. Eqn([V \in SUBSET (1 .. 0) |-> b], 0)
    BY <2>1
  <2>3. QED
    BY <1>1, <2>2
<1>3. ASSUME NEW m \in 0 .. (N - 1), m \in T PROVE m + 1 \in T
  <2>1. PICK f : Eqn(f, m)
    BY <1>3
  <2>2. m \in Nat /\ m + 1 \in 0 .. N /\ m + 1 \in Nat
    BY <1>1
  <2> DEFINE h == [V \in SUBSET (1 .. (m + 1)) |->
                     IF V = {} THEN b ELSE IF m + 1 \in V THEN WalkAllStep(z, f[V \ {m + 1}], s[m + 1]) ELSE f[V]]
  <2>3. f[{}] = b /\ \A V \in SUBSET (1 .. m) : V # {} => f[V] = WalkAllStep(z, f[V \ {Max(V)}], s[Max(V)])
    BY <2>1
  <2>4. ASSUME NEW V \in SUBSET (1 .. m) PROVE h[V] = f[V] /\ V \in SUBSET (1 .. (m + 1)) /\ m + 1 \notin V
    <3>1. V \in SUBSET (1 .. (m + 1)) /\ m + 1 \notin V
      BY <2>2
    <3>2. QED
      BY <2>3, <3>1
  <2> HIDE DEF Eqn
  <2>5. ASSUME NEW V \in SUBSET (1 .. (m + 1)), V # {}
        PROVE  h[V] = WalkAllStep(z, h[V \ {Max(V)}], s[Max(V)])
    <3>1. CASE m + 1 \in V
      <4>1. Max(V) = m + 1
        <5>1. V \in SUBSET Int /\ \A x \in V : m + 1 >= x
          BY <2>2
        <5>2. QED
          BY <3>1, <5>1, MaxIs
      <4>2. V \ {m + 1} \in SUBSET (1 .. m)
        BY <2>2
      <4>3. h[V \ {m + 1}] = f[V \ {m + 1}]
        BY <2>4, <4>2
      <4>4. h[V] = WalkAllStep(z, f[V \ {m + 1}], s[m + 1])
        BY <3>1
      <4>5. QED
        BY <4>1, <4>3, <4>4
    <3>2. CASE m + 1 \notin V
      <4>1. V \in SUBSET (1 .. m)
        BY <2>2, <3>2
      <4>2. V \ {Max(V)} \in SUBSET (1 .. m)
        BY <4>1
      <4>3. h[V] = f[V] /\ h[V \ {Max(V)}] = f[V \ {Max(V)}]
        BY <2>4, <4>1, <4>2
      <4>4. QED
        BY <2>3, <2>5, <4>1, <4>3
    <3>3. QED
      BY <3>1, <3>2
  <2>6. Eqn(h, m + 1)
    <3>1. h[{}] = b
      OBVIOUS
    <3>2. \A V \in SUBSET (1 .. (m + 1)) : h[V] = IF V = {} THEN b ELSE WalkAllStep(z, h[V \ {Max(V)}], s[Max(V)])
      BY <2>5, <3>1
    <3>3. h = [V \in SUBSET (1 .. (m + 1)) |-> h[V]]
      OBVIOUS
    <3> HIDE DEF h
    <3>4. QED
      BY <3>2, <3>3 DEF Eqn
  <2>7. QED
    BY <2>2, <2>6
<1>4. \A m \in 0 .. N : m \in T
  <2> HIDE DEF T, N
  <2>1. QED
    BY <1>1, <1>2, <1>3, UpTo
<1>5. \E f : Eqn(f, N)
  <2>0. N \in 0 .. N
    BY <1>1
  <2>1. N \in T
    <3> HIDE DEF T, N
    <3>1. QED
      BY <1>4, <2>0
  <2>2. QED
    BY <2>1
<1>6. Eqn(it, N)
  <2> HIDE DEF Eqn
  <2>1. QED
    BY <1>5
<1>7. WalkAll(z, b, s) = it[1 .. N]
  BY <1>1 DEF WalkAll, FoldLeft, MapThenFoldSet, WalkAllStep
<1> HIDE DEF it
<1> DEFINE g == [n \in 0 .. N |-> it[1 .. n]]
<1>8. g[0] = b
  <2>1. 1 .. 0 = {} /\ 0 \in 0 .. N
    BY <1>1
  <2>2. QED
    BY <1>6, <2>1
<1>9. ASSUME NEW n \in 1 .. N
      PROVE  g[n] = WalkAllStep(z, g[n - 1], s[n])
  <2>1. /\ 1 .. n \in SUBSET (1 .. N) /\ 1 .. n # {}
        /\ Max(1 .. n) = n /\ (1 .. n) \ {n} = 1 .. (n - 1)
    BY <1>1, MaxOfInitial
  <2>2. it[1 .. n] = WalkAllStep(z, it[(1 .. n) \ {Max(1 .. n)}], s[Max(1 .. n)])
    BY <1>6, <2>1
  <2>3. n \in 0 .. N /\ n - 1 \in 0 .. N
    BY <1>1
  <2>4. g[n] = it[1 .. n] /\ g[n - 1] = it[1 .. (n - 1)]
    BY <2>3
  <2>5. QED
    BY <2>1, <2>2, <2>4
<1>10. g[N] = it[1 .. N]
  BY <1>1
<1> HIDE DEF g
<1>11. QED
  BY <1>7, <1>8, <1>9, <1>10 DEF WalkAllRun

\* A walk meets the nodes in their order.
LEMMA WalkedIs ==
    ASSUME NEW z, NEW ord, GoodList(z, ord)
    PROVE  Walked(z) = ord
<1> DEFINE n == Len(ord)
           q == [i \in 1 .. z.length |-> i]
           V == DOMAIN z.score
<1>1. n \in Nat /\ z.length = n /\ OrderOf(ord, z.score)
  BY HeightsAre
<1>2. ord \in Seq(V) /\ \A a \in 1 .. n : ord[a] \in V
  BY <1>1, OrderIs DEF OrderOf
<1>3. q \in Seq(Nat) /\ Len(q) = n /\ \A i \in 1 .. n : q[i] = i
  BY <1>1
<1>4. Walked(z) = WalkAll(z, <<>>, q)
  BY DEF Walked, WalkAll
<1> HIDE DEF q
<1>5. PICK g : WalkAllRun(g, z, <<>>, q) /\ WalkAll(z, <<>>, q) = g[Len(q)]
  BY <1>3, WalkAllFold
<1>6. g[0] = <<>> /\ \A k \in 1 .. n : g[k] = Append(g[k - 1], z.forward[IF g[k - 1] = <<>> THEN HEAD ELSE g[k - 1][k - 1]][0])
  BY <1>3, <1>5 DEF WalkAllRun, WalkAllStep
<1> DEFINE T == {k \in 0 .. n : g[k] \in Seq(V) /\ Len(g[k]) = k /\ \A i \in 1 .. k : g[k][i] = ord[i]}
<1>7. 0 \in T
  <2>1. g[0] \in Seq(V) /\ Len(g[0]) = 0 /\ 0 \in 0 .. n /\ 1 .. 0 = {}
    BY <1>1, <1>6
  <2>2. QED
    BY <2>1
<1>8. ASSUME NEW k \in 0 .. (n - 1), k \in T PROVE k + 1 \in T
  <2>1. k + 1 \in 1 .. n /\ k + 1 \in 1 .. (n + 1) /\ (k + 1) - 1 = k /\ k \in Nat /\ k + 1 \in 0 .. n
    BY <1>1
  <2>2. g[k] \in Seq(V) /\ Len(g[k]) = k /\ \A i \in 1 .. k : g[k][i] = ord[i]
    BY <1>8
  <2>3. g[k + 1] = Append(g[k], z.forward[IF g[k] = <<>> THEN HEAD ELSE g[k][k]][0])
    BY <1>6, <2>1
  <2>4. (IF g[k] = <<>> THEN HEAD ELSE g[k][k]) = NodeAt(ord, k)
    <3>1. CASE k = 0
      <4>1. g[k] = <<>>
        BY <2>2, <3>1
      <4>2. QED
        BY <3>1, <4>1 DEF NodeAt
    <3>2. CASE k # 0
      <4>1. g[k] # <<>> /\ k \in 1 .. k /\ k <= n
        BY <1>1, <2>1, <2>2, <3>2
      <4>2. QED
        BY <2>2, <3>2, <4>1 DEF NodeAt
    <3>3. QED
      BY <3>1, <3>2
  <2>5. z.forward[NodeAt(ord, k)][0] = ord[k + 1]
    <3> DEFINE p == k + 1
    <3>1. p \in 1 .. (Len(ord) + 1) /\ p - 1 = k
      BY <2>1
    <3> HIDE DEF p
    <3>2. z.forward[NodeAt(ord, p - 1)][0] = NodeAt(ord, p)
      BY <3>1, NextNode
    <3>3. NodeAt(ord, p) = ord[p]
      BY <1>1, <2>1 DEF NodeAt, p
    <3>4. QED
      BY <3>1, <3>2, <3>3 DEF p
  <2>6. g[k + 1] = Append(g[k], ord[k + 1])
    BY <2>3, <2>4, <2>5
  <2>7. ord[k + 1] \in V
    BY <1>2, <2>1
  <2>8. g[k + 1] \in Seq(V) /\ Len(g[k + 1]) = k + 1 /\ \A i \in 1 .. (k + 1) : g[k + 1][i] = ord[i]
    <3> HIDE DEF V, n, T
    <3>1. QED
      BY <2>1, <2>2, <2>6, <2>7
  <2>9. QED
    BY <2>1, <2>8
<1>9. \A k \in 0 .. n : k \in T
  <2> HIDE DEF T, n
  <2>1. QED
    BY <1>1, <1>7, <1>8, UpTo
<1>10. n \in T
  BY <1>1, <1>9
<1>11. g[n] = ord
  <2>1. g[n] \in Seq(V) /\ Len(g[n]) = Len(ord) /\ \A i \in 1 .. Len(g[n]) : g[n][i] = ord[i]
    BY <1>10
  <2> HIDE DEF V, n, T
  <2>2. QED
    BY <1>2, <2>1, SameElements
<1>12. QED
  BY <1>3, <1>4, <1>5, <1>11

-----------------------------------------------------------------------------
(* What the skiplist promises. *)

\* An empty list is sound.
THEOREM ZslCreateIs == ZslSound(zslCreate) /\ DOMAIN zslCreate.score = {}
<1>1. GoodList(zslCreate, <<>>) /\ DOMAIN zslCreate.score = {}
  BY CreateIs
<1>2. QED
  BY <1>1 DEF ZslSound

\* zslInsert links a node of any height in its place: every pointer, span, backward
\* pointer and counter of the list is right afterwards.
THEOREM ZslInsertIs ==
    ASSUME NEW z, ZslSound(z), NEW s \in Int, NEW x \in Nat \ {0}, x \notin DOMAIN z.score, NEW lv \in Levels
    PROVE  /\ ZslSound(zslInsert(z, s, x, lv))
           /\ zslInsert(z, s, x, lv).score = With(z.score, x, s)
           /\ zslInsert(z, s, x, lv).levels = With(z.levels, x, lv)
<1>1. PICK ord : GoodList(z, ord)
  BY DEF ZslSound
<1>2. PICK new : InsertedWell(z, x, s, lv, zslInsert(z, s, x, lv), new)
  BY <1>1, InsertIs
<1>3. QED
  BY <1>2 DEF InsertedWell, ZslSound

\* zslDelete takes the node out of every level, drops the levels that are empty then,
\* and its assertion holds.
THEOREM ZslDeleteIs ==
    ASSUME NEW z, ZslSound(z), NEW x \in DOMAIN z.score
    PROVE  /\ ZslSound(zslDelete(z, x))
           /\ zslDelete(z, x).score = LessOne(z.score, x)
<1>1. PICK ord : GoodList(z, ord)
  BY DEF ZslSound
<1>2. PICK new : DeletedWell(z, x, zslDelete(z, x), new)
  BY <1>1, DeleteIs
<1>3. QED
  BY <1>2 DEF DeletedWell, ZslSound

\* zslUpdateScore leaves the list in order, whether the node stays between its
\* neighbours or is taken out and put in again.
THEOREM ZslUpdateScoreIs ==
    ASSUME NEW z, ZslSound(z), NEW x \in DOMAIN z.score, NEW s \in Int
    PROVE  /\ ZslSound(zslUpdateScore(z, x, s))
           /\ zslUpdateScore(z, x, s).score = With(z.score, x, s)
<1>1. PICK ord : GoodList(z, ord)
  BY DEF ZslSound
<1>2. PICK new : UpdatedWell(z, x, s, zslUpdateScore(z, x, s), new)
  BY <1>1, UpdateIs
<1>3. QED
  BY <1>2 DEF UpdatedWell, ZslSound

\* A list the operations keep sound is the one its scores call for, and no assertion
\* failed.
THEOREM ZslSoundIs ==
    ASSUME NEW z, ZslSound(z)
    PROVE  z.asserts = TRUE /\ LinkedAs(z, Sorted(z.score)) /\ Walked(z) = Sorted(z.score)
<1>1. PICK ord : GoodList(z, ord)
  BY DEF ZslSound
<1>2. LinkedAs(z, ord) /\ Sorted(z.score) = ord /\ z.asserts = TRUE
  BY <1>1, LinkedIs
<1>3. Walked(z) = ord
  BY <1>1, WalkedIs
<1>4. QED
  BY <1>2, <1>3

\* zslGetElementByRank and zslGetRankByNode, which only add up spans, are inverse to
\* each other: the rank of a node is its place in the order.
THEOREM ZslRankIs ==
    ASSUME NEW z, ZslSound(z), NEW a \in 1 .. Len(Sorted(z.score))
    PROVE  /\ zslGetElementByRank(z, a) = Sorted(z.score)[a]
           /\ zslGetRankByNode(z, Sorted(z.score)[a]) = a
<1>1. PICK ord : GoodList(z, ord)
  BY DEF ZslSound
<1>2. Sorted(z.score) = ord
  BY <1>1, LinkedIs
<1>3. zslGetRankByNode(z, ord[a]) = a
  BY <1>1, <1>2, RankIs
<1> DEFINE o == 0
           top == z.level - 1
<1>4. Len(ord) \in Nat /\ z.level \in Nat \ {0}
  BY <1>1, HeightsAre
<1>5. o \in 0 .. Len(ord) /\ top \in 0 .. (z.level - 1) /\ Reaches(HeightsOf(z.levels, ord), o, top) /\ a \in Int
  BY <1>2, <1>4 DEF Reaches
<1>6. NodeAt(ord, o) = HEAD /\ o + a = a /\ a \in 0 .. (Len(ord) - o) /\ NodeAt(ord, a) = ord[a]
  BY <1>2, <1>4 DEF NodeAt
<1>7. zslGetElementByRank(z, a) = zslGetElementByRankFromNode(z, NodeAt(ord, o), top, a)
  BY <1>6 DEF zslGetElementByRank
<1> HIDE DEF o, top
<1>8. zslGetElementByRankFromNode(z, NodeAt(ord, o), top, a)
          = IF a \in 0 .. (Len(ord) - o) THEN NodeAt(ord, o + a) ELSE NIL
  BY <1>1, <1>5, ByRankIs
<1>9. QED
  BY <1>2, <1>3, <1>6, <1>7, <1>8

\* zslNthInRange and zslNthInLexRange find the node at an offset from either end of a
\* range and its rank, step by step or by rank, for any range that is a run of the list.
THEOREM ZslNthInRangeIs ==
    ASSUME NEW z, ZslSound(z), NEW r, NEW lo, NEW hi, RangeCut(z, Sorted(z.score), r, lo, hi), NEW k \in Int
    PROVE  zslNthInRange(z, r, k) = NthOf(Sorted(z.score), lo, hi, k)
<1>1. PICK ord : GoodList(z, ord)
  BY DEF ZslSound
<1>2. Sorted(z.score) = ord
  BY <1>1, LinkedIs
<1>3. RangeCut(z, ord, r, lo, hi)
  BY <1>2
<1>4. QED
  BY <1>1, <1>2, <1>3, NthIs
=============================================================================
