-------------------------- MODULE SortedSetProofs --------------------------
(***************************************************************************)
(* Proofs about SortedSet, for any members, scores, ranges, arguments,     *)
(* heights, hash function and thresholds: whatever commands came before,   *)
(* the handle's object holds exactly the scores those commands should have *)
(* left, as a listpack in order and within its limits or as a skiplist and *)
(* a hash table in step; every command replies what it should; and every   *)
(* query by score, rank, range or member answers from the current members. *)
(*                                                                         *)
(* An object is described by its map from members to scores (Good): the    *)
(* order of the map gives the listpack, or the list that StructureProofs   *)
(* says the skiplist links, and the domain gives the keys of the dict.     *)
(***************************************************************************)
EXTENDS SortedSet, StructureProofs

-----------------------------------------------------------------------------
(* Entries: a sequence of members with the scores of a map. *)

\* The first place of x in s, 0 when it is not there.
PlaceIn(s, x) == LET I == {i \in 1 .. Len(s) : s[i] = x} IN IF I # {} THEN Min(I) ELSE 0

\* The first place, by its definition.
LEMMA PlaceInIs ==
    ASSUME NEW D, NEW s \in Seq(D), NEW x
    PROVE  /\ x \notin ToSet(s) => PlaceIn(s, x) = 0
           /\ x \in ToSet(s) => PlaceIn(s, x) \in 1 .. Len(s) /\ s[PlaceIn(s, x)] = x
           /\ \A i \in 1 .. Len(s) : IsInjective(s) /\ s[i] = x => PlaceIn(s, x) = i
<1> DEFINE I == {i \in 1 .. Len(s) : s[i] = x}
           n == Len(s)
<1>1. n \in Nat /\ DOMAIN s = 1 .. n
  OBVIOUS
<1>2. PlaceIn(s, x) = IF I # {} THEN Min(I) ELSE 0
  BY DEF PlaceIn
<1>3. x \in ToSet(s) <=> I # {}
  BY <1>1 DEF ToSet
<1>4. ASSUME I # {} PROVE Min(I) \in I
  <2>1. I \in SUBSET (0 .. n) /\ I \in SUBSET Int
    BY <1>1
  <2> HIDE DEF I, n
  <2>2. PICK m \in I : \A y \in I : m <= y
    BY <1>1, <1>4, <2>1, LeastOf
  <2>3. Min(I) = m
    BY <2>1, <2>2, MinIs
  <2>4. QED
    BY <2>2, <2>3
<1>5. ASSUME NEW i \in 1 .. Len(s), IsInjective(s), s[i] = x PROVE PlaceIn(s, x) = i
  <2>1. I = {i}
    BY <1>1, <1>5 DEF IsInjective
  <2>2. QED
    BY <1>2, <1>4, <2>1
<1>6. QED
  BY <1>2, <1>3, <1>4, <1>5

PairedFacts(m, s) ==
    /\ DOMAIN Paired(m, s) = 1 .. Len(s) /\ Len(Paired(m, s)) = Len(s)
    /\ Paired(m, s) \in Seq([ele : ToSet(s), score : {m[x] : x \in ToSet(s)}])
    /\ \A i \in 1 .. Len(s) : Paired(m, s)[i] = [ele |-> s[i], score |-> m[s[i]]]
    /\ \A i \in 1 .. Len(s) : Paired(m, s)[i].ele = s[i] /\ Paired(m, s)[i].score = m[s[i]]

\* What the entries are.
LEMMA PairedIs ==
    ASSUME NEW m, NEW D, NEW s \in Seq(D)
    PROVE  PairedFacts(m, s)
<1>1. Len(s) \in Nat /\ DOMAIN s = 1 .. Len(s)
  OBVIOUS
<1>2. \A i \in 1 .. Len(s) : s[i] \in ToSet(s)
  BY <1>1 DEF ToSet
<1>3. Paired(m, s) = [i \in 1 .. Len(s) |-> [ele |-> s[i], score |-> m[s[i]]]]
  BY <1>1 DEF Paired
<1>4. Paired(m, s) \in Seq([ele : ToSet(s), score : {m[x] : x \in ToSet(s)}])
  BY <1>1, <1>2, <1>3
<1>5. QED
  BY <1>1, <1>3, <1>4 DEF PairedFacts

\* Sequences of entries with the same elements.
LEMMA PairedSame ==
    ASSUME NEW m, NEW D, NEW s \in Seq(D), NEW w, DOMAIN w = 1 .. Len(s), w = [i \in DOMAIN w |-> w[i]],
           \A i \in 1 .. Len(s) : w[i] = [ele |-> s[i], score |-> m[s[i]]]
    PROVE  w = Paired(m, s)
<1>1. DOMAIN s = 1 .. Len(s)
  OBVIOUS
<1>2. Paired(m, s) = [i \in 1 .. Len(s) |-> [ele |-> s[i], score |-> m[s[i]]]]
  BY <1>1 DEF Paired
<1>3. QED
  BY <1>2

\* A part of a sequence.
LEMMA SubSeqIs ==
    ASSUME NEW D, NEW s \in Seq(D), NEW a \in Int, NEW b \in Int, a >= 1, b <= Len(s)
    PROVE  /\ SubSeq(s, a, b) \in Seq(D) /\ Len(SubSeq(s, a, b)) = (IF a <= b THEN (b - a) + 1 ELSE 0)
           /\ \A i \in 1 .. ((b - a) + 1) : SubSeq(s, a, b)[i] = s[(a + i) - 1]
           /\ ToSet(SubSeq(s, a, b)) = {s[i] : i \in a .. b}
<1>1. Len(s) \in Nat
  OBVIOUS
<1>2. /\ SubSeq(s, a, b) \in Seq(D) /\ Len(SubSeq(s, a, b)) = (IF a <= b THEN (b - a) + 1 ELSE 0)
      /\ \A i \in 1 .. ((b - a) + 1) : SubSeq(s, a, b)[i] = s[(a + i) - 1]
  BY <1>1
<1> DEFINE u == SubSeq(s, a, b)
<1>3. DOMAIN u = 1 .. Len(u)
  BY <1>2
<1>4. ToSet(u) = {s[i] : i \in a .. b}
  <2>1. ASSUME NEW i \in DOMAIN u PROVE \E j \in a .. b : u[i] = s[j]
    <3>1. i \in 1 .. ((b - a) + 1) /\ (a + i) - 1 \in a .. b
      BY <1>2, <1>3
    <3>2. QED
      BY <1>2, <3>1
  <2>2. ASSUME NEW j \in a .. b PROVE \E i \in DOMAIN u : u[i] = s[j]
    <3>1. (j - a) + 1 \in 1 .. ((b - a) + 1) /\ (a + ((j - a) + 1)) - 1 = j /\ (j - a) + 1 \in DOMAIN u
      BY <1>2, <1>3
    <3>2. QED
      BY <1>2, <3>1
  <2> HIDE DEF u
  <2>3. QED
    BY <2>1, <2>2 DEF ToSet
<1>5. QED
  BY <1>2, <1>4

\* A part of the entries has the entries of a part.
PartOf(m, s, a, b) == SubSeq(Paired(m, s), a, b) = Paired(m, SubSeq(s, a, b))

\* The entries of a part.
LEMMA PairedSub ==
    ASSUME NEW m, NEW D, NEW s \in Seq(D), NEW a \in Int, NEW b \in Int, a >= 1, b <= Len(s)
    PROVE  PartOf(m, s, a, b)
<1> DEFINE u == SubSeq(s, a, b)
           w == SubSeq(Paired(m, s), a, b)
           E == [ele : ToSet(s), score : {m[x] : x \in ToSet(s)}]
<1>1. PairedFacts(m, s)
  BY PairedIs
<1>2. Paired(m, s) \in Seq(E) /\ Len(Paired(m, s)) = Len(s) /\ Len(s) \in Nat
  BY <1>1 DEF PairedFacts
<1>3. u \in Seq(D) /\ Len(u) = (IF a <= b THEN (b - a) + 1 ELSE 0) /\ \A i \in 1 .. ((b - a) + 1) : u[i] = s[(a + i) - 1]
  BY SubSeqIs
<1>4. w \in Seq(E) /\ Len(w) = (IF a <= b THEN (b - a) + 1 ELSE 0) /\ \A i \in 1 .. ((b - a) + 1) : w[i] = Paired(m, s)[(a + i) - 1]
  <2> HIDE DEF E
  <2>1. QED
    BY <1>2, SubSeqIs
<1>5. DOMAIN w = 1 .. Len(u) /\ w = [i \in DOMAIN w |-> w[i]]
  BY <1>3, <1>4
<1>6. ASSUME NEW i \in 1 .. Len(u) PROVE w[i] = [ele |-> u[i], score |-> m[u[i]]]
  <2>1. i \in 1 .. ((b - a) + 1) /\ (a + i) - 1 \in 1 .. Len(s)
    BY <1>2, <1>3
  <2>2. QED
    BY <1>1, <1>3, <1>4, <2>1 DEF PairedFacts
<1> HIDE DEF u, w
<1>7. w = Paired(m, u)
  BY <1>3, <1>5, <1>6, PairedSame
<1>8. QED
  BY <1>7 DEF u, w, PartOf

\* A sequence backwards.
LEMMA ReverseIs ==
    ASSUME NEW D, NEW s \in Seq(D)
    PROVE  /\ Reverse(s) \in Seq(D) /\ Len(Reverse(s)) = Len(s) /\ DOMAIN Reverse(s) = 1 .. Len(s)
           /\ \A i \in 1 .. Len(s) : Reverse(s)[i] = s[(Len(s) - i) + 1]
           /\ ToSet(Reverse(s)) = ToSet(s) /\ Reverse(Reverse(s)) = s
           /\ IsInjective(s) => IsInjective(Reverse(s))
<1> DEFINE n == Len(s)
           u == Reverse(s)
<1>1. n \in Nat /\ DOMAIN s = 1 .. n /\ \A i \in 1 .. n : s[i] \in D
  OBVIOUS
<1>2. u = [i \in 1 .. n |-> s[(n - i) + 1]] /\ \A i \in 1 .. n : (n - i) + 1 \in 1 .. n
  BY <1>1 DEF Reverse
<1>3. u \in Seq(D) /\ Len(u) = n /\ DOMAIN u = 1 .. n /\ \A i \in 1 .. n : u[i] = s[(n - i) + 1]
  BY <1>1, <1>2
<1>4. ToSet(u) = ToSet(s)
  <2>1. \A i \in 1 .. n : u[(n - i) + 1] = s[i]
    BY <1>1, <1>2, <1>3
  <2>2. \A i \in DOMAIN u : u[i] \in ToSet(s)
    BY <1>1, <1>2, <1>3 DEF ToSet
  <2>3. \A i \in DOMAIN s : s[i] \in ToSet(u)
    BY <1>1, <1>2, <1>3, <2>1 DEF ToSet
  <2> HIDE DEF u
  <2>4. QED
    BY <2>2, <2>3 DEF ToSet
<1>5. Reverse(u) = s
  <2>1. Reverse(u) = [i \in 1 .. n |-> u[(n - i) + 1]]
    BY <1>3 DEF Reverse
  <2>2. \A i \in 1 .. n : u[(n - i) + 1] = s[i]
    BY <1>1, <1>2, <1>3
  <2>3. QED
    BY <1>1, <2>1, <2>2
<1>6. IsInjective(s) => IsInjective(u)
  <2>1. SUFFICES ASSUME IsInjective(s), NEW a \in 1 .. n, NEW b \in 1 .. n, u[a] = u[b] PROVE a = b
    BY <1>3 DEF IsInjective
  <2>2. (n - a) + 1 = (n - b) + 1
    BY <1>1, <1>2, <1>3, <2>1 DEF IsInjective
  <2>3. QED
    BY <1>1, <2>2
<1>7. QED
  BY <1>3, <1>4, <1>5, <1>6

\* The entries backwards.
LEMMA PairedReverse ==
    ASSUME NEW m, NEW D, NEW s \in Seq(D)
    PROVE  Reverse(Paired(m, s)) = Paired(m, Reverse(s))
<1> DEFINE n == Len(s)
           u == Reverse(s)
           w == Reverse(Paired(m, s))
<1>1. PairedFacts(m, s) /\ n \in Nat
  BY PairedIs
<1>2. u \in Seq(D) /\ Len(u) = n /\ \A i \in 1 .. n : u[i] = s[(n - i) + 1]
  BY ReverseIs
<1>3. w = [i \in 1 .. n |-> Paired(m, s)[(n - i) + 1]]
  BY <1>1 DEF Reverse, PairedFacts
<1>4. \A i \in 1 .. n : w[i] = [ele |-> u[i], score |-> m[u[i]]]
  BY <1>1, <1>2, <1>3 DEF PairedFacts
<1>5. DOMAIN w = 1 .. Len(u) /\ w = [i \in DOMAIN w |-> w[i]]
  BY <1>2, <1>3
<1> HIDE DEF u, w
<1>6. w = Paired(m, u)
  BY <1>2, <1>4, <1>5, PairedSame
<1>7. QED
  BY <1>6 DEF u, w

\* One entry more.
LEMMA PairedAppend ==
    ASSUME NEW m, NEW D, NEW s \in Seq(D), NEW x \in D
    PROVE  Append(Paired(m, s), [ele |-> x, score |-> m[x]]) = Paired(m, Append(s, x))
<1> DEFINE n == Len(s)
           u == Append(s, x)
           e == [ele |-> x, score |-> m[x]]
           P == Paired(m, s)
           w == Append(P, e)
<1>1. PairedFacts(m, s) /\ n \in Nat
  BY PairedIs
<1>2. u \in Seq(D) /\ Len(u) = n + 1 /\ u[n + 1] = x /\ \A i \in 1 .. n : u[i] = s[i]
  BY <1>1
<1>3. P \in Seq([ele : ToSet(s), score : {m[y] : y \in ToSet(s)}]) /\ Len(P) = n
  BY <1>1 DEF PairedFacts
<1> DEFINE E == [ele : ToSet(s), score : {m[y] : y \in ToSet(s)}] \cup {e}
<1>31. P \in Seq(E) /\ e \in E
  <2> DEFINE E0 == [ele : ToSet(s), score : {m[y] : y \in ToSet(s)}]
  <2>1. P \in Seq(E0)
    BY <1>3
  <2> HIDE DEF E0, P, e
  <2>2. P \in Seq(E0 \cup {e})
    BY <2>1
  <2>3. QED
    BY <2>2 DEF E0
<1>4. DOMAIN w = 1 .. (n + 1) /\ w = [i \in DOMAIN w |-> w[i]] /\ w[n + 1] = e /\ \A i \in 1 .. n : w[i] = P[i]
  <2>1. Len(P) = n /\ n \in Nat
    BY <1>1, <1>3
  <2> HIDE DEF P, e, E, u, n
  <2>2. w \in Seq(E) /\ Len(w) = n + 1 /\ w[n + 1] = e /\ \A i \in 1 .. n : w[i] = P[i]
    BY <1>31, <2>1
  <2> HIDE DEF w
  <2>3. w \in [1 .. (n + 1) -> E]
    BY <2>1, <2>2
  <2>4. QED
    BY <2>2, <2>3
<1>5. \A i \in 1 .. (n + 1) : w[i] = [ele |-> u[i], score |-> m[u[i]]]
  <2>1. \A i \in 1 .. n : w[i] = [ele |-> u[i], score |-> m[u[i]]]
    <3> HIDE DEF u, w
    <3>1. QED
      BY <1>1, <1>2, <1>4 DEF PairedFacts
  <2>2. w[n + 1] = [ele |-> u[n + 1], score |-> m[u[n + 1]]]
    BY <1>2, <1>4
  <2>3. \A i \in 1 .. (n + 1) : i \in 1 .. n \/ i = n + 1
    BY <1>1
  <2> HIDE DEF u, w
  <2>4. QED
    BY <2>1, <2>2, <2>3
<1> HIDE DEF u, w
<1>6. w = Paired(m, u)
  BY <1>2, <1>4, <1>5, PairedSame
<1>7. QED
  BY <1>6 DEF u, w

\* Looking for a member among entries.
LEMMA FindIs ==
    ASSUME NEW m, NEW D, NEW s \in Seq(D), NEW x
    PROVE  zzlFind(Paired(m, s), x) = PlaceIn(s, x) /\ PlaceOf(Paired(m, s), x) = PlaceIn(s, x)
<1> DEFINE P == Paired(m, s)
<1>1. Len(P) = Len(s) /\ \A i \in 1 .. Len(s) : P[i].ele = s[i]
  <2>1. PairedFacts(m, s)
    BY PairedIs
  <2>2. QED
    BY <2>1 DEF PairedFacts
<1>2. zzlFind(P, x) = LET I == {i \in 1 .. Len(P) : P[i].ele = x} IN IF I # {} THEN Min(I) ELSE 0
  BY DEF zzlFind, SelectInSeq
<1>3. PlaceOf(P, x) = LET I == {i \in 1 .. Len(P) : P[i].ele = x} IN IF I # {} THEN Min(I) ELSE 0
  BY DEF PlaceOf, SelectInSeq
<1>4. {i \in 1 .. Len(P) : P[i].ele = x} = {i \in 1 .. Len(s) : s[i] = x}
  BY <1>1
<1>5. QED
  BY <1>2, <1>3, <1>4 DEF PlaceIn

\* The map that entries stand for.
LEMMA OfIs ==
    ASSUME NEW m, NEW D, NEW s \in Seq(D)
    PROVE  Of(Paired(m, s)) = Only(m, ToSet(s)) /\ ElesOf(Paired(m, s)) = ToSet(s)
<1> DEFINE P == Paired(m, s)
<1>1. /\ DOMAIN P = 1 .. Len(s) /\ \A i \in 1 .. Len(s) : P[i].ele = s[i] /\ P[i].score = m[s[i]]
      /\ DOMAIN s = 1 .. Len(s)
  <2>1. PairedFacts(m, s)
    BY PairedIs
  <2>2. QED
    BY <2>1 DEF PairedFacts
<1>2. {P[i].ele : i \in DOMAIN P} = ToSet(s)
  <2> HIDE DEF P
  <2>1. QED
    BY <1>1 DEF ToSet
<1>3. ASSUME NEW x \in ToSet(s) PROVE P[PlaceOf(P, x)].score = m[x]
  <2>1. PlaceOf(P, x) \in 1 .. Len(s) /\ s[PlaceOf(P, x)] = x
    BY FindIs, PlaceInIs
  <2> HIDE DEF P
  <2>2. QED
    BY <1>1, <2>1
<1> HIDE DEF P
<1>4. Of(P) = [x \in ToSet(s) |-> m[x]]
  BY <1>2, <1>3 DEF Of
<1>5. QED
  BY <1>2, <1>4 DEF Only, ElesOf, P

\* A map is what it is on its domain.
LEMMA OnlyAll ==
    ASSUME NEW m, NEW R, m \in [DOMAIN m -> R]
    PROVE  Only(m, DOMAIN m) = m
BY DEF Only

\* Entries of the members of a part of a map.
LEMMA PairedOnly ==
    ASSUME NEW m, NEW K, NEW s \in Seq(K)
    PROVE  Paired(Only(m, K), s) = Paired(m, s)
<1>1. DOMAIN s = 1 .. Len(s) /\ \A i \in 1 .. Len(s) : s[i] \in K
  OBVIOUS
<1>2. \A i \in DOMAIN s : Only(m, K)[s[i]] = m[s[i]]
  BY <1>1 DEF Only
<1>3. QED
  BY <1>2 DEF Paired

-----------------------------------------------------------------------------
(* Score maps. *)

\* A map from members to scores, and its order.
GoodMap(m) == DOMAIN m \subseteq Members /\ OrderOf(Sorted(m), m)

\* A map with an order.
LEMMA MapFrom ==
    ASSUME NEW ord, NEW m, OrderOf(ord, m), DOMAIN m \subseteq Members
    PROVE  GoodMap(m) /\ Sorted(m) = ord
<1>1. Sorted(m) = ord
  BY SortedIs
<1>2. QED
  BY <1>1 DEF GoodMap

\* What a map and its order are.
MapFacts(m) ==
    /\ Sorted(m) \in Seq(DOMAIN m) /\ Len(Sorted(m)) \in Nat /\ DOMAIN Sorted(m) = 1 .. Len(Sorted(m))
    /\ ToSet(Sorted(m)) = DOMAIN m /\ IsInjective(Sorted(m))
    /\ IsFiniteSet(DOMAIN m) /\ Cardinality(DOMAIN m) = Len(Sorted(m))
    /\ m \in [DOMAIN m -> Int] /\ DOMAIN m \subseteq Members /\ DOMAIN m \subseteq Nat \ {0}

\* They follow from the order.
LEMMA MapIs ==
    ASSUME NEW m, GoodMap(m)
    PROVE  MapFacts(m)
<1> DEFINE ord == Sorted(m)
<1>1. OrderOf(ord, m) /\ DOMAIN m \subseteq Members
  BY DEF GoodMap
<1>2. /\ ord \in Seq(DOMAIN m) /\ ToSet(ord) = DOMAIN m /\ m \in [DOMAIN m -> Int] /\ DOMAIN m \subseteq Nat \ {0}
  BY <1>1 DEF OrderOf
<1>3. /\ Len(ord) \in Nat /\ DOMAIN ord = 1 .. Len(ord)
      /\ \A a, b \in 1 .. Len(ord) : ord[a] = ord[b] => a = b
  BY <1>1, OrderIs
<1>4. IsInjective(ord)
  BY <1>3 DEF IsInjective
<1> HIDE DEF ord
<1>5. IsFiniteSet(ToSet(ord)) /\ Cardinality(ToSet(ord)) = Len(ord)
  BY <1>2, <1>4, DistinctCount
<1>6. QED
  BY <1>1, <1>2, <1>3, <1>4, <1>5 DEF MapFacts, ord

\* The map without members.
LEMMA EmptyMap ==
    ASSUME NEW m, DOMAIN m = {}, m \in [DOMAIN m -> Int]
    PROVE  GoodMap(m) /\ Sorted(m) = <<>>
<1>1. <<>> \in Seq(DOMAIN m) /\ Len(<<>>) = 0 /\ DOMAIN <<>> = {}
  OBVIOUS
<1>2. ToSet(<<>>) = {}
  BY <1>1 DEF ToSet
<1>3. OrderOf(<<>>, m)
  BY <1>1, <1>2 DEF OrderOf
<1>4. QED
  BY <1>3, MapFrom

\* The place of a new member.
LEMMA SpotOf ==
    ASSUME NEW m, GoodMap(m), NEW x \in Members, x \notin DOMAIN m, NEW s \in Int
    PROVE  \E p \in 1 .. (Len(Sorted(m)) + 1) :
              /\ SpotIs([score |-> m], Sorted(m), s, x, p)
              /\ GoodMap(With(m, x, s)) /\ Sorted(With(m, x, s)) = InsertedAt(Sorted(m), p - 1, x)
<1> DEFINE z == [score |-> m]
           ord == Sorted(m)
<1>1. z.score = m /\ OrderOf(ord, z.score) /\ DOMAIN m \subseteq Members
  BY DEF GoodMap
<1>2. x \in Nat \ {0} /\ x \in Int
  BY SortedSetAssumption DEF HEAD
<1> HIDE DEF z, ord
<1>3. PICK p : SpotIs(z, ord, s, x, p)
  BY <1>1, <1>2, SpotExists
<1>4. OrderOf(InsertedAt(ord, p - 1, x), With(z.score, x, s))
  BY <1>1, <1>2, <1>3, OrderOpened
<1>5. DOMAIN With(m, x, s) \subseteq Members
  BY <1>1 DEF With
<1>6. GoodMap(With(m, x, s)) /\ Sorted(With(m, x, s)) = InsertedAt(ord, p - 1, x)
  BY <1>1, <1>4, <1>5, MapFrom
<1>7. p \in 1 .. (Len(ord) + 1)
  BY <1>3 DEF SpotIs
<1>8. QED
  BY <1>3, <1>6, <1>7 DEF z, ord

\* A map without one of its members.
LEMMA LessOneIs ==
    ASSUME NEW m, GoodMap(m), NEW a \in 1 .. Len(Sorted(m)), NEW x, x = Sorted(m)[a]
    PROVE  GoodMap(LessOne(m, x)) /\ Sorted(LessOne(m, x)) = DeletedAt(Sorted(m), a - 1)
<1>1. OrderOf(Sorted(m), m) /\ DOMAIN m \subseteq Members
  BY DEF GoodMap
<1>2. OrderOf(DeletedAt(Sorted(m), a - 1), LessOne(m, x))
  BY <1>1, OrderClosed
<1>3. DOMAIN LessOne(m, x) \subseteq Members
  BY <1>1 DEF LessOne
<1>4. QED
  BY <1>2, <1>3, MapFrom

\* The place of a member.
LEMMA PlaceOfMember ==
    ASSUME NEW m, GoodMap(m), NEW x
    PROVE  /\ x \in DOMAIN m => PlaceIn(Sorted(m), x) \in 1 .. Len(Sorted(m)) /\ Sorted(m)[PlaceIn(Sorted(m), x)] = x
           /\ x \notin DOMAIN m => PlaceIn(Sorted(m), x) = 0
           /\ \A a \in 1 .. Len(Sorted(m)) : PlaceIn(Sorted(m), Sorted(m)[a]) = a /\ Sorted(m)[a] \in DOMAIN m
<1>1. /\ Sorted(m) \in Seq(DOMAIN m) /\ ToSet(Sorted(m)) = DOMAIN m /\ IsInjective(Sorted(m))
  BY MapIs DEF MapFacts
<1>2. \A a \in 1 .. Len(Sorted(m)) : Sorted(m)[a] \in DOMAIN m
  BY <1>1
<1>3. QED
  BY <1>1, <1>2, PlaceInIs

\* Another score, or another member.
LEMMA WithGood ==
    ASSUME NEW m, GoodMap(m), NEW x \in Members, NEW s \in Int
    PROVE  GoodMap(With(m, x, s)) /\ (x \in DOMAIN m => With(m, x, s) = With(LessOne(m, x), x, s))
<1>1. CASE x \notin DOMAIN m
  BY <1>1, SpotOf
<1>2. CASE x \in DOMAIN m
  <2>1. GoodMap(LessOne(m, x))
    BY <1>2, PlaceOfMember, LessOneIs
  <2>2. x \notin DOMAIN LessOne(m, x)
    BY DEF LessOne
  <2>3. GoodMap(With(LessOne(m, x), x, s))
    BY <2>1, <2>2, SpotOf
  <2>4. With(m, x, s) = With(LessOne(m, x), x, s)
    BY <1>2 DEF With, LessOne
  <2>5. QED
    BY <2>3, <2>4
<1>3. QED
  BY <1>1, <1>2

\* Put and Without, in the words of the skiplist.
LEMMA PutIs ==
    ASSUME NEW m, NEW x, NEW s
    PROVE  Put(m, x, s) = With(m, x, s) /\ Without(m, {x}) = LessOne(m, x)
BY DEF Put, With, Without, Only, LessOne

\* A map on the first elements of a sequence.
LEMMA MapOfSeq ==
    ASSUME NEW M, NEW keys \in Seq(Members), \A x \in ToSet(keys) : M[x] \in Int
    PROVE  \A n \in 0 .. Len(keys) : GoodMap(Only(M, First(keys, n)))
<1> DEFINE N == Len(keys)
           T == {n \in 0 .. N : GoodMap(Only(M, First(keys, n)))}
<1>1. N \in Nat /\ DOMAIN keys = 1 .. N
  OBVIOUS
<1>2. /\ First(keys, 0) = {}
      /\ \A k \in 1 .. N : First(keys, k) = First(keys, k - 1) \cup {keys[k]} /\ keys[k] \in Members
  BY FirstIs
<1>3. 0 \in T
  <2>1. DOMAIN Only(M, First(keys, 0)) = {} /\ Only(M, First(keys, 0)) \in [DOMAIN Only(M, First(keys, 0)) -> Int]
    BY <1>2 DEF Only
  <2>2. GoodMap(Only(M, First(keys, 0)))
    BY <2>1, EmptyMap
  <2>3. QED
    BY <1>1, <2>2
<1>4. ASSUME NEW n \in 0 .. (N - 1), n \in T PROVE n + 1 \in T
  <2>1. n + 1 \in 1 .. N /\ n + 1 \in 0 .. N /\ (n + 1) - 1 = n
    BY <1>1
  <2> DEFINE A == First(keys, n)
             x == keys[n + 1]
  <2>2. First(keys, n + 1) = A \cup {x} /\ x \in Members /\ GoodMap(Only(M, A))
    BY <1>2, <1>4, <2>1
  <2>3. M[x] \in Int
    BY <1>1, <2>1 DEF ToSet
  <2> HIDE DEF A, x
  <2>4. Only(M, A \cup {x}) = With(Only(M, A), x, M[x])
    BY DEF Only, With
  <2>5. GoodMap(With(Only(M, A), x, M[x]))
    BY <2>2, <2>3, WithGood
  <2>6. QED
    BY <2>1, <2>2, <2>4, <2>5
<1>5. \A n \in 0 .. N : n \in T
  <2> HIDE DEF T, N
  <2>1. QED
    BY <1>1, <1>3, <1>4, UpTo
<1>6. QED
  BY <1>5

\* A part of a map.
LEMMA OnlyGood ==
    ASSUME NEW M, NEW K, IsFiniteSet(K), K \subseteq Members, \A x \in K : M[x] \in Int
    PROVE  GoodMap(Only(M, K))
<1>1. PICK n \in Nat : ExistsBijection(1 .. n, K)
  BY FS_CardinalityType
<1>2. PICK f : f \in Bijection(1 .. n, K)
  BY <1>1 DEF ExistsBijection
<1>3. f \in [1 .. n -> K] /\ \A x \in K : \E i \in 1 .. n : f[i] = x
  BY <1>2 DEF Bijection, Injection, Surjection
<1>4. f \in Seq(Members) /\ Len(f) = n /\ DOMAIN f = 1 .. n
  BY <1>3
<1>5. ToSet(f) = K
  BY <1>3 DEF ToSet
<1>6. First(f, n) = K
  BY <1>4, <1>5, FirstIs
<1>7. GoodMap(Only(M, First(f, n)))
  <2>1. n \in 0 .. Len(f)
    BY <1>4
  <2>2. QED
    BY <1>4, <1>5, <2>1, MapOfSeq
<1>8. QED
  BY <1>6, <1>7

-----------------------------------------------------------------------------
(* Objects. *)

\* z holds the map m, and its dict is paused p times.
Good(z, m, p) ==
    /\ GoodMap(m)
    /\ \/ z = Listpack(Paired(m, Sorted(m))) /\ p = 0
       \/ \E l, d : /\ z = SkiplistOf(l, d) /\ GoodList(l, Sorted(m)) /\ l.score = m
                    /\ GoodDict(d, DOMAIN m) /\ d.pauseAutoResize = p

\* A listpack.
LEMMA GoodListpack ==
    ASSUME NEW m, GoodMap(m)
    PROVE  Good(Listpack(Paired(m, Sorted(m))), m, 0)
BY DEF Good

\* A skiplist with its dict.
LEMMA GoodSkiplist ==
    ASSUME NEW m, DOMAIN m \subseteq Members, NEW l, NEW new, GoodList(l, new), l.score = m,
           NEW d, GoodDict(d, DOMAIN m), NEW p, d.pauseAutoResize = p
    PROVE  Good(SkiplistOf(l, d), m, p) /\ GoodMap(m)
<1>1. OrderOf(new, m)
  BY DEF GoodList, GoodParts
<1>2. GoodMap(m) /\ Sorted(m) = new
  BY <1>1, MapFrom
<1>3. QED
  BY <1>2 DEF Good

\* The fields of the two kinds of objects.
LEMMA FieldsOfObject ==
    ASSUME NEW lp, NEW l, NEW d
    PROVE  /\ Listpack(lp).encoding = "listpack" /\ Listpack(lp).lp = lp
           /\ Listpack(lp).zsl = zslCreate /\ Listpack(lp).dict = dictCreate(TRUE)
           /\ SkiplistOf(l, d).encoding = "skiplist" /\ SkiplistOf(l, d).lp = <<>>
           /\ SkiplistOf(l, d).zsl = l /\ SkiplistOf(l, d).dict = d
BY DEF Listpack, SkiplistOf

\* The two kinds of sound objects.
IsListpack(z, m, p) ==
    /\ z = Listpack(Paired(m, Sorted(m))) /\ z.encoding = "listpack" /\ z.encoding # "skiplist"
    /\ z.lp = Paired(m, Sorted(m)) /\ p = 0 /\ z.zsl = zslCreate /\ z.dict = dictCreate(TRUE)

IsSkiplist(z, m, p) ==
    /\ z = SkiplistOf(z.zsl, z.dict) /\ z.encoding = "skiplist" /\ z.encoding # "listpack" /\ z.lp = <<>>
    /\ GoodList(z.zsl, Sorted(m)) /\ z.zsl.score = m /\ GoodDict(z.dict, DOMAIN m)
    /\ z.dict.pauseAutoResize = p

\* A sound object is of one kind or the other.
LEMMA GoodCases ==
    ASSUME NEW z, NEW m, NEW p, Good(z, m, p)
    PROVE  GoodMap(m) /\ MapFacts(m) /\ (IsListpack(z, m, p) \/ IsSkiplist(z, m, p))
<1>1. GoodMap(m) /\ MapFacts(m)
  BY MapIs DEF Good
<1>2. CASE z = Listpack(Paired(m, Sorted(m))) /\ p = 0
  BY <1>1, <1>2, FieldsOfObject DEF IsListpack
<1>3. ASSUME NEW l, NEW d, z = SkiplistOf(l, d), GoodList(l, Sorted(m)), l.score = m,
             GoodDict(d, DOMAIN m), d.pauseAutoResize = p
      PROVE  IsSkiplist(z, m, p)
  <2>1. z.encoding = "skiplist" /\ z.lp = <<>> /\ z.zsl = l /\ z.dict = d
    BY <1>3 DEF SkiplistOf
  <2>2. QED
    BY <1>3, <2>1 DEF IsSkiplist
<1>4. QED
  BY <1>1, <1>2, <1>3 DEF Good

\* A new dict is not paused.
LEMMA NewDict == GoodDict(dictCreate(TRUE), {}) /\ dictCreate(TRUE).pauseAutoResize = 0
<1>1. GoodDict(dictCreate(TRUE), {})
  BY DictCreateIs
<1>2. dictCreate(TRUE).pauseAutoResize = 0
  BY DEF dictCreate
<1>3. QED
  BY <1>1, <1>2

\* The members and scores of an object, from first to last.
LEMMA WalkOf ==
    ASSUME NEW z, NEW m, NEW p, Good(z, m, p)
    PROVE  /\ Walk(z) = Paired(m, Sorted(m)) /\ zsetLength(z) = Len(Sorted(m))
           /\ zsetLength(z) = Cardinality(DOMAIN m) /\ zsetLength(z) \in Nat
           /\ Of(Walk(z)) = m /\ ElesOf(Walk(z)) = DOMAIN m
           /\ z.dict.pauseAutoResize = p
<1>1. MapFacts(m) /\ (IsListpack(z, m, p) \/ IsSkiplist(z, m, p))
  BY GoodCases
<1> DEFINE ord == Sorted(m)
<1>2. ord \in Seq(DOMAIN m) /\ Len(ord) \in Nat /\ DOMAIN ord = 1 .. Len(ord)
  BY <1>1 DEF MapFacts
<1>3. PairedFacts(m, ord)
  BY <1>2, PairedIs
<1>4. Walk(z) = Paired(m, ord) /\ zsetLength(z) = Len(ord) /\ z.dict.pauseAutoResize = p
  <2>1. CASE IsListpack(z, m, p)
    <3>1. Len(Paired(m, ord)) = Len(ord)
      BY <1>3 DEF PairedFacts
    <3>2. QED
      BY <2>1, <3>1, NewDict DEF IsListpack, Walk, zsetLength
  <2>2. CASE IsSkiplist(z, m, p)
    <3>1. GoodList(z.zsl, ord) /\ z.zsl.score = m /\ z.encoding = "skiplist"
      BY <2>2 DEF IsSkiplist
    <3>2. Walked(z.zsl) = ord
      BY <3>1, WalkedIs
    <3>3. z.zsl.length = Len(ord)
      BY <3>1, HeightsAre
    <3>4. Walk(z) = [i \in 1 .. Len(ord) |-> [ele |-> ord[i], score |-> m[ord[i]]]]
      BY <3>1, <3>2, <3>3 DEF Walk
    <3>5. Paired(m, ord) = [i \in 1 .. Len(ord) |-> [ele |-> ord[i], score |-> m[ord[i]]]]
      BY <1>2 DEF Paired
    <3>6. zsetLength(z) = Len(ord)
      BY <3>1, <3>3 DEF zsetLength
    <3>7. QED
      BY <2>2, <3>4, <3>5, <3>6 DEF IsSkiplist
  <2>3. QED
    BY <1>1, <2>1, <2>2
<1>5. Of(Paired(m, ord)) = Only(m, ToSet(ord)) /\ ElesOf(Paired(m, ord)) = ToSet(ord)
  BY <1>2, OfIs
<1>6. Only(m, DOMAIN m) = m
  BY <1>1, OnlyAll DEF MapFacts
<1>7. QED
  BY <1>1, <1>4, <1>5, <1>6 DEF MapFacts

\* A sound object's skiplist and dict are what the invariants ask for.
LEMMA SoundOf ==
    ASSUME NEW z, NEW m, NEW p, Good(z, m, p)
    PROVE  /\ z.zsl.asserts = TRUE /\ LinkedAs(z.zsl, Sorted(z.zsl.score))
           /\ z.dict.asserts = TRUE /\ WellPlaced(z.dict) /\ Holds(z.dict, Nodes(z.zsl))
<1>1. IsListpack(z, m, p) \/ IsSkiplist(z, m, p)
  BY GoodCases
<1>2. \E ord : GoodList(z.zsl, ord) /\ GoodDict(z.dict, DOMAIN z.zsl.score)
  <2>1. CASE IsListpack(z, m, p)
    <3>1. GoodList(zslCreate, <<>>) /\ DOMAIN zslCreate.score = {}
      BY CreateIs
    <3>2. z.zsl = zslCreate /\ z.dict = dictCreate(TRUE)
      BY <2>1 DEF IsListpack
    <3>3. QED
      BY <3>1, <3>2, NewDict
  <2>2. CASE IsSkiplist(z, m, p)
    BY <2>2 DEF IsSkiplist
  <2>3. QED
    BY <1>1, <2>1, <2>2
<1>3. PICK ord : GoodList(z.zsl, ord) /\ GoodDict(z.dict, DOMAIN z.zsl.score)
  BY <1>2
<1>4. LinkedAs(z.zsl, ord) /\ Sorted(z.zsl.score) = ord /\ z.zsl.asserts = TRUE
  BY <1>3, LinkedIs
<1>5. WellPlaced(z.dict) /\ Holds(z.dict, DOMAIN z.zsl.score) /\ z.dict.asserts = TRUE
  BY <1>3, DictSoundIs
<1>6. QED
  BY <1>4, <1>5 DEF Nodes

-----------------------------------------------------------------------------
(* Listpacks. *)

\* zzlInsert keeps the order.
LEMMA ZzlInsertIs ==
    ASSUME NEW m, GoodMap(m), NEW x \in Members, x \notin DOMAIN m, NEW s \in Int
    PROVE  zzlInsert(Paired(m, Sorted(m)), x, s) = Paired(With(m, x, s), Sorted(With(m, x, s)))
<1> DEFINE ord == Sorted(m)
           P == Paired(m, ord)
           M == With(m, x, s)
           e == [ele |-> x, score |-> s]
<1>1. PICK p \in 1 .. (Len(ord) + 1) :
              /\ SpotIs([score |-> m], ord, s, x, p)
              /\ GoodMap(M) /\ Sorted(M) = InsertedAt(ord, p - 1, x)
  BY SpotOf
<1>2. MapFacts(m)
  BY MapIs
<1>3. ord \in Seq(DOMAIN m) /\ Len(ord) \in Nat /\ x \in Int /\ \A i \in 1 .. Len(ord) : ord[i] \in DOMAIN m /\ ord[i] \in Nat /\ m[ord[i]] \in Int
  BY <1>2, SortedSetAssumption DEF MapFacts
<1>4. PairedFacts(m, ord)
  BY <1>3, PairedIs
<1>5. Len(P) = Len(ord) /\ DOMAIN P = 1 .. Len(ord) /\ \A i \in 1 .. Len(ord) : P[i].ele = ord[i] /\ P[i].score = m[ord[i]]
  BY <1>4 DEF PairedFacts
<1> DEFINE I == {i \in 1 .. Len(P) : P[i].score > s \/ (P[i].score = s /\ P[i].ele > x)}
<1>6. I = p .. Len(ord)
  <2>1. \A c \in 1 .. Len(ord) : After([score |-> m], s, x, ord[c]) <=> c < p
    BY <1>1 DEF SpotIs
  <2>2. ASSUME NEW c \in 1 .. Len(ord)
        PROVE  (m[ord[c]] > s \/ (m[ord[c]] = s /\ ord[c] > x)) <=> c >= p
    <3>1. (s > m[ord[c]] \/ (s = m[ord[c]] /\ x > ord[c])) <=> c < p
      BY <1>3, <2>1 DEF After, NIL
    <3>2. ord[c] # x /\ c \in Int /\ p \in Int
      BY <1>3
    <3>3. QED
      BY <1>3, <3>1, <3>2
  <2>3. QED
    BY <1>3, <1>5, <2>2
<1>7. zzlInsert(P, x, s) = InsertAt(P, p, e)
  <2>1. zzlInsert(P, x, s)
          = InsertAt(P, IF (IF I # {} THEN Min(I) ELSE 0) = 0 THEN Len(P) + 1 ELSE (IF I # {} THEN Min(I) ELSE 0), e)
    BY DEF zzlInsert, SelectInSeq
  <2>2. CASE p <= Len(ord)
    <3>1. p \in I /\ I \in SUBSET Int /\ \A y \in I : p <= y
      <4> HIDE DEF I
      <4>1. QED
        BY <1>3, <1>6, <2>2
    <3> HIDE DEF I
    <3>2. Min(I) = p /\ I # {}
      BY <3>1, MinIs
    <3>3. p # 0
      OBVIOUS
    <3>4. QED
      BY <2>1, <3>2, <3>3
  <2>3. CASE p = Len(ord) + 1
    <3>1. I = {}
      BY <1>3, <1>6, <2>3
    <3> HIDE DEF I
    <3>2. QED
      BY <1>5, <2>1, <2>3, <3>1
  <2>4. QED
    BY <1>3, <2>2, <2>3
<1> DEFINE E == [ele : ToSet(ord), score : {m[y] : y \in ToSet(ord)}] \cup {e}
<1>8. P \in Seq(E) /\ e \in E
  <2> DEFINE E0 == [ele : ToSet(ord), score : {m[y] : y \in ToSet(ord)}]
  <2>1. P \in Seq(E0)
    BY <1>4 DEF PairedFacts
  <2> HIDE DEF E0, P, e
  <2>2. P \in Seq(E0 \cup {e})
    BY <2>1
  <2>3. QED
    BY <2>2 DEF E0
<1>9. InsertAt(P, p, e) = InsertedAt(P, p - 1, e)
  <2>1. p - 1 \in 0 .. Len(P) /\ (p - 1) + 1 = p
    BY <1>3, <1>5
  <2> HIDE DEF P, e, E
  <2>2. InsertAt(P, (p - 1) + 1, e) = InsertedAt(P, p - 1, e)
    BY <1>8, <2>1, InsertAtIs
  <2>3. QED
    BY <2>1, <2>2
<1> DEFINE u == InsertedAt(ord, p - 1, x)
           w == InsertedAt(P, p - 1, e)
           S == DOMAIN m \cup {x}
<1>10. u \in Seq(S) /\ Len(u) = Len(ord) + 1
  <2>1. ord \in Seq(S) /\ x \in S /\ p - 1 \in 0 .. Len(ord)
    BY <1>3
  <2> HIDE DEF ord, S
  <2>2. QED
    BY <2>1, InsertedType
<1>11. DOMAIN w = 1 .. Len(u) /\ w = [i \in DOMAIN w |-> w[i]]
  BY <1>5, <1>10 DEF InsertedAt
<1>12. ASSUME NEW i \in 1 .. Len(u) PROVE w[i] = [ele |-> u[i], score |-> M[u[i]]]
  <2>1. i \in 1 .. (Len(ord) + 1) /\ i \in 1 .. (Len(P) + 1)
    BY <1>5, <1>10
  <2>2. /\ u[i] = IF i <= p - 1 THEN ord[i] ELSE IF i = (p - 1) + 1 THEN x ELSE ord[i - 1]
        /\ w[i] = IF i <= p - 1 THEN P[i] ELSE IF i = (p - 1) + 1 THEN e ELSE P[i - 1]
    BY <2>1 DEF InsertedAt
  <2>3. M[x] = s /\ \A y \in DOMAIN m : M[y] = m[y]
    BY DEF With
  <2>4. \A j \in 1 .. Len(ord) : P[j] = [ele |-> ord[j], score |-> M[ord[j]]]
    BY <1>3, <1>4, <2>3 DEF PairedFacts
  <2>5. i <= p - 1 => i \in 1 .. Len(ord)
    BY <1>3
  <2>6. i > p - 1 /\ i # (p - 1) + 1 => i - 1 \in 1 .. Len(ord)
    BY <1>3, <2>1
  <2> HIDE DEF u, w, M, P
  <2>7. QED
    BY <2>2, <2>3, <2>4, <2>5, <2>6
<1> HIDE DEF u, w, M, S
<1>13. w = Paired(M, u)
  BY <1>10, <1>11, <1>12, PairedSame
<1>14. QED
  BY <1>1, <1>7, <1>9, <1>13 DEF u, w, M

\* zzlDelete keeps it too.
LEMMA ZzlDeleteIs ==
    ASSUME NEW m, GoodMap(m), NEW x \in DOMAIN m
    PROVE  /\ zzlFind(Paired(m, Sorted(m)), x) > 0
           /\ Paired(m, Sorted(m))[zzlFind(Paired(m, Sorted(m)), x)].score = m[x]
           /\ zzlDelete(Paired(m, Sorted(m)), x) = Paired(LessOne(m, x), Sorted(LessOne(m, x)))
           /\ GoodMap(LessOne(m, x))
<1> DEFINE ord == Sorted(m)
           P == Paired(m, ord)
           M == LessOne(m, x)
           a == PlaceIn(ord, x)
<1>1. MapFacts(m)
  BY MapIs
<1>2. ord \in Seq(DOMAIN m) /\ Len(ord) \in Nat /\ IsInjective(ord) /\ DOMAIN ord = 1 .. Len(ord)
  BY <1>1 DEF MapFacts
<1>3. a \in 1 .. Len(ord) /\ ord[a] = x
  BY PlaceOfMember
<1>4. GoodMap(M) /\ Sorted(M) = DeletedAt(ord, a - 1)
  BY <1>3, LessOneIs
<1>5. PairedFacts(m, ord)
  BY <1>2, PairedIs
<1>6. Len(P) = Len(ord) /\ \A i \in 1 .. Len(ord) : P[i] = [ele |-> ord[i], score |-> m[ord[i]]] /\ P[i].score = m[ord[i]]
  BY <1>5 DEF PairedFacts
<1>7. zzlFind(P, x) = a
  BY <1>2, FindIs
<1>8. zzlDelete(P, x) = RemoveAt(P, a)
  BY <1>7 DEF zzlDelete
<1> DEFINE E == [ele : ToSet(ord), score : {m[y] : y \in ToSet(ord)}]
<1>9. P \in Seq(E)
  BY <1>5 DEF PairedFacts
<1>10. RemoveAt(P, a) = DeletedAt(P, a - 1)
  <2> HIDE DEF P, E, a, ord
  <2>1. QED
    BY <1>3, <1>6, <1>9, RemoveAtIs
<1> DEFINE u == DeletedAt(ord, a - 1)
           w == DeletedAt(P, a - 1)
<1>11. u \in Seq(DOMAIN m) /\ Len(u) = Len(ord) - 1
  <2>1. a - 1 \in 0 .. (Len(ord) - 1)
    BY <1>2, <1>3
  <2> HIDE DEF ord, a
  <2>2. QED
    BY <1>2, <2>1, DeletedType
<1>12. DOMAIN w = 1 .. Len(u) /\ w = [i \in DOMAIN w |-> w[i]]
  BY <1>6, <1>11 DEF DeletedAt
<1>13. ASSUME NEW i \in 1 .. Len(u) PROVE w[i] = [ele |-> u[i], score |-> M[u[i]]]
  <2>1. i \in 1 .. (Len(ord) - 1) /\ i \in 1 .. (Len(P) - 1) /\ i \in 1 .. Len(ord) /\ i + 1 \in 1 .. Len(ord)
    BY <1>2, <1>6, <1>11
  <2>2. /\ u[i] = (IF i <= a - 1 THEN ord[i] ELSE ord[i + 1])
        /\ w[i] = IF i <= a - 1 THEN P[i] ELSE P[i + 1]
    BY <2>1 DEF DeletedAt
  <2>3. u[i] \in DOMAIN m /\ u[i] # x
    <3>1. i <= a - 1 => i # a
      BY <1>3, <2>1
    <3>2. ~(i <= a - 1) => i + 1 # a
      BY <1>3, <2>1
    <3>3. ord[i] \in DOMAIN m /\ ord[i + 1] \in DOMAIN m
      BY <1>2, <2>1
    <3>4. \A j \in 1 .. Len(ord) : j # a => ord[j] # x
      BY <1>2, <1>3 DEF IsInjective
    <3> HIDE DEF u, w, P, a, ord
    <3>5. QED
      BY <2>1, <2>2, <3>1, <3>2, <3>3, <3>4
  <2>4. M[u[i]] = m[u[i]]
    <3> HIDE DEF u
    <3>1. QED
      BY <2>3 DEF LessOne
  <2> HIDE DEF u, w, P, a, ord, M
  <2>5. QED
    BY <1>6, <2>1, <2>2, <2>4
<1> HIDE DEF u, w, M
<1>14. w = Paired(M, u)
  BY <1>11, <1>12, <1>13, PairedSame
<1>15. P[a].score = m[x] /\ a > 0
  <2>1. P[a].score = m[ord[a]]
    <3> HIDE DEF P, a
    <3>1. QED
      BY <1>3, <1>6
  <2>2. a > 0
    <3> HIDE DEF a
    <3>1. QED
      BY <1>3
  <2>3. QED
    BY <1>3, <2>1, <2>2
<1> HIDE DEF a
<1>16. QED
  BY <1>4, <1>7, <1>8, <1>10, <1>14, <1>15 DEF u, w, M

-----------------------------------------------------------------------------
(* One member. *)

\* A map without a member it does not have.
LEMMA LessNone ==
    ASSUME NEW m, m \in [DOMAIN m -> Int], NEW x, x \notin DOMAIN m
    PROVE  LessOne(m, x) = m
<1>1. DOMAIN m \ {x} = DOMAIN m
  OBVIOUS
<1>2. QED
  BY <1>1 DEF LessOne

\* zsetDel takes the member out of both structures.
LEMMA DelIs ==
    ASSUME NEW z, NEW m, NEW p, Good(z, m, p), NEW x \in Members
    PROVE  Good(zsetDel(z, x), Without(m, {x}), p) /\ zsetDel(z, x).encoding = z.encoding
<1>1. GoodMap(m) /\ MapFacts(m) /\ (IsListpack(z, m, p) \/ IsSkiplist(z, m, p))
  BY GoodCases
<1>2. Without(m, {x}) = LessOne(m, x) /\ (x \notin DOMAIN m => LessOne(m, x) = m)
  <2>1. m \in [DOMAIN m -> Int]
    BY <1>1 DEF MapFacts
  <2>2. QED
    BY <2>1, PutIs, LessNone
<1>3. CASE IsListpack(z, m, p)
  <2>1. z.encoding = "listpack" /\ z.encoding # "skiplist" /\ z.lp = Paired(m, Sorted(m)) /\ p = 0
    BY <1>3 DEF IsListpack
  <2>2. CASE x \in DOMAIN m
    <3>1. zsetDel(z, x) = Listpack(Paired(LessOne(m, x), Sorted(LessOne(m, x)))) /\ GoodMap(LessOne(m, x))
      BY <1>1, <2>1, <2>2, ZzlDeleteIs DEF zsetDel
    <3>2. Good(zsetDel(z, x), LessOne(m, x), p)
      BY <2>1, <3>1, GoodListpack
    <3>3. zsetDel(z, x).encoding = "listpack"
      BY <3>1 DEF Listpack
    <3>4. QED
      BY <1>2, <2>1, <3>2, <3>3
  <2>3. CASE x \notin DOMAIN m
    <3>1. Sorted(m) \in Seq(DOMAIN m)
      BY <1>1 DEF MapFacts
    <3>2. zzlFind(z.lp, x) = 0
      BY <1>1, <2>1, <2>3, <3>1, FindIs, PlaceOfMember
    <3>3. zsetDel(z, x) = z
      BY <2>1, <3>2 DEF zsetDel
    <3>4. QED
      BY <1>2, <2>3, <3>3
  <2>4. QED
    BY <2>2, <2>3
<1>4. CASE IsSkiplist(z, m, p)
  <2> DEFINE l == z.zsl
             d == z.dict
             r == dictGenericDelete(d, x)
  <2>1. /\ z.encoding = "skiplist" /\ GoodList(l, Sorted(m)) /\ l.score = m /\ GoodDict(d, DOMAIN m)
        /\ d.pauseAutoResize = p
    BY <1>4 DEF IsSkiplist
  <2>2. x \in DOMAIN Hash
    BY SortedSetAssumption
  <2>3. Deleted(r, d, DOMAIN m, x)
    BY <2>1, <2>2, DictDeleteIs
  <2>4. GoodDict(r.dict, DOMAIN m \ {x}) /\ r.dict.pauseAutoResize = p /\ (r.found # NoLink <=> x \in DOMAIN m)
    BY <2>1, <2>3 DEF Deleted, Becomes
  <2>5. zsetDel(z, x) = SkiplistOf(IF r.found # NoLink THEN zslDelete(l, x) ELSE l, r.dict)
    BY <2>1 DEF zsetDel, zsetRemoveFromSkiplist, RemoveUnlinked
  <2>6. DOMAIN LessOne(m, x) = DOMAIN m \ {x} /\ DOMAIN LessOne(m, x) \subseteq Members
    BY <1>1 DEF LessOne, MapFacts
  <2> HIDE DEF l, d, r
  <2>7. CASE x \in DOMAIN m
    <3>1. PICK new : DeletedWell(l, x, zslDelete(l, x), new)
      BY <2>1, <2>7, DeleteIs
    <3>2. GoodList(zslDelete(l, x), new) /\ zslDelete(l, x).score = LessOne(m, x)
      BY <2>1, <3>1 DEF DeletedWell
    <3>3. Good(SkiplistOf(zslDelete(l, x), r.dict), LessOne(m, x), p)
      BY <2>4, <2>6, <3>2, GoodSkiplist
    <3>4. zsetDel(z, x) = SkiplistOf(zslDelete(l, x), r.dict)
      BY <2>4, <2>5, <2>7
    <3>5. zsetDel(z, x).encoding = "skiplist"
      BY <3>4 DEF SkiplistOf
    <3>6. QED
      BY <1>2, <2>1, <3>3, <3>4, <3>5
  <2>8. CASE x \notin DOMAIN m
    <3>1. zsetDel(z, x) = SkiplistOf(l, r.dict) /\ DOMAIN m \ {x} = DOMAIN m /\ LessOne(m, x) = m
      BY <1>2, <2>4, <2>5, <2>8
    <3>2. Good(SkiplistOf(l, r.dict), m, p)
      BY <2>1, <2>4, <2>6, <3>1, GoodSkiplist
    <3>3. zsetDel(z, x).encoding = "skiplist"
      BY <3>1 DEF SkiplistOf
    <3>4. QED
      BY <1>2, <2>1, <3>1, <3>2, <3>3
  <2>9. QED
    BY <2>7, <2>8
<1>5. QED
  BY <1>1, <1>3, <1>4

\* Another dict with the same members.
LEMMA OtherDict ==
    ASSUME NEW z, NEW m, NEW p, IsSkiplist(z, m, p), DOMAIN m \subseteq Members,
           NEW d, GoodDict(d, DOMAIN m), NEW q, d.pauseAutoResize = q
    PROVE  /\ [z EXCEPT !.dict = d] = SkiplistOf(z.zsl, d) /\ Good([z EXCEPT !.dict = d], m, q)
           /\ [z EXCEPT !.dict = d].encoding = "skiplist"
<1>1. z = SkiplistOf(z.zsl, z.dict) /\ GoodList(z.zsl, Sorted(m)) /\ z.zsl.score = m
  BY DEF IsSkiplist
<1>2. [z EXCEPT !.dict = d] = SkiplistOf(z.zsl, d)
  BY <1>1 DEF SkiplistOf
<1>3. Good(SkiplistOf(z.zsl, d), m, q)
  BY <1>1, GoodSkiplist
<1>4. SkiplistOf(z.zsl, d).encoding = "skiplist"
  BY DEF SkiplistOf
<1>5. QED
  BY <1>2, <1>3, <1>4

\* Pausing.
LEMMA PauseGood ==
    ASSUME NEW z, NEW m, NEW p, Good(z, m, p)
    PROVE  /\ Good(Pause(z), m, IF z.encoding = "skiplist" THEN p + 1 ELSE p)
           /\ Pause(z).encoding = z.encoding
<1>1. MapFacts(m) /\ (IsListpack(z, m, p) \/ IsSkiplist(z, m, p))
  BY GoodCases
<1>2. CASE IsListpack(z, m, p)
  <2>1. z.encoding # "skiplist"
    BY <1>2 DEF IsListpack
  <2>2. QED
    BY <2>1 DEF Pause
<1>3. CASE IsSkiplist(z, m, p)
  <2>1. z.encoding = "skiplist" /\ GoodDict(z.dict, DOMAIN m) /\ z.dict.pauseAutoResize = p
    BY <1>3 DEF IsSkiplist
  <2> DEFINE d == dictPauseAutoResize(z.dict)
  <2>2. GoodDict(d, DOMAIN m) /\ d.pauseAutoResize = p + 1
    BY <2>1, DictPauseIs
  <2>3. Pause(z) = [z EXCEPT !.dict = d]
    BY <2>1 DEF Pause
  <2>4. DOMAIN m \subseteq Members
    BY <1>1 DEF MapFacts
  <2> HIDE DEF d
  <2>5. QED
    BY <1>3, <2>1, <2>2, <2>3, <2>4, OtherDict
<1>4. QED
  BY <1>1, <1>2, <1>3

\* Resuming, and the shrinking that was put off.
LEMMA ResumeGood ==
    ASSUME NEW z, NEW m, NEW p \in Int, Good(z, m, p), z.encoding = "skiplist" => p > 0
    PROVE  /\ Good(Resume(z), m, IF z.encoding = "skiplist" THEN p - 1 ELSE p)
           /\ Resume(z).encoding = z.encoding
<1>1. MapFacts(m) /\ (IsListpack(z, m, p) \/ IsSkiplist(z, m, p))
  BY GoodCases
<1>2. CASE IsListpack(z, m, p)
  <2>1. z.encoding # "skiplist"
    BY <1>2 DEF IsListpack
  <2>2. QED
    BY <2>1 DEF Resume
<1>3. CASE IsSkiplist(z, m, p)
  <2>1. z.encoding = "skiplist" /\ GoodDict(z.dict, DOMAIN m) /\ z.dict.pauseAutoResize = p
    BY <1>3 DEF IsSkiplist
  <2> DEFINE e == dictResumeAutoResize(z.dict)
             d == dictShrinkIfNeeded(e)
  <2>2. GoodDict(e, DOMAIN m) /\ e.pauseAutoResize = p - 1
    BY <2>1, DictPauseIs
  <2>3. GoodDict(d, DOMAIN m) /\ d.pauseAutoResize = p - 1
    <3> HIDE DEF e
    <3>1. Becomes(d, e, DOMAIN m)
      BY <2>2, ShrinkIfNeededIs
    <3>2. QED
      BY <2>2, <3>1 DEF Becomes
  <2>4. Resume(z) = [z EXCEPT !.dict = d]
    BY <2>1 DEF Resume
  <2>5. DOMAIN m \subseteq Members
    BY <1>1 DEF MapFacts
  <2> HIDE DEF d, e
  <2>6. QED
    BY <1>3, <2>1, <2>3, <2>4, <2>5, OtherDict
<1>4. QED
  BY <1>1, <1>2, <1>3

\* A new member in both structures.
LEMMA InsertBothIs ==
    ASSUME NEW z, NEW m, Good(z, m, 0), z.encoding = "skiplist", NEW x \in Members, x \notin DOMAIN m,
           NEW s \in Int, NEW lv, lv[x] \in Levels
    PROVE  Good(InsertBoth(z, x, s, lv), With(m, x, s), 0) /\ InsertBoth(z, x, s, lv).encoding = "skiplist"
<1> DEFINE l == z.zsl
           d == z.dict
           k == zslInsert(l, s, x, lv[x])
           e == dictAdd(d, x)
<1>1. MapFacts(m) /\ IsSkiplist(z, m, 0)
  BY GoodCases DEF IsListpack
<1>2. GoodList(l, Sorted(m)) /\ l.score = m /\ GoodDict(d, DOMAIN m) /\ d.pauseAutoResize = 0
  BY <1>1 DEF IsSkiplist
<1>3. x \in DOMAIN Hash /\ x \in Nat \ {0}
  BY SortedSetAssumption DEF HEAD
<1>4. GoodDict(e, DOMAIN m \cup {x}) /\ e.pauseAutoResize = 0
  <2>1. Becomes(e, d, DOMAIN m \cup {x})
    BY <1>2, <1>3, DictAddIs
  <2>2. QED
    BY <1>2, <2>1 DEF Becomes
<1>5. \E new : InsertedWell(l, x, s, lv[x], k, new)
  BY <1>2, <1>3, InsertIs
<1>6. PICK new : GoodList(k, new) /\ k.score = With(m, x, s)
  BY <1>2, <1>5 DEF InsertedWell
<1>7. DOMAIN With(m, x, s) = DOMAIN m \cup {x} /\ DOMAIN With(m, x, s) \subseteq Members
  BY <1>1 DEF With, MapFacts
<1>8. InsertBoth(z, x, s, lv) = SkiplistOf(k, e)
  BY DEF InsertBoth
<1>9. SkiplistOf(k, e).encoding = "skiplist"
  BY DEF SkiplistOf
<1> HIDE DEF k, e
<1>10. Good(SkiplistOf(k, e), With(m, x, s), 0)
  BY <1>4, <1>6, <1>7, GoodSkiplist
<1>11. QED
  BY <1>8, <1>9, <1>10

-----------------------------------------------------------------------------
(* Entries, one after the other. *)

\* The loop of zsetConvertAndExpand and of the store commands.
InsertAll(lv, b, s) == FoldLeft(LAMBDA y, e : InsertBoth(y, e.ele, e.score, lv), b, s)

InsertAllStep(lv, acc, x) == InsertBoth(acc, x.ele, x.score, lv)

InsertAllRun(g, lv, b, s) == g[0] = b /\ \A n \in 1 .. Len(s) : g[n] = InsertAllStep(lv, g[n - 1], s[n])

\* Such a loop passes through the values of its accumulator.
LEMMA InsertAllFold ==
    ASSUME NEW lv, NEW b, NEW S, NEW s \in Seq(S)
    PROVE  \E g : InsertAllRun(g, lv, b, s) /\ InsertAll(lv, b, s) = g[Len(s)]
<1> DEFINE N == Len(s)
           Eqn(it, m) == it = [V \in SUBSET (1 .. m) |->
                           IF V = {} THEN b ELSE InsertAllStep(lv, it[V \ {Max(V)}], s[Max(V)])]
           T == {m \in 0 .. N : \E it : Eqn(it, m)}
           it == CHOOSE it : Eqn(it, N)
<1>1. N \in Nat /\ DOMAIN s = 1 .. N
  OBVIOUS
<1>2. 0 \in T
  <2>1. SUBSET (1 .. 0) = {{}}
    OBVIOUS
  <2>2. Eqn([V \in SUBSET (1 .. 0) |-> b], 0)
    BY <2>1
  <2>3. QED
    BY <1>1, <2>2
<1>3. ASSUME NEW m \in 0 .. (N - 1), m \in T PROVE m + 1 \in T
  <2>1. PICK f : Eqn(f, m)
    BY <1>3
  <2>2. m \in Nat /\ m + 1 \in 0 .. N /\ m + 1 \in Nat
    BY <1>1
  <2> DEFINE h == [V \in SUBSET (1 .. (m + 1)) |->
                     IF V = {} THEN b ELSE IF m + 1 \in V THEN InsertAllStep(lv, f[V \ {m + 1}], s[m + 1]) ELSE f[V]]
  <2>3. f[{}] = b /\ \A V \in SUBSET (1 .. m) : V # {} => f[V] = InsertAllStep(lv, f[V \ {Max(V)}], s[Max(V)])
    BY <2>1
  <2>4. ASSUME NEW V \in SUBSET (1 .. m) PROVE h[V] = f[V] /\ V \in SUBSET (1 .. (m + 1)) /\ m + 1 \notin V
    <3>1. V \in SUBSET (1 .. (m + 1)) /\ m + 1 \notin V
      BY <2>2
    <3>2. QED
      BY <2>3, <3>1
  <2> HIDE DEF Eqn
  <2>5. ASSUME NEW V \in SUBSET (1 .. (m + 1)), V # {}
        PROVE  h[V] = InsertAllStep(lv, h[V \ {Max(V)}], s[Max(V)])
    <3>1. CASE m + 1 \in V
      <4>1. Max(V) = m + 1
        <5>1. V \in SUBSET Int /\ \A x \in V : m + 1 >= x
          BY <2>2
        <5>2. QED
          BY <3>1, <5>1, MaxIs
      <4>2. V \ {m + 1} \in SUBSET (1 .. m)
        BY <2>2
      <4>3. h[V \ {m + 1}] = f[V \ {m + 1}]
        BY <2>4, <4>2
      <4>4. h[V] = InsertAllStep(lv, f[V \ {m + 1}], s[m + 1])
        BY <3>1
      <4>5. QED
        BY <4>1, <4>3, <4>4
    <3>2. CASE m + 1 \notin V
      <4>1. V \in SUBSET (1 .. m)
        BY <2>2, <3>2
      <4>2. V \ {Max(V)} \in SUBSET (1 .. m)
        BY <4>1
      <4>3. h[V] = f[V] /\ h[V \ {Max(V)}] = f[V \ {Max(V)}]
        BY <2>4, <4>1, <4>2
      <4>4. QED
        BY <2>3, <2>5, <4>1, <4>3
    <3>3. QED
      BY <3>1, <3>2
  <2>6. Eqn(h, m + 1)
    <3>1. h[{}] = b
      OBVIOUS
    <3>2. \A V \in SUBSET (1 .. (m + 1)) : h[V] = IF V = {} THEN b ELSE InsertAllStep(lv, h[V \ {Max(V)}], s[Max(V)])
      BY <2>5, <3>1
    <3>3. h = [V \in SUBSET (1 .. (m + 1)) |-> h[V]]
      OBVIOUS
    <3> HIDE DEF h
    <3>4. QED
      BY <3>2, <3>3 DEF Eqn
  <2>7. QED
    BY <2>2, <2>6
<1>4. \A m \in 0 .. N : m \in T
  <2> HIDE DEF T, N
  <2>1. QED
    BY <1>1, <1>2, <1>3, UpTo
<1>5. \E f : Eqn(f, N)
  <2>0. N \in 0 .. N
    BY <1>1
  <2>1. N \in T
    <3> HIDE DEF T, N
    <3>1. QED
      BY <1>4, <2>0
  <2>2. QED
    BY <2>1
<1>6. Eqn(it, N)
  <2> HIDE DEF Eqn
  <2>1. QED
    BY <1>5
<1>7. InsertAll(lv, b, s) = it[1 .. N]
  BY <1>1 DEF InsertAll, FoldLeft, MapThenFoldSet, InsertAllStep
<1> HIDE DEF it
<1> DEFINE g == [n \in 0 .. N |-> it[1 .. n]]
<1>8. g[0] = b
  <2>1. 1 .. 0 = {} /\ 0 \in 0 .. N
    BY <1>1
  <2>2. QED
    BY <1>6, <2>1
<1>9. ASSUME NEW n \in 1 .. N
      PROVE  g[n] = InsertAllStep(lv, g[n - 1], s[n])
  <2>1. /\ 1 .. n \in SUBSET (1 .. N) /\ 1 .. n # {}
        /\ Max(1 .. n) = n /\ (1 .. n) \ {n} = 1 .. (n - 1)
    BY <1>1, MaxOfInitial
  <2>2. it[1 .. n] = InsertAllStep(lv, it[(1 .. n) \ {Max(1 .. n)}], s[Max(1 .. n)])
    BY <1>6, <2>1
  <2>3. n \in 0 .. N /\ n - 1 \in 0 .. N
    BY <1>1
  <2>4. g[n] = it[1 .. n] /\ g[n - 1] = it[1 .. (n - 1)]
    BY <2>3
  <2>5. QED
    BY <2>1, <2>2, <2>4
<1>10. g[N] = it[1 .. N]
  BY <1>1
<1> HIDE DEF g
<1>11. QED
  BY <1>7, <1>8, <1>9, <1>10 DEF InsertAllRun

\* The sets of members that a loop over keys has met.
LEMMA NextKey ==
    ASSUME NEW M, NEW keys \in Seq(Members), NEW n \in 0 .. (Len(keys) - 1)
    PROVE  /\ Only(M, First(keys, n + 1)) = With(Only(M, First(keys, n)), keys[n + 1], M[keys[n + 1]])
           /\ n + 1 \in 1 .. Len(keys) /\ n + 1 \in 0 .. Len(keys) /\ (n + 1) - 1 = n
           /\ keys[n + 1] \in Members /\ keys[n + 1] \in ToSet(keys)
           /\ IsInjective(keys) => keys[n + 1] \notin First(keys, n)
<1>1. Len(keys) \in Nat /\ DOMAIN keys = 1 .. Len(keys) /\ n + 1 \in 1 .. Len(keys) /\ n + 1 \in 0 .. Len(keys) /\ (n + 1) - 1 = n
  OBVIOUS
<1>2. First(keys, n + 1) = First(keys, n) \cup {keys[n + 1]} /\ keys[n + 1] \in Members
  BY <1>1, FirstIs
<1>3. IsInjective(keys) => keys[n + 1] \notin First(keys, n)
  BY <1>1 DEF IsInjective, First
<1>4. keys[n + 1] \in ToSet(keys)
  BY <1>1 DEF ToSet
<1>5. Only(M, First(keys, n) \cup {keys[n + 1]}) = With(Only(M, First(keys, n)), keys[n + 1], M[keys[n + 1]])
  BY DEF Only, With
<1>6. QED
  BY <1>1, <1>2, <1>3, <1>4, <1>5

\* Distinct entries into an empty skiplist.
LEMMA InsertAllIs ==
    ASSUME NEW b, NEW none, DOMAIN none = {}, Good(b, none, 0), b.encoding = "skiplist",
           NEW M, NEW keys \in Seq(Members), IsInjective(keys), \A x \in ToSet(keys) : M[x] \in Int,
           NEW lv, \A x \in ToSet(keys) : lv[x] \in Levels
    PROVE  /\ Good(InsertAll(lv, b, Paired(M, keys)), Only(M, ToSet(keys)), 0)
           /\ InsertAll(lv, b, Paired(M, keys)).encoding = "skiplist"
<1> DEFINE N == Len(keys)
           s == Paired(M, keys)
           E == [ele : ToSet(keys), score : {M[x] : x \in ToSet(keys)}]
           K(n) == Only(M, First(keys, n))
<1>1. N \in Nat
  OBVIOUS
<1>2. PairedFacts(M, keys)
  BY PairedIs
<1>3. s \in Seq(E) /\ Len(s) = N /\ \A i \in 1 .. N : s[i].ele = keys[i] /\ s[i].score = M[keys[i]]
  BY <1>2 DEF PairedFacts
<1>4. PICK g : InsertAllRun(g, lv, b, s) /\ InsertAll(lv, b, s) = g[Len(s)]
  <2> HIDE DEF s, E
  <2>1. QED
    BY <1>3, InsertAllFold
<1>5. g[0] = b /\ \A n \in 1 .. N : g[n] = InsertBoth(g[n - 1], keys[n], M[keys[n]], lv)
  <2> HIDE DEF s
  <2>1. QED
    BY <1>3, <1>4 DEF InsertAllRun, InsertAllStep
<1> DEFINE T == {n \in 0 .. N : Good(g[n], K(n), 0) /\ g[n].encoding = "skiplist"}
<1>6. 0 \in T
  <2>1. First(keys, 0) = {}
    BY FirstIs
  <2>2. MapFacts(none)
    BY GoodCases
  <2>3. none = K(0)
    BY <2>1, <2>2 DEF MapFacts, Only
  <2>4. QED
    BY <1>1, <1>5, <2>3
<1>7. ASSUME NEW n \in 0 .. (N - 1), n \in T PROVE n + 1 \in T
  <2> DEFINE x == keys[n + 1]
  <2>1. /\ K(n + 1) = With(K(n), x, M[x]) /\ n + 1 \in 1 .. N /\ n + 1 \in 0 .. N /\ (n + 1) - 1 = n
        /\ x \in Members /\ x \in ToSet(keys) /\ x \notin First(keys, n)
    BY NextKey
  <2>2. g[n + 1] = InsertBoth(g[n], x, M[x], lv)
    BY <1>5, <2>1
  <2>3. Good(g[n], K(n), 0) /\ g[n].encoding = "skiplist"
    BY <1>7
  <2>4. x \notin DOMAIN K(n) /\ M[x] \in Int /\ lv[x] \in Levels
    BY <2>1 DEF Only
  <2> HIDE DEF x, K
  <2>5. Good(InsertBoth(g[n], x, M[x], lv), With(K(n), x, M[x]), 0) /\ InsertBoth(g[n], x, M[x], lv).encoding = "skiplist"
    BY <2>1, <2>3, <2>4, InsertBothIs
  <2>6. QED
    BY <2>1, <2>2, <2>5
<1>8. \A n \in 0 .. N : n \in T
  <2> HIDE DEF T, N
  <2>1. QED
    BY <1>1, <1>6, <1>7, UpTo
<1>9. N \in T
  <2>1. N \in 0 .. N
    BY <1>1
  <2> HIDE DEF T, N
  <2>2. QED
    BY <1>8, <2>1
<1>10. First(keys, N) = ToSet(keys)
  BY FirstIs
<1>11. QED
  BY <1>3, <1>4, <1>9, <1>10

\* An empty skiplist, its dict sized for some members.
LEMMA EmptySkiplist ==
    ASSUME NEW cap \in Nat
    PROVE  /\ Good(SkiplistOf(zslCreate, dictExpand(dictCreate(TRUE), cap)), zslCreate.score, 0)
           /\ Good(SkiplistOf(zslCreate, dictCreate(TRUE)), zslCreate.score, 0)
           /\ DOMAIN zslCreate.score = {}
<1>1. GoodList(zslCreate, <<>>) /\ DOMAIN zslCreate.score = {}
  BY CreateIs
<1> DEFINE d == dictExpand(dictCreate(TRUE), cap)
<1>2. GoodDict(d, {}) /\ d.pauseAutoResize = 0
  <2>1. Becomes(d, dictCreate(TRUE), {})
    BY NewDict, DictExpandIs
  <2>2. QED
    BY <2>1, NewDict DEF Becomes
<1> HIDE DEF d
<1>3. Good(SkiplistOf(zslCreate, d), zslCreate.score, 0)
  BY <1>1, <1>2, GoodSkiplist
<1>4. Good(SkiplistOf(zslCreate, dictCreate(TRUE)), zslCreate.score, 0)
  BY <1>1, NewDict, GoodSkiplist
<1>5. QED
  BY <1>1, <1>3, <1>4 DEF d

\* zsetConvertAndExpand keeps the members and scores.
LEMMA ConvertIs ==
    ASSUME NEW z, NEW m, NEW p, Good(z, m, p), z.encoding = "listpack", NEW cap \in Nat,
           NEW lv, \A x \in DOMAIN m : lv[x] \in Levels
    PROVE  Good(zsetConvertAndExpand(z, cap, lv), m, 0) /\ zsetConvertAndExpand(z, cap, lv).encoding = "skiplist"
<1> DEFINE b == SkiplistOf(zslCreate, dictExpand(dictCreate(TRUE), cap))
           keys == Sorted(m)
<1>1. MapFacts(m) /\ IsListpack(z, m, p)
  BY GoodCases DEF IsSkiplist
<1>2. keys \in Seq(Members) /\ IsInjective(keys) /\ ToSet(keys) = DOMAIN m /\ \A x \in DOMAIN m : m[x] \in Int
  BY <1>1 DEF MapFacts
<1>3. z.lp = Paired(m, keys)
  BY <1>1 DEF IsListpack
<1>4. zsetConvertAndExpand(z, cap, lv) = InsertAll(lv, b, Paired(m, keys))
  BY <1>3 DEF zsetConvertAndExpand, InsertAll
<1>5. Good(b, zslCreate.score, 0) /\ DOMAIN zslCreate.score = {} /\ b.encoding = "skiplist"
  BY EmptySkiplist DEF SkiplistOf
<1> HIDE DEF b, keys
<1>6. /\ Good(InsertAll(lv, b, Paired(m, keys)), Only(m, ToSet(keys)), 0)
      /\ InsertAll(lv, b, Paired(m, keys)).encoding = "skiplist"
  BY <1>2, <1>5, InsertAllIs
<1>7. Only(m, DOMAIN m) = m
  BY <1>1, OnlyAll DEF MapFacts
<1>8. QED
  BY <1>2, <1>4, <1>6, <1>7

-----------------------------------------------------------------------------
(* zsetAdd. *)

\* What zsetAdd answers, and the map it leaves.
AddOut(m, x, s, flags) ==
    IF x \in DOMAIN m THEN Rescore(s, m[x], flags)
    ELSE IF "xx" \in flags THEN [out |-> "nop", score |-> s] ELSE [out |-> "added", score |-> s]

AddMap(m, x, o) == IF o.out \in {"updated", "added"} THEN With(m, x, o.score) ELSE m

\* A sum is a number, or NaN.
LEMMA PlusIs ==
    ASSUME NEW a \in Int, NEW b \in Int
    PROVE  Plus(a, b) \in Int /\ Plus(a, b) = Plus(b, a)
<1>1. INF \in Nat
  BY SortedSetAssumption
<1>2. {a, b} = {b, a} /\ a + b = b + a
  OBVIOUS
<1>3. Plus(a, b) = Plus(b, a)
  BY <1>2 DEF Plus
<1>4. Plus(a, b) \in Int
  BY <1>1 DEF Plus, NaN
<1>5. QED
  BY <1>3, <1>4

\* Rescore's answers.
LEMMA RescoreIs ==
    ASSUME NEW s \in Int, NEW cur \in Int, NEW flags
    PROVE  /\ Rescore(s, cur, flags).score \in Int /\ Rescore(s, cur, flags).out # "added"
           /\ Rescore(s, cur, flags).out \in {"nop", "nan", "updated", "same"}
<1>1. Plus(s, cur) \in Int
  BY PlusIs
<1>2. QED
  BY <1>1 DEF Rescore

Result3(r, z, o) == r.zobj = z /\ r.out = o.out /\ r.score = o.score

\* The fields of a result.
LEMMA ResultIs ==
    ASSUME NEW z, NEW o
    PROVE  Result3(Result(z, o.out, o.score), z, o)
BY DEF Result, Result3

\* zsetAdd of a skiplist.
LEMMA AddToIs ==
    ASSUME NEW z, NEW m, NEW p, Good(z, m, p), z.encoding = "skiplist", NEW x \in Members, NEW s \in Int,
           NEW flags, NEW lv, lv[x] \in Levels
    PROVE  \E y : /\ Result3(AddTo(z, x, s, flags, lv), y, AddOut(m, x, s, flags))
                  /\ Good(y, AddMap(m, x, AddOut(m, x, s, flags)), p) /\ y.encoding = "skiplist"
<1> DEFINE l == z.zsl
           link == dictFindLink(z.dict, x)
           o == AddOut(m, x, s, flags)
<1>1. MapFacts(m) /\ IsSkiplist(z, m, p)
  BY GoodCases DEF IsListpack
<1>2. GoodList(l, Sorted(m)) /\ l.score = m /\ GoodDict(z.dict, DOMAIN m) /\ z.dict.pauseAutoResize = p
  BY <1>1 DEF IsSkiplist
<1>3. x \in DOMAIN Hash /\ x \in Nat \ {0}
  BY SortedSetAssumption DEF HEAD
<1>4. Found(link, z.dict, DOMAIN m, x)
  BY <1>2, <1>3, DictFindIs
<1>5. /\ GoodDict(link.dict, DOMAIN m) /\ link.dict.pauseAutoResize = p
      /\ link.found # NoLink <=> x \in DOMAIN m
      /\ GoodBucket(link.dict, x, link.bucket)
  BY <1>2, <1>4 DEF Found, Becomes, GoodBucket
<1>6. AddTo(z, x, s, flags, lv) = AddFound(l, link, x, s, flags, lv)
  BY DEF AddTo
<1>7. DOMAIN m \subseteq Members /\ \A y \in DOMAIN m : m[y] \in Int
  BY <1>1 DEF MapFacts
<1> HIDE DEF l, link
<1>8. CASE x \in DOMAIN m
  <2>1. o = Rescore(s, m[x], flags)
    BY <1>8 DEF AddOut
  <2> DEFINE k == IF o.out = "updated" THEN zslUpdateScore(l, x, o.score) ELSE l
             y == SkiplistOf(k, link.dict)
  <2>2. AddTo(z, x, s, flags, lv) = Result(y, o.out, o.score)
    BY <1>2, <1>5, <1>6, <1>8, <2>1 DEF AddFound, AddSkiplist
  <2>3. o.score \in Int /\ o.out # "added"
    BY <1>7, <1>8, <2>1, RescoreIs
  <2>4. Good(y, AddMap(m, x, o), p)
    <3> HIDE DEF o
    <3>1. CASE o.out = "updated"
      <4>1. PICK new : UpdatedWell(l, x, o.score, zslUpdateScore(l, x, o.score), new)
        BY <1>2, <1>8, <2>3, UpdateIs
      <4>2. GoodList(k, new) /\ k.score = With(m, x, o.score)
        BY <1>2, <3>1, <4>1 DEF UpdatedWell
      <4>3. DOMAIN With(m, x, o.score) = DOMAIN m
        BY <1>8 DEF With
      <4>4. AddMap(m, x, o) = With(m, x, o.score)
        BY <3>1 DEF AddMap
      <4> HIDE DEF k
      <4>5. Good(SkiplistOf(k, link.dict), With(m, x, o.score), p)
        BY <1>5, <1>7, <4>2, <4>3, GoodSkiplist
      <4>6. QED
        BY <4>4, <4>5
    <3>2. CASE o.out # "updated"
      <4>1. k = l /\ AddMap(m, x, o) = m
        BY <2>3, <3>2 DEF AddMap
      <4>2. Good(SkiplistOf(l, link.dict), m, p)
        BY <1>2, <1>5, <1>7, GoodSkiplist
      <4>3. QED
        BY <4>1, <4>2
    <3>3. QED
      BY <3>1, <3>2
  <2>5. y.encoding = "skiplist"
    BY DEF SkiplistOf
  <2> HIDE DEF o, y
  <2>6. QED
    BY <2>2, <2>4, <2>5, ResultIs DEF o
<1>9. CASE x \notin DOMAIN m /\ "xx" \in flags
  <2> DEFINE y == SkiplistOf(l, link.dict)
  <2>1. o = [out |-> "nop", score |-> s] /\ o.out = "nop" /\ o.score = s
    BY <1>9 DEF AddOut
  <2>2. AddTo(z, x, s, flags, lv) = Result(y, o.out, o.score)
    BY <1>5, <1>6, <1>9, <2>1 DEF AddFound
  <2>3. Good(y, m, p) /\ AddMap(m, x, o) = m
    BY <1>2, <1>5, <1>7, <2>1, GoodSkiplist DEF AddMap
  <2>4. y.encoding = "skiplist"
    BY DEF SkiplistOf
  <2> HIDE DEF o, y
  <2>5. QED
    BY <2>2, <2>3, <2>4, ResultIs DEF o
<1>10. CASE x \notin DOMAIN m /\ "xx" \notin flags
  <2> DEFINE k == zslInsert(l, s, x, lv[x])
             d == dictSetKeyAtLink(link.dict, x, link.bucket)
             y == SkiplistOf(k, d)
  <2>1. o = [out |-> "added", score |-> s] /\ o.out = "added" /\ o.score = s
    BY <1>10 DEF AddOut
  <2>2. AddTo(z, x, s, flags, lv) = Result(y, o.out, o.score)
    BY <1>5, <1>6, <1>10, <2>1 DEF AddFound
  <2>3. \E new : InsertedWell(l, x, s, lv[x], k, new)
    BY <1>2, <1>3, <1>10, InsertIs
  <2>4. PICK new : GoodList(k, new) /\ k.score = With(m, x, s)
    BY <1>2, <2>3 DEF InsertedWell
  <2>5. GoodDict(d, DOMAIN m \cup {x}) /\ d.pauseAutoResize = p
    <3>1. Becomes(d, link.dict, DOMAIN m \cup {x})
      BY <1>3, <1>5, <1>10, DictSetKeyAtLinkIs
    <3>2. QED
      BY <1>5, <3>1 DEF Becomes
  <2>6. DOMAIN With(m, x, s) = DOMAIN m \cup {x} /\ DOMAIN With(m, x, s) \subseteq Members
    BY <1>7 DEF With
  <2>7. AddMap(m, x, o) = With(m, x, s)
    BY <2>1 DEF AddMap
  <2>8. y.encoding = "skiplist"
    BY DEF SkiplistOf
  <2> HIDE DEF k, d
  <2>9. Good(SkiplistOf(k, d), With(m, x, s), p)
    BY <2>4, <2>5, <2>6, GoodSkiplist
  <2>10. Good(y, AddMap(m, x, o), p)
    BY <2>7, <2>9
  <2> HIDE DEF o, y
  <2>11. QED
    BY <2>2, <2>8, <2>10, ResultIs DEF o
<1>11. QED
  BY <1>8, <1>9, <1>10

\* A listpack within its limits.
Compact(z, m) ==
    z.encoding = "listpack" =>
        Len(Sorted(m)) <= zset_max_listpack_entries /\ DOMAIN m \cap LongMembers = {}

\* z can be added to: there are heights for the members a conversion would insert.
Adding(z, m, p, lv) ==
    Good(z, m, p) /\ Compact(z, m) /\ (z.encoding = "listpack" => \A y \in DOMAIN m : lv[y] \in Levels)

\* A skiplist can.
LEMMA AddingSkiplist ==
    ASSUME NEW z, NEW m, NEW p, Good(z, m, p), z.encoding = "skiplist", NEW lv
    PROVE  Adding(z, m, p, lv)
BY DEF Adding, Compact

\* A listpack can.
LEMMA AddingListpack ==
    ASSUME NEW m, GoodMap(m), NEW lv, Len(Sorted(m)) <= zset_max_listpack_entries,
           DOMAIN m \cap LongMembers = {}, \A y \in DOMAIN m : lv[y] \in Levels
    PROVE  Adding(Listpack(Paired(m, Sorted(m))), m, 0, lv)
<1>1. Good(Listpack(Paired(m, Sorted(m))), m, 0)
  BY GoodListpack
<1>2. QED
  BY <1>1 DEF Adding, Compact

AddedWell(r, m, p, lv, x, o) ==
    r.out = o.out /\ r.score = o.score /\ Adding(r.zobj, AddMap(m, x, o), p, lv)

\* zsetAdd, in either encoding or from one to the other.
LEMMA ZsetAddIs ==
    ASSUME NEW z, NEW m, NEW p, NEW lv, Adding(z, m, p, lv), NEW x \in Members, lv[x] \in Levels,
           NEW s \in Int, NEW flags
    PROVE  AddedWell(zsetAdd(z, s, x, flags, lv), m, p, lv, x, AddOut(m, x, s, flags))
<1> DEFINE o == AddOut(m, x, s, flags)
           r == zsetAdd(z, s, x, flags, lv)
<1>1. Good(z, m, p) /\ Compact(z, m) /\ (z.encoding = "listpack" => \A y \in DOMAIN m : lv[y] \in Levels)
  BY DEF Adding
<1>2. GoodMap(m) /\ MapFacts(m) /\ (IsListpack(z, m, p) \/ IsSkiplist(z, m, p))
  BY <1>1, GoodCases
<1>3. CASE IsSkiplist(z, m, p)
  <2>1. z.encoding = "skiplist"
    BY <1>3 DEF IsSkiplist
  <2>2. r = AddTo(z, x, s, flags, lv)
    BY <2>1 DEF zsetAdd
  <2>3. PICK y : Result3(r, y, o) /\ Good(y, AddMap(m, x, o), p) /\ y.encoding = "skiplist"
    BY <1>1, <2>1, <2>2, AddToIs
  <2> HIDE DEF r, o
  <2>4. Adding(y, AddMap(m, x, o), p, lv)
    BY <2>3, AddingSkiplist
  <2>5. QED
    BY <2>3, <2>4 DEF AddedWell, Result3, r, o
<1>4. CASE IsListpack(z, m, p)
  <2>1. /\ z.encoding = "listpack" /\ z.encoding # "skiplist" /\ z.lp = Paired(m, Sorted(m)) /\ p = 0
    BY <1>4 DEF IsListpack
  <2>2. /\ Len(Sorted(m)) <= zset_max_listpack_entries /\ DOMAIN m \cap LongMembers = {}
        /\ \A y \in DOMAIN m : lv[y] \in Levels
    BY <1>1, <2>1 DEF Compact
  <2>3. CASE x \in DOMAIN m
    <3>1. /\ zzlFind(z.lp, x) > 0 /\ z.lp[zzlFind(z.lp, x)].score = m[x]
          /\ zzlDelete(z.lp, x) = Paired(LessOne(m, x), Sorted(LessOne(m, x)))
          /\ GoodMap(LessOne(m, x))
      BY <1>2, <2>1, <2>3, ZzlDeleteIs
    <3>2. o = Rescore(s, m[x], flags)
      BY <2>3 DEF AddOut
    <3>3. m[x] \in Int
      BY <1>2, <2>3 DEF MapFacts
    <3>4. o.score \in Int /\ o.out # "added"
      BY <3>2, <3>3, RescoreIs
    <3>5. r = AddListpack(z, x, o)
      BY <2>1, <3>1, <3>2 DEF zsetAdd
    <3> HIDE DEF o
    <3>6. CASE o.out = "updated"
      <4> DEFINE M == With(m, x, o.score)
                 y == Listpack(Paired(M, Sorted(M)))
      <4>1. x \notin DOMAIN LessOne(m, x)
        BY DEF LessOne
      <4>2. M = With(LessOne(m, x), x, o.score) /\ GoodMap(M)
        BY <1>2, <2>3, <3>4, WithGood
      <4>3. zzlInsert(zzlDelete(z.lp, x), x, o.score) = Paired(M, Sorted(M))
        BY <3>1, <3>4, <4>1, <4>2, ZzlInsertIs
      <4>4. Result3(r, y, o)
        BY <3>5, <3>6, <4>3 DEF AddListpack, Result, Result3
      <4>5. DOMAIN M = DOMAIN m
        BY <2>3 DEF With
      <4>6. Len(Sorted(M)) = Len(Sorted(m))
        <5>1. MapFacts(M)
          BY <4>2, MapIs
        <5> HIDE DEF M
        <5>2. QED
          BY <1>2, <4>5, <5>1 DEF MapFacts
      <4>7. AddMap(m, x, o) = M
        BY <3>6 DEF AddMap
      <4> HIDE DEF M
      <4>8. Adding(y, M, 0, lv)
        BY <2>2, <4>2, <4>5, <4>6, AddingListpack
      <4> HIDE DEF y, r
      <4>9. QED
        BY <2>1, <4>4, <4>7, <4>8 DEF AddedWell, Result3, r, o
    <3>7. CASE o.out # "updated"
      <4>1. Result3(r, z, o)
        BY <3>5, <3>7 DEF AddListpack, Result, Result3
      <4>2. AddMap(m, x, o) = m
        BY <3>4, <3>7 DEF AddMap
      <4> HIDE DEF r
      <4>3. QED
        BY <4>1, <4>2 DEF AddedWell, Result3, r, o
    <3>8. QED
      BY <3>6, <3>7
  <2>4. CASE x \notin DOMAIN m
    <3>1. zzlFind(z.lp, x) = 0
      <4>1. Sorted(m) \in Seq(DOMAIN m)
        BY <1>2 DEF MapFacts
      <4>2. QED
        BY <1>2, <2>1, <2>4, <4>1, FindIs, PlaceOfMember
    <3>2. ~(zzlFind(z.lp, x) > 0)
      BY <3>1
    <3>3. CASE "xx" \in flags
      <4>1. o = [out |-> "nop", score |-> s] /\ o.out = "nop" /\ o.score = s
        BY <2>4, <3>3 DEF AddOut
      <4>2. r = Result(z, o.out, o.score)
        BY <2>1, <3>2, <3>3, <4>1 DEF zsetAdd
      <4>3. AddMap(m, x, o) = m
        BY <4>1 DEF AddMap
      <4> HIDE DEF o, r
      <4>4. QED
        BY <4>2, <4>3, ResultIs DEF AddedWell, Result3, r, o
    <3>4. CASE "xx" \notin flags /\ TooLarge(z, x)
      <4> DEFINE y == zsetConvertAndExpand(z, zsetLength(z) + 1, lv)
      <4>1. zsetLength(z) + 1 \in Nat
        BY <1>1, WalkOf
      <4>2. Good(y, m, p) /\ y.encoding = "skiplist"
        BY <1>1, <2>1, <2>2, <4>1, ConvertIs
      <4>3. r = AddTo(y, x, s, flags, lv)
        BY <2>1, <3>2, <3>4 DEF zsetAdd
      <4> HIDE DEF y, r
      <4>4. PICK w : Result3(r, w, o) /\ Good(w, AddMap(m, x, o), p) /\ w.encoding = "skiplist"
        BY <4>2, <4>3, AddToIs
      <4> HIDE DEF o
      <4>5. Adding(w, AddMap(m, x, o), p, lv)
        BY <4>4, AddingSkiplist
      <4>6. QED
        BY <4>4, <4>5 DEF AddedWell, Result3, r, o
    <3>5. CASE "xx" \notin flags /\ ~TooLarge(z, x)
      <4> DEFINE M == With(m, x, s)
                 y == Listpack(Paired(M, Sorted(M)))
      <4>1. o = [out |-> "added", score |-> s] /\ o.out = "added" /\ o.score = s
        BY <2>4, <3>5 DEF AddOut
      <4>2. zzlInsert(z.lp, x, s) = Paired(M, Sorted(M))
        BY <1>2, <2>1, <2>4, ZzlInsertIs
      <4>3. r = Result(y, o.out, o.score)
        BY <2>1, <3>2, <3>5, <4>1, <4>2 DEF zsetAdd
      <4>4. Len(z.lp) + 1 <= zset_max_listpack_entries /\ x \notin LongMembers
        <5>1. Len(z.lp) \in Nat
          BY <1>1, <2>1, WalkOf DEF zsetLength
        <5>2. QED
          BY <3>5, <5>1, SortedSetAssumption DEF TooLarge
      <4>5. PICK q \in 1 .. (Len(Sorted(m)) + 1) :
               GoodMap(M) /\ Sorted(M) = InsertedAt(Sorted(m), q - 1, x)
        BY <1>2, <2>4, SpotOf
      <4>6. Len(Sorted(M)) = Len(z.lp) + 1
        <5>1. MapFacts(m)
          BY <1>2
        <5>2. Len(z.lp) = Len(Sorted(m)) /\ Len(Sorted(m)) \in Nat
          BY <1>1, <2>1, WalkOf DEF zsetLength
        <5>3. MapFacts(M) /\ DOMAIN M = DOMAIN m \cup {x}
          BY <4>5, MapIs DEF With
        <5>4. IsFiniteSet(DOMAIN m) /\ Cardinality(DOMAIN m \cup {x}) = Cardinality(DOMAIN m) + 1
          BY <2>4, <5>1, FS_AddElement DEF MapFacts
        <5> HIDE DEF M
        <5>5. QED
          BY <5>1, <5>2, <5>3, <5>4 DEF MapFacts
      <4>7. DOMAIN M \cap LongMembers = {} /\ \A w \in DOMAIN M : lv[w] \in Levels
        BY <2>2, <4>4 DEF With
      <4>8. AddMap(m, x, o) = M
        BY <4>1 DEF AddMap
      <4> HIDE DEF M
      <4>9. Adding(y, M, 0, lv)
        BY <4>4, <4>5, <4>6, <4>7, AddingListpack
      <4> HIDE DEF y, r, o
      <4>10. Result3(r, y, o)
        BY <4>3, ResultIs
      <4>11. AddedWell(r, m, p, lv, x, o)
        BY <2>1, <4>8, <4>9, <4>10 DEF AddedWell, Result3
      <4>12. QED
        BY <4>11 DEF r, o
    <3>6. QED
      BY <3>3, <3>4, <3>5
  <2>5. QED
    BY <2>3, <2>4
<1>5. QED
  BY <1>2, <1>3, <1>4

-----------------------------------------------------------------------------
(* zadd. *)

\* The loop of lzadd_generic.
AddPairs(flags, lv, b, s) == FoldLeft(LAMBDA acc, pair : AddStep(acc, pair, flags, lv), b, s)

AddPairsStep(flags, lv, acc, x) == AddStep(acc, x, flags, lv)

AddPairsRun(g, flags, lv, b, s) == g[0] = b /\ \A n \in 1 .. Len(s) : g[n] = AddPairsStep(flags, lv, g[n - 1], s[n])

\* Such a loop passes through the values of its accumulator.
LEMMA AddPairsFold ==
    ASSUME NEW flags, NEW lv, NEW b, NEW S, NEW s \in Seq(S)
    PROVE  \E g : AddPairsRun(g, flags, lv, b, s) /\ AddPairs(flags, lv, b, s) = g[Len(s)]
<1> DEFINE N == Len(s)
           Eqn(it, m) == it = [V \in SUBSET (1 .. m) |->
                           IF V = {} THEN b ELSE AddPairsStep(flags, lv, it[V \ {Max(V)}], s[Max(V)])]
           T == {m \in 0 .. N : \E it : Eqn(it, m)}
           it == CHOOSE it : Eqn(it, N)
<1>1. N \in Nat /\ DOMAIN s = 1 .. N
  OBVIOUS
<1>2. 0 \in T
  <2>1. SUBSET (1 .. 0) = {{}}
    OBVIOUS
  <2>2. Eqn([V \in SUBSET (1 .. 0) |-> b], 0)
    BY <2>1
  <2>3. QED
    BY <1>1, <2>2
<1>3. ASSUME NEW m \in 0 .. (N - 1), m \in T PROVE m + 1 \in T
  <2>1. PICK f : Eqn(f, m)
    BY <1>3
  <2>2. m \in Nat /\ m + 1 \in 0 .. N /\ m + 1 \in Nat
    BY <1>1
  <2> DEFINE h == [V \in SUBSET (1 .. (m + 1)) |->
                     IF V = {} THEN b ELSE IF m + 1 \in V THEN AddPairsStep(flags, lv, f[V \ {m + 1}], s[m + 1]) ELSE f[V]]
  <2>3. f[{}] = b /\ \A V \in SUBSET (1 .. m) : V # {} => f[V] = AddPairsStep(flags, lv, f[V \ {Max(V)}], s[Max(V)])
    BY <2>1
  <2>4. ASSUME NEW V \in SUBSET (1 .. m) PROVE h[V] = f[V] /\ V \in SUBSET (1 .. (m + 1)) /\ m + 1 \notin V
    <3>1. V \in SUBSET (1 .. (m + 1)) /\ m + 1 \notin V
      BY <2>2
    <3>2. QED
      BY <2>3, <3>1
  <2> HIDE DEF Eqn
  <2>5. ASSUME NEW V \in SUBSET (1 .. (m + 1)), V # {}
        PROVE  h[V] = AddPairsStep(flags, lv, h[V \ {Max(V)}], s[Max(V)])
    <3>1. CASE m + 1 \in V
      <4>1. Max(V) = m + 1
        <5>1. V \in SUBSET Int /\ \A x \in V : m + 1 >= x
          BY <2>2
        <5>2. QED
          BY <3>1, <5>1, MaxIs
      <4>2. V \ {m + 1} \in SUBSET (1 .. m)
        BY <2>2
      <4>3. h[V \ {m + 1}] = f[V \ {m + 1}]
        BY <2>4, <4>2
      <4>4. h[V] = AddPairsStep(flags, lv, f[V \ {m + 1}], s[m + 1])
        BY <3>1
      <4>5. QED
        BY <4>1, <4>3, <4>4
    <3>2. CASE m + 1 \notin V
      <4>1. V \in SUBSET (1 .. m)
        BY <2>2, <3>2
      <4>2. V \ {Max(V)} \in SUBSET (1 .. m)
        BY <4>1
      <4>3. h[V] = f[V] /\ h[V \ {Max(V)}] = f[V \ {Max(V)}]
        BY <2>4, <4>1, <4>2
      <4>4. QED
        BY <2>3, <2>5, <4>1, <4>3
    <3>3. QED
      BY <3>1, <3>2
  <2>6. Eqn(h, m + 1)
    <3>1. h[{}] = b
      OBVIOUS
    <3>2. \A V \in SUBSET (1 .. (m + 1)) : h[V] = IF V = {} THEN b ELSE AddPairsStep(flags, lv, h[V \ {Max(V)}], s[Max(V)])
      BY <2>5, <3>1
    <3>3. h = [V \in SUBSET (1 .. (m + 1)) |-> h[V]]
      OBVIOUS
    <3> HIDE DEF h
    <3>4. QED
      BY <3>2, <3>3 DEF Eqn
  <2>7. QED
    BY <2>2, <2>6
<1>4. \A m \in 0 .. N : m \in T
  <2> HIDE DEF T, N
  <2>1. QED
    BY <1>1, <1>2, <1>3, UpTo
<1>5. \E f : Eqn(f, N)
  <2>0. N \in 0 .. N
    BY <1>1
  <2>1. N \in T
    <3> HIDE DEF T, N
    <3>1. QED
      BY <1>4, <2>0
  <2>2. QED
    BY <2>1
<1>6. Eqn(it, N)
  <2> HIDE DEF Eqn
  <2>1. QED
    BY <1>5
<1>7. AddPairs(flags, lv, b, s) = it[1 .. N]
  BY <1>1 DEF AddPairs, FoldLeft, MapThenFoldSet, AddPairsStep
<1> HIDE DEF it
<1> DEFINE g == [n \in 0 .. N |-> it[1 .. n]]
<1>8. g[0] = b
  <2>1. 1 .. 0 = {} /\ 0 \in 0 .. N
    BY <1>1
  <2>2. QED
    BY <1>6, <2>1
<1>9. ASSUME NEW n \in 1 .. N
      PROVE  g[n] = AddPairsStep(flags, lv, g[n - 1], s[n])
  <2>1. /\ 1 .. n \in SUBSET (1 .. N) /\ 1 .. n # {}
        /\ Max(1 .. n) = n /\ (1 .. n) \ {n} = 1 .. (n - 1)
    BY <1>1, MaxOfInitial
  <2>2. it[1 .. n] = AddPairsStep(flags, lv, it[(1 .. n) \ {Max(1 .. n)}], s[Max(1 .. n)])
    BY <1>6, <2>1
  <2>3. n \in 0 .. N /\ n - 1 \in 0 .. N
    BY <1>1
  <2>4. g[n] = it[1 .. n] /\ g[n - 1] = it[1 .. (n - 1)]
    BY <2>3
  <2>5. QED
    BY <2>1, <2>2, <2>4
<1>10. g[N] = it[1 .. N]
  BY <1>1
<1> HIDE DEF g
<1>11. QED
  BY <1>7, <1>8, <1>9, <1>10 DEF AddPairsRun

\* What its pairs ask for, one after the other.
AddMaps(flags, b, s) == FoldLeft(LAMBDA m, q : IF Wanted(m, q[2], q[1], flags) THEN Put(m, q[2], q[1]) ELSE m, b, s)

AddMapsStep(flags, acc, x) == IF Wanted(acc, x[2], x[1], flags) THEN Put(acc, x[2], x[1]) ELSE acc

AddMapsRun(g, flags, b, s) == g[0] = b /\ \A n \in 1 .. Len(s) : g[n] = AddMapsStep(flags, g[n - 1], s[n])

\* Such a loop passes through the values of its accumulator.
LEMMA AddMapsFold ==
    ASSUME NEW flags, NEW b, NEW S, NEW s \in Seq(S)
    PROVE  \E g : AddMapsRun(g, flags, b, s) /\ AddMaps(flags, b, s) = g[Len(s)]
<1> DEFINE N == Len(s)
           Eqn(it, m) == it = [V \in SUBSET (1 .. m) |->
                           IF V = {} THEN b ELSE AddMapsStep(flags, it[V \ {Max(V)}], s[Max(V)])]
           T == {m \in 0 .. N : \E it : Eqn(it, m)}
           it == CHOOSE it : Eqn(it, N)
<1>1. N \in Nat /\ DOMAIN s = 1 .. N
  OBVIOUS
<1>2. 0 \in T
  <2>1. SUBSET (1 .. 0) = {{}}
    OBVIOUS
  <2>2. Eqn([V \in SUBSET (1 .. 0) |-> b], 0)
    BY <2>1
  <2>3. QED
    BY <1>1, <2>2
<1>3. ASSUME NEW m \in 0 .. (N - 1), m \in T PROVE m + 1 \in T
  <2>1. PICK f : Eqn(f, m)
    BY <1>3
  <2>2. m \in Nat /\ m + 1 \in 0 .. N /\ m + 1 \in Nat
    BY <1>1
  <2> DEFINE h == [V \in SUBSET (1 .. (m + 1)) |->
                     IF V = {} THEN b ELSE IF m + 1 \in V THEN AddMapsStep(flags, f[V \ {m + 1}], s[m + 1]) ELSE f[V]]
  <2>3. f[{}] = b /\ \A V \in SUBSET (1 .. m) : V # {} => f[V] = AddMapsStep(flags, f[V \ {Max(V)}], s[Max(V)])
    BY <2>1
  <2>4. ASSUME NEW V \in SUBSET (1 .. m) PROVE h[V] = f[V] /\ V \in SUBSET (1 .. (m + 1)) /\ m + 1 \notin V
    <3>1. V \in SUBSET (1 .. (m + 1)) /\ m + 1 \notin V
      BY <2>2
    <3>2. QED
      BY <2>3, <3>1
  <2> HIDE DEF Eqn
  <2>5. ASSUME NEW V \in SUBSET (1 .. (m + 1)), V # {}
        PROVE  h[V] = AddMapsStep(flags, h[V \ {Max(V)}], s[Max(V)])
    <3>1. CASE m + 1 \in V
      <4>1. Max(V) = m + 1
        <5>1. V \in SUBSET Int /\ \A x \in V : m + 1 >= x
          BY <2>2
        <5>2. QED
          BY <3>1, <5>1, MaxIs
      <4>2. V \ {m + 1} \in SUBSET (1 .. m)
        BY <2>2
      <4>3. h[V \ {m + 1}] = f[V \ {m + 1}]
        BY <2>4, <4>2
      <4>4. h[V] = AddMapsStep(flags, f[V \ {m + 1}], s[m + 1])
        BY <3>1
      <4>5. QED
        BY <4>1, <4>3, <4>4
    <3>2. CASE m + 1 \notin V
      <4>1. V \in SUBSET (1 .. m)
        BY <2>2, <3>2
      <4>2. V \ {Max(V)} \in SUBSET (1 .. m)
        BY <4>1
      <4>3. h[V] = f[V] /\ h[V \ {Max(V)}] = f[V \ {Max(V)}]
        BY <2>4, <4>1, <4>2
      <4>4. QED
        BY <2>3, <2>5, <4>1, <4>3
    <3>3. QED
      BY <3>1, <3>2
  <2>6. Eqn(h, m + 1)
    <3>1. h[{}] = b
      OBVIOUS
    <3>2. \A V \in SUBSET (1 .. (m + 1)) : h[V] = IF V = {} THEN b ELSE AddMapsStep(flags, h[V \ {Max(V)}], s[Max(V)])
      BY <2>5, <3>1
    <3>3. h = [V \in SUBSET (1 .. (m + 1)) |-> h[V]]
      OBVIOUS
    <3> HIDE DEF h
    <3>4. QED
      BY <3>2, <3>3 DEF Eqn
  <2>7. QED
    BY <2>2, <2>6
<1>4. \A m \in 0 .. N : m \in T
  <2> HIDE DEF T, N
  <2>1. QED
    BY <1>1, <1>2, <1>3, UpTo
<1>5. \E f : Eqn(f, N)
  <2>0. N \in 0 .. N
    BY <1>1
  <2>1. N \in T
    <3> HIDE DEF T, N
    <3>1. QED
      BY <1>4, <2>0
  <2>2. QED
    BY <2>1
<1>6. Eqn(it, N)
  <2> HIDE DEF Eqn
  <2>1. QED
    BY <1>5
<1>7. AddMaps(flags, b, s) = it[1 .. N]
  BY <1>1 DEF AddMaps, FoldLeft, MapThenFoldSet, AddMapsStep
<1> HIDE DEF it
<1> DEFINE g == [n \in 0 .. N |-> it[1 .. n]]
<1>8. g[0] = b
  <2>1. 1 .. 0 = {} /\ 0 \in 0 .. N
    BY <1>1
  <2>2. QED
    BY <1>6, <2>1
<1>9. ASSUME NEW n \in 1 .. N
      PROVE  g[n] = AddMapsStep(flags, g[n - 1], s[n])
  <2>1. /\ 1 .. n \in SUBSET (1 .. N) /\ 1 .. n # {}
        /\ Max(1 .. n) = n /\ (1 .. n) \ {n} = 1 .. (n - 1)
    BY <1>1, MaxOfInitial
  <2>2. it[1 .. n] = AddMapsStep(flags, it[(1 .. n) \ {Max(1 .. n)}], s[Max(1 .. n)])
    BY <1>6, <2>1
  <2>3. n \in 0 .. N /\ n - 1 \in 0 .. N
    BY <1>1
  <2>4. g[n] = it[1 .. n] /\ g[n - 1] = it[1 .. (n - 1)]
    BY <2>3
  <2>5. QED
    BY <2>1, <2>2, <2>4
<1>10. g[N] = it[1 .. N]
  BY <1>1
<1> HIDE DEF g
<1>11. QED
  BY <1>7, <1>8, <1>9, <1>10 DEF AddMapsRun

\* One pair, without INCR: what zsetAdd does is what the pair asks for.
AsAsked(m, x, s, flags, o) ==
    /\ AddMap(m, x, o) = AddMapsStep(flags, m, <<s, x>>) /\ o.out # "nan"
    /\ o.out = "added" => x \notin DOMAIN m /\ DOMAIN AddMap(m, x, o) = DOMAIN m \cup {x}
    /\ o.out # "added" => DOMAIN AddMap(m, x, o) = DOMAIN m
    /\ o.out = "updated" <=> x \in DOMAIN m /\ AddMap(m, x, o) # m

\* It is.
LEMMA AddOneIs ==
    ASSUME NEW m, GoodMap(m), NEW x \in Members, NEW s \in Int, s # NaN, NEW flags, "incr" \notin flags
    PROVE  AsAsked(m, x, s, flags, AddOut(m, x, s, flags))
<1> DEFINE o == AddOut(m, x, s, flags)
<1>1. m \in [DOMAIN m -> Int]
  BY MapIs DEF MapFacts
<1>2. AddMapsStep(flags, m, <<s, x>>) = IF Wanted(m, x, s, flags) THEN With(m, x, s) ELSE m
  <2>1. <<s, x>>[1] = s /\ <<s, x>>[2] = x
    OBVIOUS
  <2>2. QED
    BY <2>1, PutIs DEF AddMapsStep
<1>3. CASE x \in DOMAIN m
  <2> DEFINE cur == m[x]
  <2>1. o = IF "nx" \in flags THEN [out |-> "nop", score |-> cur]
            ELSE IF ("lt" \in flags /\ s >= cur) \/ ("gt" \in flags /\ s <= cur)
                 THEN [out |-> "nop", score |-> cur]
                 ELSE [out |-> IF s # cur THEN "updated" ELSE "same", score |-> s]
    BY <1>3 DEF AddOut, Rescore
  <2>2. Wanted(m, x, s, flags) <=>
            /\ "nx" \notin flags
            /\ ~(("lt" \in flags /\ s >= cur) \/ ("gt" \in flags /\ s <= cur))
    <3>1. cur \in Int
      BY <1>1, <1>3
    <3>2. QED
      BY <1>3, <3>1 DEF Wanted
  <2>3. DOMAIN With(m, x, s) = DOMAIN m /\ With(m, x, s)[x] = s /\ With(m, x, cur) = m
    BY <1>1, <1>3 DEF With
  <2>4. CASE ~Wanted(m, x, s, flags)
    <3>1. o.out = "nop"
      BY <2>1, <2>2, <2>4
    <3>2. AddMap(m, x, o) = m
      BY <3>1 DEF AddMap
    <3> HIDE DEF o
    <3>3. QED
      BY <1>2, <2>4, <3>1, <3>2 DEF AsAsked, o
  <2>5. CASE Wanted(m, x, s, flags) /\ s # cur
    <3>1. o.out = "updated" /\ o.score = s
      BY <2>1, <2>2, <2>5
    <3>2. AddMap(m, x, o) = With(m, x, s)
      BY <3>1 DEF AddMap
    <3>3. With(m, x, s) # m
      BY <2>3, <2>5
    <3> HIDE DEF o
    <3>4. QED
      BY <1>2, <1>3, <2>3, <2>5, <3>1, <3>2, <3>3 DEF AsAsked, o
  <2>6. CASE Wanted(m, x, s, flags) /\ s = cur
    <3>1. o.out = "same"
      BY <2>1, <2>2, <2>6
    <3>2. AddMap(m, x, o) = m
      BY <3>1 DEF AddMap
    <3> HIDE DEF o
    <3>3. QED
      BY <1>2, <2>3, <2>6, <3>1, <3>2 DEF AsAsked, o
  <2>7. QED
    BY <2>4, <2>5, <2>6
<1>4. CASE x \notin DOMAIN m
  <2>1. Wanted(m, x, s, flags) <=> "xx" \notin flags
    BY <1>4 DEF Wanted
  <2>2. CASE "xx" \in flags
    <3>1. o.out = "nop"
      BY <1>4, <2>2 DEF AddOut
    <3>2. AddMap(m, x, o) = m
      BY <3>1 DEF AddMap
    <3> HIDE DEF o
    <3>3. QED
      BY <1>2, <1>4, <2>1, <2>2, <3>1, <3>2 DEF AsAsked, o
  <2>3. CASE "xx" \notin flags
    <3>1. o.out = "added" /\ o.score = s
      BY <1>4, <2>3 DEF AddOut
    <3>2. AddMap(m, x, o) = With(m, x, s)
      BY <3>1 DEF AddMap
    <3>3. DOMAIN With(m, x, s) = DOMAIN m \cup {x}
      BY DEF With
    <3> HIDE DEF o
    <3>4. QED
      BY <1>2, <1>4, <2>1, <2>3, <3>1, <3>2, <3>3 DEF AsAsked, o
  <2>4. QED
    BY <2>2, <2>3
<1>5. QED
  BY <1>3, <1>4

\* zsetTypeMaybeConvert.
LEMMA MaybeConvertIs ==
    ASSUME NEW z, NEW m, NEW p, NEW lv, Adding(z, m, p, lv), NEW hint \in Nat
    PROVE  Adding(zsetTypeMaybeConvert(z, hint, lv), m, p, lv)
<1>1. Good(z, m, p) /\ (z.encoding = "listpack" => \A y \in DOMAIN m : lv[y] \in Levels)
  BY DEF Adding
<1>2. CASE z.encoding = "listpack" /\ hint > zset_max_listpack_entries
  <2>1. p = 0
    BY <1>1, <1>2, GoodCases DEF IsListpack, IsSkiplist
  <2>2. Good(zsetConvertAndExpand(z, hint, lv), m, p) /\ zsetConvertAndExpand(z, hint, lv).encoding = "skiplist"
    BY <1>1, <1>2, <2>1, ConvertIs
  <2>3. zsetTypeMaybeConvert(z, hint, lv) = zsetConvertAndExpand(z, hint, lv)
    BY <1>2 DEF zsetTypeMaybeConvert
  <2>4. QED
    BY <2>2, <2>3, AddingSkiplist
<1>3. CASE ~(z.encoding = "listpack" /\ hint > zset_max_listpack_entries)
  BY <1>3 DEF zsetTypeMaybeConvert
<1>4. QED
  BY <1>2, <1>3

StepWell(r, acc, m, p, lv, x, o) ==
    /\ Adding(r.zobj, AddMap(m, x, o), p, lv) /\ r.out = o.out /\ r.score = o.score
    /\ r.added = acc.added + (IF o.out = "added" THEN 1 ELSE 0)
    /\ r.updated = acc.updated + (IF o.out = "updated" THEN 1 ELSE 0)

\* One step of the loop.
LEMMA AddStepIs ==
    ASSUME NEW acc, NEW m, NEW p, NEW lv, Adding(acc.zobj, m, p, lv), acc.out # "nan",
           NEW x \in Members, NEW s \in Int, lv[x] \in Levels, NEW flags
    PROVE  StepWell(AddStep(acc, <<s, x>>, flags, lv), acc, m, p, lv, x, AddOut(m, x, s, flags))
<1> DEFINE q == zsetAdd(acc.zobj, s, x, flags, lv)
           pair == <<s, x>>
           o == AddOut(m, x, s, flags)
           r == AddStep(acc, pair, flags, lv)
<1>0. pair[1] = s /\ pair[2] = x
  OBVIOUS
<1> HIDE DEF pair
<1>1. AddedWell(q, m, p, lv, x, o)
  BY ZsetAddIs
<1>2. r = [zobj |-> q.zobj, out |-> q.out, score |-> q.score,
           added |-> acc.added + (IF q.out = "added" THEN 1 ELSE 0),
           updated |-> acc.updated + (IF q.out = "updated" THEN 1 ELSE 0)]
  BY <1>0 DEF AddStep
<1> HIDE DEF q, o, r
<1>3. /\ r.zobj = q.zobj /\ r.out = q.out /\ r.score = q.score
      /\ r.added = acc.added + (IF q.out = "added" THEN 1 ELSE 0)
      /\ r.updated = acc.updated + (IF q.out = "updated" THEN 1 ELSE 0)
  BY <1>2
<1>4. StepWell(r, acc, m, p, lv, x, o)
  BY <1>1, <1>3 DEF AddedWell, StepWell
<1>5. QED
  BY <1>4 DEF r, o, pair

Pairs(pairs) == pairs \in Seq(Scores \X Members)

\* The parts of a pair.
LEMMA PairParts ==
    ASSUME NEW pairs, Pairs(pairs)
    PROVE  /\ Len(pairs) \in Nat /\ DOMAIN pairs = 1 .. Len(pairs)
           /\ \A i \in 1 .. Len(pairs) :
                /\ pairs[i][2] \in Members /\ pairs[i][1] \in Scores /\ pairs[i][1] \in Int /\ pairs[i][1] # NaN
                /\ pairs[i] = <<pairs[i][1], pairs[i][2]>>
<1>1. Len(pairs) \in Nat /\ DOMAIN pairs = 1 .. Len(pairs) /\ \A i \in 1 .. Len(pairs) : pairs[i] \in Scores \X Members
  BY DEF Pairs
<1>2. \A s \in Scores : s \in Int /\ s # NaN
  BY SortedSetAssumption DEF NaN
<1>3. QED
  BY <1>1, <1>2

\* AddAll of the first pairs.
LEMMA PrefixIs ==
    ASSUME NEW m, NEW pairs, Pairs(pairs), NEW flags, NEW h, AddMapsRun(h, flags, m, pairs), NEW n \in 0 .. Len(pairs)
    PROVE  AddAll(m, SubSeq(pairs, 1, n), flags) = h[n]
<1>1. Len(pairs) \in Nat /\ pairs \in Seq(Scores \X Members)
  BY DEF Pairs
<1> DEFINE S == Scores \X Members
           u == SubSeq(pairs, 1, n)
<1>2. u \in Seq(S) /\ Len(u) = n /\ \A i \in 1 .. n : u[i] = pairs[i]
  <2> HIDE DEF S
  <2>1. pairs \in Seq(S)
    BY <1>1 DEF S
  <2>2. QED
    BY <1>1, <2>1
<1> HIDE DEF u, S
<1>3. PICK k : AddMapsRun(k, flags, m, u) /\ AddMaps(flags, m, u) = k[Len(u)]
  BY <1>2, AddMapsFold
<1>4. AddAll(m, u, flags) = AddMaps(flags, m, u)
  BY DEF AddAll, AddMaps
<1>5. k[n] = h[n]
  <2>1. k[0] = h[0]
    BY <1>3 DEF AddMapsRun
  <2>2. ASSUME NEW j \in 1 .. n, k[j - 1] = h[j - 1] PROVE k[j] = h[j]
    <3>1. j \in 1 .. Len(pairs) /\ j \in 1 .. Len(u)
      BY <1>1, <1>2
    <3>2. k[j] = AddMapsStep(flags, k[j - 1], u[j]) /\ h[j] = AddMapsStep(flags, h[j - 1], pairs[j])
      BY <1>3, <3>1 DEF AddMapsRun
    <3>3. QED
      BY <1>2, <2>2, <3>2
  <2>3. n \in Nat
    BY <1>1
  <2>4. QED
    BY <2>1, <2>2, <2>3, SameUpTo
<1>6. QED
  BY <1>2, <1>3, <1>4, <1>5 DEF u

\* What zadd leaves and counts.
Zadded(r, m, p, lv, pairs, flags) ==
    /\ Adding(r.zobj, AddAll(m, pairs, flags), p, lv)
    /\ r.added = Cardinality(DOMAIN AddAll(m, pairs, flags) \ DOMAIN m)
    /\ r.updated = Cardinality(Updates(m, pairs, flags))

\* zadd does what its pairs ask for, and counts it.
LEMMA ZaddIs ==
    ASSUME NEW z, NEW m, NEW p, NEW lv, Adding(z, m, p, lv), NEW pairs, Pairs(pairs),
           \A i \in 1 .. Len(pairs) : lv[pairs[i][2]] \in Levels, NEW flags, "incr" \notin flags
    PROVE  Zadded(zadd(z, pairs, flags, lv), m, p, lv, pairs, flags)
<1> DEFINE N == Len(pairs)
           b == [zobj |-> zsetTypeMaybeConvert(z, N, lv), out |-> "same", score |-> 0, added |-> 0, updated |-> 0]
<1>1. /\ N \in Nat /\ DOMAIN pairs = 1 .. N
      /\ \A i \in 1 .. N :
           /\ pairs[i][2] \in Members /\ pairs[i][1] \in Scores /\ pairs[i][1] \in Int /\ pairs[i][1] # NaN
           /\ pairs[i] = <<pairs[i][1], pairs[i][2]>>
  BY PairParts
<1>2. pairs \in Seq(Scores \X Members)
  BY DEF Pairs
<1>3. PICK g : AddPairsRun(g, flags, lv, b, pairs) /\ AddPairs(flags, lv, b, pairs) = g[N]
  <2> HIDE DEF b
  <2>1. QED
    BY <1>2, AddPairsFold
<1>4. PICK h : AddMapsRun(h, flags, m, pairs) /\ AddMaps(flags, m, pairs) = h[N]
  BY <1>2, AddMapsFold
<1>5. zadd(z, pairs, flags, lv) = AddPairs(flags, lv, b, pairs) /\ AddAll(m, pairs, flags) = AddMaps(flags, m, pairs)
  BY DEF zadd, AddPairs, AddAll, AddMaps
<1>6. b.zobj = zsetTypeMaybeConvert(z, N, lv) /\ b.out = "same" /\ b.added = 0 /\ b.updated = 0
  OBVIOUS
<1>7. g[0] = b /\ \A n \in 1 .. N : g[n] = AddStep(g[n - 1], pairs[n], flags, lv)
  <2> HIDE DEF b
  <2>1. QED
    BY <1>3 DEF AddPairsRun, AddPairsStep
<1>8. h[0] = m /\ \A n \in 1 .. N : h[n] = AddMapsStep(flags, h[n - 1], pairs[n])
  BY <1>4 DEF AddMapsRun
<1> HIDE DEF b
<1> DEFINE U(n) == {i \in 1 .. n : pairs[i][2] \in DOMAIN h[i - 1] /\ h[i] # h[i - 1]}
           P(n) == /\ Adding(g[n].zobj, h[n], p, lv) /\ g[n].out # "nan" /\ DOMAIN m \subseteq DOMAIN h[n]
                   /\ CountIs(g[n].added, DOMAIN h[n] \ DOMAIN m) /\ CountIs(g[n].updated, U(n))
           T == {n \in 0 .. N : P(n)}
<1>9. 0 \in T
  <2>1. Adding(b.zobj, m, p, lv)
    BY <1>1, <1>6, MaybeConvertIs
  <2>2. DOMAIN m \ DOMAIN m = {} /\ U(0) = {} /\ CountIs(0, {})
    BY FS_EmptySet DEF CountIs
  <2>3. P(0)
    BY <1>6, <1>7, <1>8, <2>1, <2>2
  <2>4. QED
    BY <1>1, <2>3
<1>10. ASSUME NEW n \in 0 .. (N - 1), n \in T PROVE n + 1 \in T
  <2> DEFINE k == n + 1
             x == pairs[k][2]
             s == pairs[k][1]
             o == AddOut(h[n], x, s, flags)
  <2>1. k \in 1 .. N /\ k \in 0 .. N /\ k - 1 = n /\ k \in Nat /\ n \in Nat
    BY <1>1
  <2>2. P(n)
    BY <1>10
  <2>3. x \in Members /\ s \in Int /\ s # NaN /\ pairs[k] = <<s, x>> /\ lv[x] \in Levels
    BY <1>1, <2>1
  <2>4. g[k] = AddStep(g[n], pairs[k], flags, lv) /\ h[k] = AddMapsStep(flags, h[n], pairs[k])
    BY <1>7, <1>8, <2>1
  <2>5. /\ Adding(g[k].zobj, AddMap(h[n], x, o), p, lv) /\ g[k].out = o.out
        /\ g[k].added = g[n].added + (IF o.out = "added" THEN 1 ELSE 0)
        /\ g[k].updated = g[n].updated + (IF o.out = "updated" THEN 1 ELSE 0)
    <3>1. Adding(g[n].zobj, h[n], p, lv) /\ g[n].out # "nan"
      BY <2>2
    <3>2. g[k] = AddStep(g[n], <<s, x>>, flags, lv)
      BY <2>3, <2>4
    <3>3. StepWell(g[k], g[n], h[n], p, lv, x, o)
      <4> HIDE DEF k, x, s, P, T
      <4>1. QED
        BY <2>3, <3>1, <3>2, AddStepIs
    <3> HIDE DEF k, x, o
    <3>4. QED
      BY <3>3 DEF StepWell
  <2>6. GoodMap(h[n])
    BY <2>2, GoodCases DEF Adding
  <2>7. AsAsked(h[n], x, s, flags, o)
    <3> HIDE DEF x, s
    <3>1. QED
      BY <2>3, <2>6, AddOneIs
  <2>8. h[k] = AddMap(h[n], x, o)
    BY <2>3, <2>4, <2>7 DEF AsAsked
  <2> HIDE DEF o, x, s
  <2>9. /\ g[k].out # "nan" /\ DOMAIN m \subseteq DOMAIN h[k]
        /\ o.out = "added" => x \notin DOMAIN h[n] /\ DOMAIN h[k] = DOMAIN h[n] \cup {x}
        /\ o.out # "added" => DOMAIN h[k] = DOMAIN h[n]
        /\ o.out = "updated" <=> x \in DOMAIN h[n] /\ h[k] # h[n]
    BY <2>2, <2>5, <2>7, <2>8 DEF AsAsked
  <2>10. CountIs(g[k].added, DOMAIN h[k] \ DOMAIN m)
    <3>1. CountIs(g[n].added, DOMAIN h[n] \ DOMAIN m) /\ DOMAIN m \subseteq DOMAIN h[n]
      BY <2>2
    <3>2. CASE o.out = "added"
      <4>1. DOMAIN h[k] \ DOMAIN m = (DOMAIN h[n] \ DOMAIN m) \cup {x} /\ x \notin DOMAIN h[n] \ DOMAIN m
        BY <2>9, <3>1, <3>2
      <4>2. g[k].added = g[n].added + 1
        BY <2>5, <3>2
      <4> DEFINE S == DOMAIN h[n] \ DOMAIN m
                 c == g[n].added
      <4>3. CountIs(c, S) /\ x \notin S
        BY <3>1, <4>1
      <4>4. CountIs(c + 1, S \cup {x})
        <5> HIDE DEF S, c
        <5>1. QED
          BY <4>3, CountChange
      <4>5. QED
        BY <4>1, <4>2, <4>4
    <3>3. CASE o.out # "added"
      <4>1. g[n].added \in Nat
        BY <3>1 DEF CountIs
      <4>2. g[k].added = g[n].added
        BY <2>5, <3>3, <4>1
      <4>3. QED
        BY <2>9, <3>1, <3>3, <4>2
    <3>4. QED
      BY <3>2, <3>3
  <2>11. CountIs(g[k].updated, U(k))
    <3>1. CountIs(g[n].updated, U(n))
      BY <2>2
    <3>2. U(k) = IF x \in DOMAIN h[n] /\ h[k] # h[n] THEN U(n) \cup {k} ELSE U(n)
      BY <2>1 DEF x
    <3>3. k \notin U(n)
      BY <2>1
    <3>4. CASE o.out = "updated"
      <4>1. g[k].updated = g[n].updated + 1 /\ U(k) = U(n) \cup {k}
        BY <2>5, <2>9, <3>2, <3>4
      <4> DEFINE S == U(n)
                 c == g[n].updated
      <4>2. CountIs(c + 1, S \cup {k})
        <5> HIDE DEF S, c, k
        <5>1. CountIs(c, S) /\ k \notin S
          BY <3>1, <3>3 DEF S, c
        <5>2. QED
          BY <5>1, CountChange
      <4>3. QED
        BY <4>1, <4>2
    <3>5. CASE o.out # "updated"
      <4>1. g[n].updated \in Nat
        BY <3>1 DEF CountIs
      <4>2. g[k].updated = g[n].updated /\ U(k) = U(n)
        BY <2>5, <2>9, <3>2, <3>5, <4>1
      <4>3. QED
        BY <3>1, <4>2
    <3>6. QED
      BY <3>4, <3>5
  <2>12. P(k)
    BY <2>5, <2>8, <2>9, <2>10, <2>11
  <2>13. QED
    BY <2>1, <2>12
<1>11. \A n \in 0 .. N : n \in T
  <2> HIDE DEF T, N
  <2>1. QED
    BY <1>1, <1>9, <1>10, UpTo
<1>12. P(N)
  <2>1. N \in 0 .. N
    BY <1>1
  <2>2. N \in T
    <3> HIDE DEF T, N
    <3>1. QED
      BY <1>11, <2>1
  <2>3. QED
    BY <2>2
<1>13. U(N) = Updates(m, pairs, flags)
  <2>1. ASSUME NEW i \in 1 .. N
        PROVE  AddAll(m, SubSeq(pairs, 1, i - 1), flags) = h[i - 1] /\ AddAll(m, SubSeq(pairs, 1, i), flags) = h[i]
    <3>1. i \in 0 .. N /\ i - 1 \in 0 .. N
      BY <1>1
    <3>2. QED
      BY <1>4, <3>1, PrefixIs
  <2>2. QED
    BY <1>1, <2>1 DEF Updates
<1>14. QED
  BY <1>3, <1>4, <1>5, <1>12, <1>13 DEF Zadded, CountIs

\* zadd of one pair.
LEMMA ZaddOne ==
    ASSUME NEW z, NEW m, NEW p, NEW lv, Adding(z, m, p, lv), NEW x \in Members, lv[x] \in Levels,
           NEW s \in Int, NEW flags
    PROVE  AddedWell(zadd(z, <<<<s, x>>>>, flags, lv), m, p, lv, x, AddOut(m, x, s, flags))
<1> DEFINE pairs == <<<<s, x>>>>
           b == [zobj |-> zsetTypeMaybeConvert(z, Len(pairs), lv), out |-> "same", score |-> 0, added |-> 0, updated |-> 0]
           r == zadd(z, pairs, flags, lv)
<1>1. pairs \in Seq(Int \X Members) /\ Len(pairs) = 1 /\ pairs[1] = <<s, x>>
  OBVIOUS
<1>2. b.zobj = zsetTypeMaybeConvert(z, Len(pairs), lv) /\ b.out = "same"
  OBVIOUS
<1>3. r = AddPairs(flags, lv, b, pairs)
  BY DEF zadd, AddPairs
<1> HIDE DEF b, pairs, r
<1>4. PICK g : AddPairsRun(g, flags, lv, b, pairs) /\ AddPairs(flags, lv, b, pairs) = g[Len(pairs)]
  BY <1>1, AddPairsFold
<1>5. g[0] = b /\ g[1] = AddStep(g[1 - 1], pairs[1], flags, lv)
  BY <1>1, <1>4 DEF AddPairsRun, AddPairsStep
<1>6. r = AddStep(b, <<s, x>>, flags, lv)
  BY <1>1, <1>3, <1>4, <1>5
<1>7. Adding(b.zobj, m, p, lv) /\ b.out # "nan"
  BY <1>1, <1>2, MaybeConvertIs
<1> DEFINE o == AddOut(m, x, s, flags)
<1>8. StepWell(AddStep(b, <<s, x>>, flags, lv), b, m, p, lv, x, o)
  BY <1>7, AddStepIs
<1>9. StepWell(r, b, m, p, lv, x, o)
  BY <1>6, <1>8
<1> HIDE DEF o
<1>10. AddedWell(r, m, p, lv, x, o)
  BY <1>9 DEF AddedWell, StepWell
<1>11. QED
  BY <1>10 DEF r, pairs, o

-----------------------------------------------------------------------------
(* Removing. *)

\* A map without some members.
LEMMA WithoutIs ==
    ASSUME NEW m, GoodMap(m), NEW A
    PROVE  /\ GoodMap(Without(m, A)) /\ DOMAIN Without(m, A) = DOMAIN m \ A
           /\ Len(Sorted(Without(m, A))) <= Len(Sorted(m))
           /\ (A \cap DOMAIN m = {} => Without(m, A) = m)
<1>1. MapFacts(m)
  BY MapIs
<1> DEFINE K == DOMAIN m \ A
<1>2. IsFiniteSet(K) /\ K \subseteq Members /\ \A x \in K : m[x] \in Int
  <2>1. IsFiniteSet(DOMAIN m)
    BY <1>1 DEF MapFacts
  <2>2. IsFiniteSet(K)
    BY <2>1, FS_Subset
  <2>3. QED
    BY <1>1, <2>2 DEF MapFacts
<1>3. Without(m, A) = Only(m, K)
  BY DEF Without
<1>4. GoodMap(Only(m, K)) /\ DOMAIN Only(m, K) = K
  <2> HIDE DEF K
  <2>1. GoodMap(Only(m, K))
    BY <1>2, OnlyGood
  <2>2. QED
    BY <2>1 DEF Only
<1>5. MapFacts(Only(m, K))
  BY <1>4, MapIs
<1>6. Cardinality(K) <= Cardinality(DOMAIN m)
  <2>1. IsFiniteSet(DOMAIN m) /\ K \subseteq DOMAIN m
    BY <1>1 DEF MapFacts
  <2> HIDE DEF K
  <2>2. QED
    BY <2>1, FS_Subset
<1>7. Len(Sorted(Only(m, K))) <= Len(Sorted(m))
  BY <1>1, <1>4, <1>5, <1>6 DEF MapFacts
<1>8. A \cap DOMAIN m = {} => Only(m, K) = m
  <2>1. A \cap DOMAIN m = {} => K = DOMAIN m
    OBVIOUS
  <2>2. m \in [DOMAIN m -> Int]
    BY <1>1 DEF MapFacts
  <2> HIDE DEF K
  <2>3. QED
    BY <2>1, <2>2, OnlyAll
<1>9. QED
  BY <1>3, <1>4, <1>7, <1>8

\* A map without nothing.
LEMMA WithoutNone ==
    ASSUME NEW m, GoodMap(m), NEW A, A = {}
    PROVE  Without(m, A) = m
BY WithoutIs

\* One after the other.
LEMMA WithoutMore ==
    ASSUME NEW m, NEW A, NEW B
    PROVE  Without(Without(m, A), B) = Without(m, A \cup B)
BY DEF Without, Only

\* What is taken out leaves a listpack within its limits.
LEMMA CompactLess ==
    ASSUME NEW z, NEW y, NEW m, GoodMap(m), Compact(z, m), y.encoding = z.encoding, NEW A
    PROVE  Compact(y, Without(m, A))
<1>1. DOMAIN Without(m, A) = DOMAIN m \ A /\ Len(Sorted(Without(m, A))) <= Len(Sorted(m)) /\ GoodMap(Without(m, A))
  BY WithoutIs
<1>2. MapFacts(m) /\ MapFacts(Without(m, A))
  BY <1>1, MapIs
<1>3. Len(Sorted(m)) \in Nat /\ Len(Sorted(Without(m, A))) \in Nat /\ zset_max_listpack_entries \in Nat
  BY <1>2, SortedSetAssumption DEF MapFacts
<1>4. QED
  BY <1>1, <1>3 DEF Compact

\* The loop of lzrem.
RemAll(b, s) == FoldLeft(RemStep, b, s)

RemAllStep(acc, x) == RemStep(acc, x)

RemAllRun(g, b, s) == g[0] = b /\ \A n \in 1 .. Len(s) : g[n] = RemAllStep(g[n - 1], s[n])

\* Such a loop passes through the values of its accumulator.
LEMMA RemAllFold ==
    ASSUME NEW b, NEW S, NEW s \in Seq(S)
    PROVE  \E g : RemAllRun(g, b, s) /\ RemAll(b, s) = g[Len(s)]
<1> DEFINE N == Len(s)
           Eqn(it, m) == it = [V \in SUBSET (1 .. m) |->
                           IF V = {} THEN b ELSE RemAllStep(it[V \ {Max(V)}], s[Max(V)])]
           T == {m \in 0 .. N : \E it : Eqn(it, m)}
           it == CHOOSE it : Eqn(it, N)
<1>1. N \in Nat /\ DOMAIN s = 1 .. N
  OBVIOUS
<1>2. 0 \in T
  <2>1. SUBSET (1 .. 0) = {{}}
    OBVIOUS
  <2>2. Eqn([V \in SUBSET (1 .. 0) |-> b], 0)
    BY <2>1
  <2>3. 0 \in 0 .. N /\ \E f : Eqn(f, 0)
    <3> HIDE DEF Eqn
    <3>1. QED
      BY <1>1, <2>2
  <2>4. QED
    BY <2>3
<1>3. ASSUME NEW m \in 0 .. (N - 1), m \in T PROVE m + 1 \in T
  <2>1. PICK f : Eqn(f, m)
    BY <1>3
  <2>2. m \in Nat /\ m + 1 \in 0 .. N /\ m + 1 \in Nat
    BY <1>1
  <2> DEFINE h == [V \in SUBSET (1 .. (m + 1)) |->
                     IF V = {} THEN b ELSE IF m + 1 \in V THEN RemAllStep(f[V \ {m + 1}], s[m + 1]) ELSE f[V]]
  <2>3. f[{}] = b /\ \A V \in SUBSET (1 .. m) : V # {} => f[V] = RemAllStep(f[V \ {Max(V)}], s[Max(V)])
    BY <2>1
  <2>4. ASSUME NEW V \in SUBSET (1 .. m) PROVE h[V] = f[V] /\ V \in SUBSET (1 .. (m + 1)) /\ m + 1 \notin V
    <3>1. V \in SUBSET (1 .. (m + 1)) /\ m + 1 \notin V
      BY <2>2
    <3>2. QED
      BY <2>3, <3>1
  <2> HIDE DEF Eqn
  <2>5. ASSUME NEW V \in SUBSET (1 .. (m + 1)), V # {}
        PROVE  h[V] = RemAllStep(h[V \ {Max(V)}], s[Max(V)])
    <3>1. CASE m + 1 \in V
      <4>1. Max(V) = m + 1
        <5>1. V \in SUBSET Int /\ \A x \in V : m + 1 >= x
          BY <2>2
        <5>2. QED
          BY <3>1, <5>1, MaxIs
      <4>2. V \ {m + 1} \in SUBSET (1 .. m)
        BY <2>2
      <4>3. h[V \ {m + 1}] = f[V \ {m + 1}]
        BY <2>4, <4>2
      <4>4. h[V] = RemAllStep(f[V \ {m + 1}], s[m + 1])
        BY <3>1
      <4>5. QED
        BY <4>1, <4>3, <4>4
    <3>2. CASE m + 1 \notin V
      <4>1. V \in SUBSET (1 .. m)
        BY <2>2, <3>2
      <4>2. V \ {Max(V)} \in SUBSET (1 .. m)
        BY <4>1
      <4>3. h[V] = f[V] /\ h[V \ {Max(V)}] = f[V \ {Max(V)}]
        BY <2>4, <4>1, <4>2
      <4>4. QED
        BY <2>3, <2>5, <4>1, <4>3
    <3>3. QED
      BY <3>1, <3>2
  <2>6. Eqn(h, m + 1)
    <3>1. h[{}] = b
      OBVIOUS
    <3>2. \A V \in SUBSET (1 .. (m + 1)) : h[V] = IF V = {} THEN b ELSE RemAllStep(h[V \ {Max(V)}], s[Max(V)])
      BY <2>5, <3>1
    <3>3. h = [V \in SUBSET (1 .. (m + 1)) |-> h[V]]
      OBVIOUS
    <3> HIDE DEF h
    <3>4. QED
      BY <3>2, <3>3 DEF Eqn
  <2>7. QED
    BY <2>2, <2>6
<1>4. \A m \in 0 .. N : m \in T
  <2> HIDE DEF T, N
  <2>1. QED
    BY <1>1, <1>2, <1>3, UpTo
<1>5. \E f : Eqn(f, N)
  <2>0. N \in 0 .. N
    BY <1>1
  <2>1. N \in T
    <3> HIDE DEF T, N
    <3>1. QED
      BY <1>4, <2>0
  <2>2. QED
    BY <2>1
<1>6. Eqn(it, N)
  <2> HIDE DEF Eqn
  <2>1. QED
    BY <1>5
<1>7. RemAll(b, s) = it[1 .. N]
  BY <1>1 DEF RemAll, FoldLeft, MapThenFoldSet, RemAllStep
<1> HIDE DEF it
<1> DEFINE g == [n \in 0 .. N |-> it[1 .. n]]
<1>8. g[0] = b
  <2>1. 1 .. 0 = {} /\ 0 \in 0 .. N
    BY <1>1
  <2>2. QED
    BY <1>6, <2>1
<1>9. ASSUME NEW n \in 1 .. N
      PROVE  g[n] = RemAllStep(g[n - 1], s[n])
  <2>1. /\ 1 .. n \in SUBSET (1 .. N) /\ 1 .. n # {}
        /\ Max(1 .. n) = n /\ (1 .. n) \ {n} = 1 .. (n - 1)
    BY <1>1, MaxOfInitial
  <2>2. it[1 .. n] = RemAllStep(it[(1 .. n) \ {Max(1 .. n)}], s[Max(1 .. n)])
    BY <1>6, <2>1
  <2>3. n \in 0 .. N /\ n - 1 \in 0 .. N
    BY <1>1
  <2>4. g[n] = it[1 .. n] /\ g[n - 1] = it[1 .. (n - 1)]
    BY <2>3
  <2>5. QED
    BY <2>1, <2>2, <2>4
<1>10. g[N] = it[1 .. N]
  BY <1>1
<1> HIDE DEF g
<1>11. QED
  BY <1>7, <1>8, <1>9, <1>10 DEF RemAllRun

\* What the loop has done: the members A are gone.
RemAt(acc, enc, m, q, A) ==
    /\ DOMAIN acc = {"zobj", "raised", "stop", "deleted"}
    /\ Good(acc.zobj, Without(m, A), q) /\ acc.zobj.encoding = enc
    /\ acc.deleted = Cardinality(DOMAIN m) - Cardinality(DOMAIN m \ A)
    /\ acc.raised \in BOOLEAN /\ acc.stop \in BOOLEAN /\ (acc.stop => DOMAIN m \subseteq A)

\* Nothing is left for a loop that has stopped.
LEMMA RemStopped ==
    ASSUME NEW acc, NEW enc, NEW m, NEW q, NEW A, RemAt(acc, enc, m, q, A), acc.stop, NEW B, A \subseteq B
    PROVE  RemAt(acc, enc, m, q, B)
<1>1. DOMAIN m \subseteq A /\ DOMAIN m \subseteq B
  BY DEF RemAt
<1>2. DOMAIN m \ A = {} /\ DOMAIN m \ B = {}
  BY <1>1
<1>3. Without(m, A) = Without(m, B)
  BY <1>2 DEF Without
<1>4. QED
  BY <1>1, <1>2, <1>3 DEF RemAt

\* An argument that raises.
LEMMA RemBad ==
    ASSUME NEW acc, NEW enc, NEW m, NEW q, NEW A, RemAt(acc, enc, m, q, A), ~acc.stop, ~acc.raised
    PROVE  RemAt(RemStep(acc, Bad), enc, m, q, A) /\ RemStep(acc, Bad).raised = TRUE
<1> DEFINE r == [acc EXCEPT !.raised = TRUE]
<1>1. RemStep(acc, Bad) = r
  BY DEF RemStep
<1>2. DOMAIN acc = {"zobj", "raised", "stop", "deleted"}
  BY DEF RemAt
<1>3. DOMAIN r = DOMAIN acc /\ r.zobj = acc.zobj /\ r.stop = acc.stop /\ r.deleted = acc.deleted /\ r.raised = TRUE
  BY <1>2
<1> HIDE DEF r
<1>4. QED
  BY <1>1, <1>2, <1>3 DEF RemAt

\* An argument that is a member.
LEMMA RemOne ==
    ASSUME NEW acc, NEW enc, NEW m, GoodMap(m), NEW q, NEW A, RemAt(acc, enc, m, q, A), ~acc.stop, ~acc.raised,
           NEW x \in Members
    PROVE  RemAt(RemStep(acc, x), enc, m, q, A \cup {x}) /\ RemStep(acc, x).raised = FALSE
<1> DEFINE z == zsetDel(acc.zobj, x)
           r == [zobj |-> z, raised |-> FALSE, stop |-> zsetLength(z) = 0,
                 deleted |-> acc.deleted + zsetLength(acc.zobj) - zsetLength(z)]
           C == A \cup {x}
<1>1. x # Bad
  BY SortedSetAssumption
<1>2. RemStep(acc, x) = r
  BY <1>1 DEF RemStep
<1>3. Good(acc.zobj, Without(m, A), q) /\ acc.zobj.encoding = enc
  BY DEF RemAt
<1>4. Good(z, Without(Without(m, A), {x}), q) /\ z.encoding = enc
  BY <1>3, DelIs
<1>5. Good(z, Without(m, C), q)
  BY <1>4, WithoutMore
<1> HIDE DEF z
<1>6. /\ DOMAIN r = {"zobj", "raised", "stop", "deleted"} /\ r.zobj = z /\ r.raised = FALSE
      /\ r.stop = (zsetLength(z) = 0) /\ r.deleted = acc.deleted + zsetLength(acc.zobj) - zsetLength(z)
  OBVIOUS
<1> HIDE DEF r, C
<1>7. zsetLength(acc.zobj) = Cardinality(DOMAIN Without(m, A)) /\ zsetLength(acc.zobj) \in Nat
  BY <1>3, WalkOf
<1>8. zsetLength(z) = Cardinality(DOMAIN Without(m, C)) /\ zsetLength(z) \in Nat
  BY <1>5, WalkOf
<1>9. DOMAIN Without(m, A) = DOMAIN m \ A /\ DOMAIN Without(m, C) = DOMAIN m \ C
  BY WithoutIs
<1>10. IsFiniteSet(DOMAIN m) /\ Cardinality(DOMAIN m) \in Nat
  <2>1. MapFacts(m)
    BY MapIs
  <2>2. QED
    BY <2>1 DEF MapFacts
<1>11. r.deleted = Cardinality(DOMAIN m) - Cardinality(DOMAIN m \ C)
  <2>1. acc.deleted = Cardinality(DOMAIN m) - Cardinality(DOMAIN m \ A)
    BY DEF RemAt
  <2>2. QED
    BY <1>6, <1>7, <1>8, <1>9, <1>10, <2>1
<1>12. r.stop => DOMAIN m \subseteq C
  <2>1. IsFiniteSet(DOMAIN m \ C)
    BY <1>10, FS_Subset
  <2>2. Cardinality(DOMAIN m \ C) = 0 <=> DOMAIN m \ C = {}
    BY <2>1, FS_EmptySet
  <2>3. QED
    BY <1>6, <1>8, <1>9, <2>2
<1>13. r.stop \in BOOLEAN
  BY <1>6
<1>14. RemAt(r, enc, m, q, C)
  BY <1>4, <1>5, <1>6, <1>11, <1>12, <1>13 DEF RemAt
<1>15. QED
  BY <1>2, <1>6, <1>14 DEF C

-----------------------------------------------------------------------------
(* Runs. *)

\* The places from i on at which a run stops are I.
RunIn(s, i, I) ==
    IF i \notin DOMAIN s THEN <<>> ELSE SubSeq(s, i, IF I # {} THEN Min(I) - 1 ELSE Len(s))

\* It ends before the first of them.
LEMMA RunInIs ==
    ASSUME NEW D, NEW s \in Seq(D), NEW i \in 1 .. Len(s), NEW I, I \subseteq i .. Len(s)
    PROVE  \E b \in (i - 1) .. Len(s) :
              /\ RunIn(s, i, I) = SubSeq(s, i, b) /\ \A j \in i .. b : j \notin I
              /\ b < Len(s) => b + 1 \in I
<1>1. Len(s) \in Nat /\ i \in DOMAIN s
  OBVIOUS
<1>2. CASE I = {}
  <2>1. RunIn(s, i, I) = SubSeq(s, i, Len(s))
    BY <1>1, <1>2 DEF RunIn
  <2>2. Len(s) \in (i - 1) .. Len(s)
    BY <1>1
  <2>3. QED
    BY <1>1, <1>2, <2>1, <2>2
<1>3. CASE I # {}
  <2>1. PICK a \in I : \A x \in I : a <= x
    <3>1. I \in SUBSET (0 .. Len(s))
      BY <1>1
    <3>2. QED
      BY <1>1, <1>3, <3>1, LeastOf
  <2>2. I \in SUBSET Int
    BY <1>1
  <2>3. Min(I) = a
    BY <2>1, <2>2, MinIs
  <2>4. RunIn(s, i, I) = SubSeq(s, i, a - 1)
    BY <1>1, <1>3, <2>3 DEF RunIn
  <2>5. a \in i .. Len(s)
    BY <2>1
  <2>6. a - 1 \in (i - 1) .. Len(s) /\ (a - 1) + 1 = a /\ \A j \in i .. (a - 1) : j \notin I
    BY <1>1, <2>1, <2>5
  <2>7. QED
    BY <2>1, <2>4, <2>6
<1>4. QED
  BY <1>2, <1>3

\* The arguments before the one that raises.
RunOfGood(s) == RunFrom(s, 1, LAMBDA e : e # Bad)

\* They are the first k, and another one follows only if it raises.
LEMMA RunOfGoodIs ==
    ASSUME NEW D, NEW s \in Seq(D)
    PROVE  \E k \in 0 .. Len(s) :
              /\ RunOfGood(s) = SubSeq(s, 1, k) /\ \A i \in 1 .. k : s[i] # Bad
              /\ k < Len(s) => s[k + 1] = Bad
<1>1. Len(s) \in Nat /\ DOMAIN s = 1 .. Len(s)
  OBVIOUS
<1> DEFINE I == {i \in 1 .. Len(s) : ~(s[i] # Bad)}
<1>2. CASE Len(s) = 0
  <2>1. RunOfGood(s) = <<>> /\ s = <<>>
    BY <1>1, <1>2 DEF RunOfGood, RunFrom
  <2>2. SubSeq(s, 1, 0) = <<>>
    BY <2>1
  <2>3. 0 \in 0 .. Len(s)
    BY <1>1
  <2>4. QED
    BY <1>2, <2>1, <2>2, <2>3
<1>3. CASE Len(s) # 0
  <2>1. 1 \in 1 .. Len(s) /\ 1 \in DOMAIN s
    BY <1>1, <1>3
  <2>2. RunOfGood(s) = SubSeq(s, 1, IF (IF I # {} THEN Min(I) ELSE 0) = 0 THEN Len(s) ELSE (IF I # {} THEN Min(I) ELSE 0) - 1)
    BY <2>1 DEF RunOfGood, RunFrom, SelectInSubSeq
  <2>3. I # {} => Min(I) # 0
    <3>1. SUFFICES ASSUME I # {} PROVE Min(I) # 0
      OBVIOUS
    <3>2. I \in SUBSET (0 .. Len(s)) /\ I \in SUBSET Int
      BY <1>1
    <3>3. PICK a \in I : \A x \in I : a <= x
      <4> HIDE DEF I
      <4>1. QED
        BY <1>1, <3>1, <3>2, LeastOf
    <3>4. Min(I) = a
      <4> HIDE DEF I
      <4>1. QED
        BY <3>2, <3>3, MinIs
    <3>5. QED
      BY <3>3, <3>4
  <2>4. RunOfGood(s) = RunIn(s, 1, I)
    <3> HIDE DEF I
    <3>1. QED
      BY <2>1, <2>2, <2>3 DEF RunIn
  <2>5. I \subseteq 1 .. Len(s)
    OBVIOUS
  <2>6. PICK k \in (1 - 1) .. Len(s) :
           /\ RunIn(s, 1, I) = SubSeq(s, 1, k) /\ \A j \in 1 .. k : j \notin I
           /\ k < Len(s) => k + 1 \in I
    <3> HIDE DEF I
    <3>1. QED
      BY <2>1, <2>5, RunInIs
  <2>7. k \in 0 .. Len(s)
    BY <2>6
  <2>8. \A i \in 1 .. Len(s) : i \in I <=> s[i] = Bad
    OBVIOUS
  <2>9. \A i \in 1 .. k : s[i] # Bad
    <3> HIDE DEF I
    <3>1. \A i \in 1 .. k : i \in 1 .. Len(s)
      BY <1>1, <2>7
    <3>2. QED
      BY <2>6, <2>8, <3>1
  <2>10. k < Len(s) => s[k + 1] = Bad
    <3> HIDE DEF I
    <3>1. k < Len(s) => k + 1 \in 1 .. Len(s)
      BY <1>1, <2>7
    <3>2. QED
      BY <2>6, <2>8, <3>1
  <2>11. RunOfGood(s) = SubSeq(s, 1, k)
    BY <2>4, <2>6
  <2>12. QED
    BY <2>7, <2>9, <2>10, <2>11
<1>4. QED
  BY <1>2, <1>3

\* What zrem leaves and counts.
Removes(r, enc, m, p, gone, bad) ==
    /\ \E q : Good(r.zobj, Without(m, gone), q) /\ (q = p \/ (bad /\ q = p + 1))
    /\ r.zobj.encoding = enc
    /\ r.raised \in BOOLEAN /\ (r.raised \/ r.deleted = Cardinality(gone \cap DOMAIN m))

\* zrem takes out the arguments before the one that raises.
LEMMA ZremIs ==
    ASSUME NEW z, NEW m, NEW p \in Nat, Good(z, m, p), NEW eles \in Seq(Members \cup {Bad})
    PROVE  Removes(zrem(z, eles), z.encoding, m, p, Range(RunOfGood(eles)), Bad \in Range(eles))
<1> DEFINE N == Len(eles)
           b == [zobj |-> Pause(z), raised |-> FALSE, stop |-> FALSE, deleted |-> 0]
           enc == z.encoding
           q == IF enc = "skiplist" THEN p + 1 ELSE p
<1>1. N \in Nat /\ DOMAIN eles = 1 .. N /\ \A i \in 1 .. N : eles[i] \in Members \cup {Bad}
  OBVIOUS
<1>2. PICK k \in 0 .. N : /\ RunOfGood(eles) = SubSeq(eles, 1, k) /\ \A i \in 1 .. k : eles[i] # Bad
                          /\ k < N => eles[k + 1] = Bad
  BY RunOfGoodIs
<1>3. PICK g : RemAllRun(g, b, eles) /\ RemAll(b, eles) = g[N]
  <2> HIDE DEF b
  <2>1. QED
    BY RemAllFold
<1>4. zrem(z, eles) = RemDone(RemAll(b, eles))
  BY DEF zrem, RemAll
<1>5. g[0] = b /\ \A n \in 1 .. N : g[n] = RemStep(g[n - 1], eles[n])
  <2> HIDE DEF b
  <2>1. QED
    BY <1>3 DEF RemAllRun, RemAllStep
<1>6. GoodMap(m) /\ MapFacts(m)
  BY GoodCases
<1>7. IsFiniteSet(DOMAIN m) /\ Cardinality(DOMAIN m) \in Nat /\ m \in [DOMAIN m -> Int]
  BY <1>6 DEF MapFacts
<1> DEFINE A(n) == First(eles, IF n <= k THEN n ELSE k)
           P(n) == /\ RemAt(g[n], enc, m, q, A(n)) /\ (g[n].raised => n > k)
                   /\ (n > k => g[n].raised \/ g[n].stop)
           T == {n \in 0 .. N : P(n)}
<1>8. Good(Pause(z), m, q) /\ Pause(z).encoding = enc
  BY PauseGood
<1>9. 0 \in T
  <2>1. A(0) = {}
    BY <1>1, <1>2 DEF First
  <2>2. Without(m, {}) = m
    <3> DEFINE E == {}
    <3> HIDE DEF E
    <3>1. E = {} /\ Without(m, E) = m
      BY <1>6, WithoutNone DEF E
    <3>2. QED
      BY <3>1
  <2>3. b.zobj = Pause(z) /\ b.raised = FALSE /\ b.stop = FALSE /\ b.deleted = 0 /\ DOMAIN b = {"zobj", "raised", "stop", "deleted"}
    OBVIOUS
  <2> HIDE DEF b, A, q
  <2>4. Cardinality(DOMAIN m) - Cardinality(DOMAIN m \ {}) = 0
    <3>1. DOMAIN m \ {} = DOMAIN m
      OBVIOUS
    <3>2. QED
      BY <1>7, <3>1
  <2>5. RemAt(b, enc, m, q, {})
    BY <1>8, <2>2, <2>3, <2>4 DEF RemAt
  <2>6. P(0)
    <3>1. ~(0 > k)
      BY <1>2
    <3>2. RemAt(g[0], enc, m, q, A(0)) /\ g[0].raised = FALSE
      BY <1>5, <2>1, <2>3, <2>5
    <3>3. QED
      BY <3>1, <3>2
  <2>7. 0 \in 0 .. N
    BY <1>1
  <2>8. QED
    BY <2>6, <2>7
<1> HIDE DEF b, q
<1>10. ASSUME NEW n \in 0 .. (N - 1), n \in T PROVE n + 1 \in T
  <2> DEFINE j == n + 1
             x == eles[j]
             acc == g[n]
  <2>1. j \in 1 .. N /\ j \in 0 .. N /\ j - 1 = n /\ n \in Nat /\ k \in Nat
    BY <1>1, <1>2
  <2>2. RemAt(acc, enc, m, q, A(n)) /\ (acc.raised => n > k) /\ (n > k => acc.raised \/ acc.stop)
    BY <1>10
  <2>3. g[j] = RemStep(acc, x)
    BY <1>5, <2>1
  <2>4. A(n) \subseteq A(j) /\ (n >= k => A(j) = A(n)) /\ (n < k => A(j) = A(n) \cup {x})
    <3>1. n < k => First(eles, j) = First(eles, n) \cup {x}
      BY <1>1, <2>1 DEF First
    <3>2. n < k => A(j) = First(eles, j) /\ A(n) = First(eles, n)
      BY <2>1
    <3>3. n >= k => A(j) = First(eles, k) /\ A(n) = First(eles, k)
      BY <2>1
    <3> HIDE DEF A, x, j
    <3>4. n < k \/ n >= k
      BY <2>1
    <3>5. QED
      BY <3>1, <3>2, <3>3, <3>4
  <2>5. CASE acc.stop \/ acc.raised
    <3>1. g[j] = acc
      BY <2>3, <2>5 DEF RemStep
    <3>2. RemAt(acc, enc, m, q, A(j))
      <4>1. CASE acc.stop
        <5> HIDE DEF A, acc, j
        <5>1. QED
          BY <2>2, <2>4, <4>1, RemStopped
      <4>2. CASE acc.raised
        <5>1. n >= k
          BY <2>1, <2>2, <4>2
        <5> HIDE DEF A, acc, j
        <5>2. QED
          BY <2>2, <2>4, <5>1
      <4>3. QED
        BY <2>5, <4>1, <4>2
    <3>3. g[j].raised => j > k
      BY <2>1, <2>2, <3>1
    <3> HIDE DEF A, acc
    <3>4. P(j)
      BY <2>5, <3>1, <3>2, <3>3
    <3>5. QED
      BY <2>1, <3>4
  <2>6. CASE ~acc.stop /\ ~acc.raised /\ n < k
    <3>1. x \in Members
      <4>1. j \in 1 .. k
        BY <2>1, <2>6
      <4>2. QED
        BY <1>1, <1>2, <2>1, <4>1
    <3>2. RemAt(RemStep(acc, x), enc, m, q, A(n) \cup {x}) /\ RemStep(acc, x).raised = FALSE
      <4> HIDE DEF A, acc, x
      <4>1. QED
        BY <1>6, <2>2, <2>6, <3>1, RemOne
    <3>3. RemAt(g[j], enc, m, q, A(j)) /\ g[j].raised = FALSE
      <4> HIDE DEF A, acc, x, j
      <4>1. QED
        BY <2>3, <2>4, <2>6, <3>2
    <3>4. ~(j > k)
      BY <2>1, <2>6
    <3>5. P(j)
      <4> HIDE DEF A, acc, x, j
      <4>1. QED
        BY <3>3, <3>4
    <3>6. QED
      BY <2>1, <3>5
  <2>7. CASE ~acc.stop /\ ~acc.raised /\ n >= k
    <3>1. n = k
      BY <2>1, <2>2, <2>7
    <3>2. x = Bad
      BY <1>1, <1>2, <2>1, <3>1
    <3>3. RemAt(RemStep(acc, Bad), enc, m, q, A(n)) /\ RemStep(acc, Bad).raised = TRUE
      <4> HIDE DEF A, acc, x
      <4>1. QED
        BY <2>2, <2>7, RemBad
    <3>4. RemAt(g[j], enc, m, q, A(j)) /\ g[j].raised = TRUE
      <4> HIDE DEF A, acc, x, j
      <4>1. QED
        BY <2>3, <2>4, <2>7, <3>2, <3>3
    <3>5. j > k
      BY <2>1, <3>1
    <3>6. P(j)
      <4> HIDE DEF A, acc, x, j
      <4>1. QED
        BY <3>4, <3>5
    <3>7. QED
      BY <2>1, <3>6
  <2>8. QED
    <3>1. n < k \/ n >= k
      BY <2>1
    <3> HIDE DEF acc, T
    <3>2. QED
      BY <2>5, <2>6, <2>7, <3>1
<1>11. \A n \in 0 .. N : n \in T
  <2> HIDE DEF T, N
  <2>1. QED
    BY <1>1, <1>9, <1>10, UpTo
<1>12. P(N)
  <2>1. N \in 0 .. N
    BY <1>1
  <2>2. N \in T
    <3> HIDE DEF T, N
    <3>1. QED
      BY <1>11, <2>1
  <2>3. QED
    BY <2>2
<1> DEFINE gone == First(eles, k)
           acc == g[N]
<1>13. A(N) = gone
  BY <1>1, <1>2
<1>14. RemAt(acc, enc, m, q, gone) /\ (acc.raised => N > k)
  <2> HIDE DEF A, gone
  <2>1. QED
    BY <1>12, <1>13
<1>15. Range(RunOfGood(eles)) = gone
  <2>1. ToSet(SubSeq(eles, 1, k)) = {eles[i] : i \in 1 .. k} /\ SubSeq(eles, 1, k) \in Seq(Members \cup {Bad})
    BY <1>1, <1>2, SubSeqIs
  <2>2. Range(SubSeq(eles, 1, k)) = ToSet(SubSeq(eles, 1, k))
    BY DEF Range, ToSet
  <2>3. QED
    BY <1>2, <2>1, <2>2 DEF First
<1>16. Cardinality(DOMAIN m) - Cardinality(DOMAIN m \ gone) = Cardinality(gone \cap DOMAIN m)
  <2> HIDE DEF gone
  <2>1. Cardinality(DOMAIN m \ gone) = Cardinality(DOMAIN m) - Cardinality(DOMAIN m \cap gone)
    BY <1>7, FS_Difference
  <2>2. gone \cap DOMAIN m = DOMAIN m \cap gone
    OBVIOUS
  <2>3. Cardinality(DOMAIN m \cap gone) \in Nat
    <3>1. IsFiniteSet(DOMAIN m \cap gone)
      BY <1>7, FS_Subset
    <3>2. QED
      BY <3>1, FS_CardinalityType
  <2> DEFINE a == Cardinality(DOMAIN m)
             c == Cardinality(DOMAIN m \ gone)
             d == Cardinality(DOMAIN m \cap gone)
  <2>4. a \in Nat /\ d \in Nat /\ c = a - d /\ Cardinality(gone \cap DOMAIN m) = d
    BY <1>7, <2>1, <2>2, <2>3
  <2> HIDE DEF a, c, d
  <2>5. a - c = d
    BY <2>4
  <2>6. QED
    BY <2>4, <2>5 DEF a, c
<1>17. Bad \in Range(eles) \/ ~acc.raised
  <2>1. acc.raised => k < N
    BY <1>1, <1>2, <1>14
  <2>2. k < N => k + 1 \in DOMAIN eles /\ eles[k + 1] = Bad
    BY <1>1, <1>2
  <2>3. QED
    BY <2>1, <2>2 DEF Range
<1> HIDE DEF gone, acc, A, P, T
<1> DEFINE r == RemDone(acc)
<1>18. Removes(r, enc, m, p, gone, Bad \in Range(eles))
  <2>1. /\ Good(acc.zobj, Without(m, gone), q) /\ acc.zobj.encoding = enc /\ acc.raised \in BOOLEAN
        /\ acc.deleted = Cardinality(gone \cap DOMAIN m) /\ DOMAIN acc = {"zobj", "raised", "stop", "deleted"}
    BY <1>14, <1>16 DEF RemAt
  <2>2. q \in Nat /\ (q = p \/ q = p + 1)
    BY DEF q
  <2>3. CASE acc.raised
    <3>1. r = acc
      BY <2>3 DEF RemDone
    <3>2. QED
      BY <1>17, <2>1, <2>2, <2>3, <3>1 DEF Removes
  <2>4. CASE ~acc.raised
    <3> DEFINE y == Resume(acc.zobj)
    <3>1. r = [acc EXCEPT !.zobj = y]
      BY <2>4 DEF RemDone
    <3> HIDE DEF y
    <3>2. r.zobj = y /\ r.raised = acc.raised /\ r.deleted = acc.deleted
      BY <2>1, <3>1
    <3>3. q \in Int /\ (acc.zobj.encoding = "skiplist" => q > 0)
      BY <2>1 DEF q
    <3>4. Good(y, Without(m, gone), IF acc.zobj.encoding = "skiplist" THEN q - 1 ELSE q) /\ y.encoding = acc.zobj.encoding
      BY <2>1, <3>3, ResumeGood DEF y
    <3>5. (IF acc.zobj.encoding = "skiplist" THEN q - 1 ELSE q) = p
      BY <2>1 DEF q
    <3>6. Good(y, Without(m, gone), p) /\ y.encoding = enc
      BY <2>1, <3>4, <3>5
    <3> HIDE DEF r
    <3>7. QED
      BY <2>1, <3>2, <3>6 DEF Removes
  <2>5. QED
    BY <2>1, <2>3, <2>4
<1>19. zrem(z, eles) = r
  BY <1>3, <1>4 DEF acc
<1> HIDE DEF r
<1>20. QED
  BY <1>15, <1>18, <1>19

\* The loop of zremrange.
DelAll(b, s) == FoldLeft(LAMBDA y, e : zsetDel(y, e.ele), b, s)

DelAllStep(acc, x) == zsetDel(acc, x.ele)

DelAllRun(g, b, s) == g[0] = b /\ \A n \in 1 .. Len(s) : g[n] = DelAllStep(g[n - 1], s[n])

\* Such a loop passes through the values of its accumulator.
LEMMA DelAllFold ==
    ASSUME NEW b, NEW S, NEW s \in Seq(S)
    PROVE  \E g : DelAllRun(g, b, s) /\ DelAll(b, s) = g[Len(s)]
<1> DEFINE N == Len(s)
           Eqn(it, m) == it = [V \in SUBSET (1 .. m) |->
                           IF V = {} THEN b ELSE DelAllStep(it[V \ {Max(V)}], s[Max(V)])]
           T == {m \in 0 .. N : \E it : Eqn(it, m)}
           it == CHOOSE it : Eqn(it, N)
<1>1. N \in Nat /\ DOMAIN s = 1 .. N
  OBVIOUS
<1>2. 0 \in T
  <2>1. SUBSET (1 .. 0) = {{}}
    OBVIOUS
  <2>2. Eqn([V \in SUBSET (1 .. 0) |-> b], 0)
    BY <2>1
  <2>3. 0 \in 0 .. N /\ \E f : Eqn(f, 0)
    <3> HIDE DEF Eqn
    <3>1. QED
      BY <1>1, <2>2
  <2>4. QED
    BY <2>3
<1>3. ASSUME NEW m \in 0 .. (N - 1), m \in T PROVE m + 1 \in T
  <2>1. PICK f : Eqn(f, m)
    BY <1>3
  <2>2. m \in Nat /\ m + 1 \in 0 .. N /\ m + 1 \in Nat
    BY <1>1
  <2> DEFINE h == [V \in SUBSET (1 .. (m + 1)) |->
                     IF V = {} THEN b ELSE IF m + 1 \in V THEN DelAllStep(f[V \ {m + 1}], s[m + 1]) ELSE f[V]]
  <2>3. f[{}] = b /\ \A V \in SUBSET (1 .. m) : V # {} => f[V] = DelAllStep(f[V \ {Max(V)}], s[Max(V)])
    BY <2>1
  <2>4. ASSUME NEW V \in SUBSET (1 .. m) PROVE h[V] = f[V] /\ V \in SUBSET (1 .. (m + 1)) /\ m + 1 \notin V
    <3>1. V \in SUBSET (1 .. (m + 1)) /\ m + 1 \notin V
      BY <2>2
    <3>2. QED
      BY <2>3, <3>1
  <2> HIDE DEF Eqn
  <2>5. ASSUME NEW V \in SUBSET (1 .. (m + 1)), V # {}
        PROVE  h[V] = DelAllStep(h[V \ {Max(V)}], s[Max(V)])
    <3>1. CASE m + 1 \in V
      <4>1. Max(V) = m + 1
        <5>1. V \in SUBSET Int /\ \A x \in V : m + 1 >= x
          BY <2>2
        <5>2. QED
          BY <3>1, <5>1, MaxIs
      <4>2. V \ {m + 1} \in SUBSET (1 .. m)
        BY <2>2
      <4>3. h[V \ {m + 1}] = f[V \ {m + 1}]
        BY <2>4, <4>2
      <4>4. h[V] = DelAllStep(f[V \ {m + 1}], s[m + 1])
        BY <3>1
      <4>5. QED
        BY <4>1, <4>3, <4>4
    <3>2. CASE m + 1 \notin V
      <4>1. V \in SUBSET (1 .. m)
        BY <2>2, <3>2
      <4>2. V \ {Max(V)} \in SUBSET (1 .. m)
        BY <4>1
      <4>3. h[V] = f[V] /\ h[V \ {Max(V)}] = f[V \ {Max(V)}]
        BY <2>4, <4>1, <4>2
      <4>4. QED
        BY <2>3, <2>5, <4>1, <4>3
    <3>3. QED
      BY <3>1, <3>2
  <2>6. Eqn(h, m + 1)
    <3>1. h[{}] = b
      OBVIOUS
    <3>2. \A V \in SUBSET (1 .. (m + 1)) : h[V] = IF V = {} THEN b ELSE DelAllStep(h[V \ {Max(V)}], s[Max(V)])
      BY <2>5, <3>1
    <3>3. h = [V \in SUBSET (1 .. (m + 1)) |-> h[V]]
      OBVIOUS
    <3> HIDE DEF h
    <3>4. QED
      BY <3>2, <3>3 DEF Eqn
  <2>7. QED
    BY <2>2, <2>6
<1>4. \A m \in 0 .. N : m \in T
  <2> HIDE DEF T, N
  <2>1. QED
    BY <1>1, <1>2, <1>3, UpTo
<1>5. \E f : Eqn(f, N)
  <2>0. N \in 0 .. N
    BY <1>1
  <2>1. N \in T
    <3> HIDE DEF T, N
    <3>1. QED
      BY <1>4, <2>0
  <2>2. QED
    BY <2>1
<1>6. Eqn(it, N)
  <2> HIDE DEF Eqn
  <2>1. QED
    BY <1>5
<1>7. DelAll(b, s) = it[1 .. N]
  BY <1>1 DEF DelAll, FoldLeft, MapThenFoldSet, DelAllStep
<1> HIDE DEF it
<1> DEFINE g == [n \in 0 .. N |-> it[1 .. n]]
<1>8. g[0] = b
  <2>1. 1 .. 0 = {} /\ 0 \in 0 .. N
    BY <1>1
  <2>2. QED
    BY <1>6, <2>1
<1>9. ASSUME NEW n \in 1 .. N
      PROVE  g[n] = DelAllStep(g[n - 1], s[n])
  <2>1. /\ 1 .. n \in SUBSET (1 .. N) /\ 1 .. n # {}
        /\ Max(1 .. n) = n /\ (1 .. n) \ {n} = 1 .. (n - 1)
    BY <1>1, MaxOfInitial
  <2>2. it[1 .. n] = DelAllStep(it[(1 .. n) \ {Max(1 .. n)}], s[Max(1 .. n)])
    BY <1>6, <2>1
  <2>3. n \in 0 .. N /\ n - 1 \in 0 .. N
    BY <1>1
  <2>4. g[n] = it[1 .. n] /\ g[n - 1] = it[1 .. (n - 1)]
    BY <2>3
  <2>5. QED
    BY <2>1, <2>2, <2>4
<1>10. g[N] = it[1 .. N]
  BY <1>1
<1> HIDE DEF g
<1>11. QED
  BY <1>7, <1>8, <1>9, <1>10 DEF DelAllRun

\* DeleteAll takes out the members of the entries.
LEMMA DeleteAllIs ==
    ASSUME NEW z, NEW m, NEW p, Good(z, m, p), NEW M, NEW keys \in Seq(Members)
    PROVE  /\ Good(DeleteAll(z, Paired(M, keys)), Without(m, ToSet(keys)), p)
           /\ DeleteAll(z, Paired(M, keys)).encoding = z.encoding
<1> DEFINE N == Len(keys)
           s == Paired(M, keys)
<1>1. N \in Nat /\ DOMAIN keys = 1 .. N
  OBVIOUS
<1>2. PairedFacts(M, keys)
  BY PairedIs
<1>3. /\ Len(s) = N /\ s \in Seq([ele : ToSet(keys), score : {M[x] : x \in ToSet(keys)}])
      /\ \A i \in 1 .. N : s[i].ele = keys[i]
  BY <1>2 DEF PairedFacts
<1> HIDE DEF s
<1>4. PICK g : DelAllRun(g, z, s) /\ DelAll(z, s) = g[N]
  BY <1>3, DelAllFold
<1>5. DeleteAll(z, s) = DelAll(z, s)
  BY DEF DeleteAll, DelAll
<1>6. g[0] = z /\ \A n \in 1 .. N : g[n] = zsetDel(g[n - 1], keys[n])
  BY <1>3, <1>4 DEF DelAllRun, DelAllStep
<1>7. GoodMap(m)
  BY GoodCases
<1>8. /\ First(keys, 0) = {} /\ First(keys, N) = ToSet(keys)
      /\ \A k \in 1 .. N : First(keys, k) = First(keys, k - 1) \cup {keys[k]} /\ keys[k] \in Members
  BY FirstIs
<1> DEFINE P(n) == Good(g[n], Without(m, First(keys, n)), p) /\ g[n].encoding = z.encoding
           T == {n \in 0 .. N : P(n)}
<1>9. 0 \in T
  <2>1. Without(m, {}) = m
    <3> DEFINE E == {}
    <3> HIDE DEF E
    <3>1. E = {} /\ Without(m, E) = m
      BY <1>7, WithoutNone DEF E
    <3>2. QED
      BY <3>1
  <2>2. P(0)
    BY <1>6, <1>8, <2>1
  <2>3. QED
    BY <1>1, <2>2
<1>10. ASSUME NEW n \in 0 .. (N - 1), n \in T PROVE n + 1 \in T
  <2> DEFINE j == n + 1
  <2>1. j \in 1 .. N /\ j \in 0 .. N /\ j - 1 = n
    BY <1>1
  <2>2. Good(g[n], Without(m, First(keys, n)), p) /\ g[n].encoding = z.encoding
    BY <1>10
  <2>3. First(keys, j) = First(keys, n) \cup {keys[j]} /\ keys[j] \in Members /\ g[j] = zsetDel(g[n], keys[j])
    BY <1>6, <1>8, <2>1
  <2> HIDE DEF j
  <2>4. Good(g[j], Without(Without(m, First(keys, n)), {keys[j]}), p) /\ g[j].encoding = z.encoding
    BY <2>2, <2>3, DelIs
  <2>5. P(j)
    BY <2>3, <2>4, WithoutMore
  <2>6. QED
    BY <2>1, <2>5 DEF j
<1>11. \A n \in 0 .. N : n \in T
  <2> HIDE DEF T, N
  <2>1. QED
    BY <1>1, <1>9, <1>10, UpTo
<1>12. P(N)
  <2>1. N \in 0 .. N
    BY <1>1
  <2>2. N \in T
    <3> HIDE DEF T, N
    <3>1. QED
      BY <1>11, <2>1
  <2>3. QED
    BY <2>2
<1>13. QED
  BY <1>4, <1>5, <1>8, <1>12 DEF s

\* The loop of zremrange, with the pause around it.
LEMMA RemoveEntries ==
    ASSUME NEW z, NEW m, NEW p \in Nat, Good(z, m, p), NEW M, NEW keys \in Seq(Members)
    PROVE  /\ Good(Resume(DeleteAll(Pause(z), Paired(M, keys))), Without(m, ToSet(keys)), p)
           /\ Resume(DeleteAll(Pause(z), Paired(M, keys))).encoding = z.encoding
<1> DEFINE q == IF z.encoding = "skiplist" THEN p + 1 ELSE p
           y == DeleteAll(Pause(z), Paired(M, keys))
<1>1. Good(Pause(z), m, q) /\ Pause(z).encoding = z.encoding
  BY PauseGood
<1>2. Good(y, Without(m, ToSet(keys)), q) /\ y.encoding = z.encoding
  <2> HIDE DEF q
  <2>1. QED
    BY <1>1, DeleteAllIs
<1>3. q \in Int /\ (z.encoding = "skiplist" => q > 0) /\ (IF z.encoding = "skiplist" THEN q - 1 ELSE q) = p
  OBVIOUS
<1> HIDE DEF q, y
<1>4. Good(Resume(y), Without(m, ToSet(keys)), IF y.encoding = "skiplist" THEN q - 1 ELSE q) /\ Resume(y).encoding = y.encoding
  BY <1>2, <1>3, ResumeGood
<1>5. QED
  BY <1>2, <1>3, <1>4 DEF y

-----------------------------------------------------------------------------
(* Parts of an order. *)

\* The smaller and the larger of two numbers.
LEMMA OfTwo ==
    ASSUME NEW a \in Int, NEW b \in Int
    PROVE  Min({a, b}) = (IF a <= b THEN a ELSE b) /\ Max({a, b}) = (IF a >= b THEN a ELSE b)
<1>1. Min({a, b}) = IF a <= b THEN a ELSE b
  <2> DEFINE c == IF a <= b THEN a ELSE b
             S == {a, b}
  <2>1. c \in S /\ S \in SUBSET Int /\ \A x \in S : c <= x
    OBVIOUS
  <2> HIDE DEF c, S
  <2>2. Min(S) = c
    BY <2>1, MinIs
  <2>3. QED
    BY <2>2 DEF c, S
<1>2. Max({a, b}) = IF a >= b THEN a ELSE b
  <2> DEFINE c == IF a >= b THEN a ELSE b
             S == {a, b}
  <2>1. c \in S /\ S \in SUBSET Int /\ \A x \in S : c >= x
    OBVIOUS
  <2> HIDE DEF c, S
  <2>2. Max(S) = c
    BY <2>1, MaxIs
  <2>3. QED
    BY <2>2 DEF c, S
<1>3. QED
  BY <1>1, <1>2

\* The members at the places from a to b.
Between(s, a, b) == {s[i] : i \in a .. b}

\* Their order is a part of the order.
LEMMA SubOrder ==
    ASSUME NEW m, GoodMap(m), NEW a \in Int, NEW b \in Int, a >= 1, b <= Len(Sorted(m))
    PROVE  /\ GoodMap(Only(m, Between(Sorted(m), a, b)))
           /\ Sorted(Only(m, Between(Sorted(m), a, b))) = SubSeq(Sorted(m), a, b)
<1> DEFINE ord == Sorted(m)
           K == Between(ord, a, b)
           o == SubSeq(ord, a, b)
           w == Only(m, K)
<1>1. MapFacts(m)
  BY MapIs
<1>2. ord \in Seq(DOMAIN m) /\ Len(ord) \in Nat /\ m \in [DOMAIN m -> Int] /\ DOMAIN m \subseteq Members /\ DOMAIN m \subseteq Nat \ {0}
  BY <1>1 DEF MapFacts
<1>3. /\ o \in Seq(DOMAIN m) /\ Len(o) = (IF a <= b THEN (b - a) + 1 ELSE 0)
      /\ \A i \in 1 .. ((b - a) + 1) : o[i] = ord[(a + i) - 1]
      /\ ToSet(o) = {ord[i] : i \in a .. b}
  <2>1. b <= Len(ord)
    OBVIOUS
  <2> HIDE DEF ord
  <2>2. QED
    BY <1>2, <2>1, SubSeqIs
<1>4. \A i, j \in 1 .. Len(ord) : i < j => Precedes(m, ord[i], ord[j])
  BY DEF GoodMap, OrderOf
<1> HIDE DEF ord, o
<1>5. ToSet(o) = K
  BY <1>3 DEF Between
<1>6. K \subseteq DOMAIN m
  <2>1. \A i \in a .. b : i \in 1 .. Len(ord)
    BY <1>2 DEF ord
  <2>2. \A i \in 1 .. Len(ord) : ord[i] \in DOMAIN m
    BY <1>2
  <2>3. QED
    BY <2>1, <2>2 DEF Between
<1>7. o \in Seq(K)
  <2>1. \A i \in 1 .. Len(o) : o[i] \in ToSet(o)
    BY <1>3 DEF ToSet
  <2>2. QED
    BY <1>3, <1>5, <2>1
<1> HIDE DEF K
<1>8. DOMAIN w = K /\ w \in [DOMAIN w -> Int] /\ \A x \in K : w[x] = m[x]
  BY <1>2, <1>6 DEF Only
<1> HIDE DEF w
<1>9. ASSUME NEW i \in 1 .. Len(o), NEW j \in 1 .. Len(o), i < j
      PROVE  Precedes(w, o[i], o[j])
  <2>1. a <= b /\ Len(o) = (b - a) + 1
    BY <1>3, <1>9
  <2>2. i \in 1 .. ((b - a) + 1) /\ j \in 1 .. ((b - a) + 1)
    BY <2>1
  <2>3. o[i] = ord[(a + i) - 1] /\ o[j] = ord[(a + j) - 1]
    BY <1>3, <2>2
  <2>4. (a + i) - 1 \in 1 .. Len(ord) /\ (a + j) - 1 \in 1 .. Len(ord) /\ (a + i) - 1 < (a + j) - 1
    <3> DEFINE n == Len(ord)
    <3>1. n \in Nat /\ b <= n
      BY <1>2 DEF ord
    <3>2. i \in Int /\ j \in Int /\ i >= 1 /\ j >= 1 /\ i <= (b - a) + 1 /\ j <= (b - a) + 1
      BY <2>2
    <3> HIDE DEF n
    <3>3. QED
      BY <1>9, <3>1, <3>2 DEF n
  <2>5. Precedes(m, o[i], o[j])
    BY <1>4, <2>3, <2>4
  <2>6. o[i] \in K /\ o[j] \in K
    BY <1>7
  <2>7. QED
    BY <1>8, <2>5, <2>6 DEF Precedes
<1>10. OrderOf(o, w)
  BY <1>2, <1>5, <1>6, <1>7, <1>8, <1>9 DEF OrderOf
<1>11. DOMAIN w \subseteq Members
  BY <1>2, <1>6, <1>8
<1>12. GoodMap(w) /\ Sorted(w) = o
  BY <1>10, <1>11, MapFrom
<1>13. QED
  BY <1>12 DEF w, K, o, ord

\* What is left of an order whose first or last n members are gone.
LEMMA CutIs ==
    ASSUME NEW m, GoodMap(m), NEW n \in 0 .. Len(Sorted(m))
    PROVE  /\ Sorted(Without(m, Between(Sorted(m), 1, n))) = SubSeq(Sorted(m), n + 1, Len(Sorted(m)))
           /\ Sorted(Without(m, Between(Sorted(m), (Len(Sorted(m)) - n) + 1, Len(Sorted(m)))))
                  = SubSeq(Sorted(m), 1, Len(Sorted(m)) - n)
<1> DEFINE ord == Sorted(m)
           N == Len(ord)
<1>1. MapFacts(m)
  BY MapIs
<1>2. /\ N \in Nat /\ ToSet(ord) = DOMAIN m /\ DOMAIN ord = 1 .. N
      /\ \A i, j \in 1 .. N : ord[i] = ord[j] => i = j
  BY <1>1 DEF MapFacts, IsInjective
<1>3. DOMAIN m = Between(ord, 1, N)
  BY <1>2 DEF ToSet, Between
<1>4. ASSUME NEW c \in 0 .. N
      PROVE  /\ DOMAIN m \ Between(ord, 1, c) = Between(ord, c + 1, N)
             /\ DOMAIN m \ Between(ord, c + 1, N) = Between(ord, 1, c)
  <2> HIDE DEF ord, N
  <2>1. \A i \in 1 .. N : i \in 1 .. c \/ i \in (c + 1) .. N
    BY <1>2
  <2>2. \A i \in 1 .. c : i \in 1 .. N
    BY <1>2
  <2>3. \A i \in (c + 1) .. N : i \in 1 .. N
    BY <1>2
  <2>4. \A i \in 1 .. c : \A j \in (c + 1) .. N : i # j
    BY <1>2
  <2>5. \A i \in 1 .. c : \A j \in (c + 1) .. N : ord[i] # ord[j]
    BY <1>2, <2>2, <2>3, <2>4
  <2>6. QED
    BY <1>3, <2>1, <2>2, <2>3, <2>5 DEF Between
<1>5. Without(m, Between(ord, 1, n)) = Only(m, Between(ord, n + 1, N))
  <2>1. n \in 0 .. N
    OBVIOUS
  <2> HIDE DEF ord, N
  <2>2. QED
    BY <1>4, <2>1 DEF Without
<1>6. Without(m, Between(ord, (N - n) + 1, N)) = Only(m, Between(ord, 1, N - n))
  <2> DEFINE c == N - n
  <2>1. c \in 0 .. N
    BY <1>2
  <2> HIDE DEF ord, N, c
  <2>2. DOMAIN m \ Between(ord, c + 1, N) = Between(ord, 1, c)
    BY <1>4, <2>1
  <2>3. QED
    BY <2>2 DEF Without, c
<1>7. Sorted(Only(m, Between(ord, n + 1, N))) = SubSeq(ord, n + 1, N)
  <2> DEFINE a == n + 1
  <2>1. a \in Int /\ a >= 1 /\ N \in Int /\ N <= Len(Sorted(m))
    BY <1>2
  <2> HIDE DEF a, N
  <2>2. Sorted(Only(m, Between(ord, a, N))) = SubSeq(ord, a, N)
    BY <2>1, SubOrder
  <2>3. QED
    BY <2>2 DEF a
<1>8. Sorted(Only(m, Between(ord, 1, N - n))) = SubSeq(ord, 1, N - n)
  <2> DEFINE c == N - n
             one == 1
  <2>1. c \in Int /\ one >= 1 /\ one \in Int /\ c <= Len(Sorted(m))
    BY <1>2
  <2> HIDE DEF c, N, one
  <2>2. Sorted(Only(m, Between(ord, one, c))) = SubSeq(ord, one, c)
    BY <2>1, SubOrder
  <2>3. QED
    BY <2>2 DEF c, one
<1>9. QED
  BY <1>5, <1>6, <1>7, <1>8

-----------------------------------------------------------------------------
(* Popping. *)

\* The member PopOne takes.
PopEle(z, where) ==
    IF z.encoding = "listpack"
    THEN z.lp[IF where = "max" THEN Len(z.lp) ELSE 1].ele
    ELSE IF where = "max" THEN z.zsl.tail ELSE z.zsl.forward[HEAD][0]

EndOf(s, where) == IF where = "max" THEN s[Len(s)] ELSE s[1]

\* It is the first or the last one.
LEMMA PopEleIs ==
    ASSUME NEW z, NEW m, NEW p, Good(z, m, p), Len(Sorted(m)) > 0, NEW where
    PROVE  PopEle(z, where) = EndOf(Sorted(m), where) /\ EndOf(Sorted(m), where) \in DOMAIN m
<1> DEFINE ord == Sorted(m)
           N == Len(ord)
<1>1. MapFacts(m) /\ (IsListpack(z, m, p) \/ IsSkiplist(z, m, p))
  BY GoodCases
<1>2. ord \in Seq(DOMAIN m) /\ N \in Nat /\ N > 0
  BY <1>1 DEF MapFacts
<1>3. EndOf(ord, where) \in DOMAIN m
  BY <1>2 DEF EndOf
<1>4. CASE IsListpack(z, m, p)
  <2>1. z.encoding = "listpack" /\ z.lp = Paired(m, ord)
    BY <1>4 DEF IsListpack
  <2>2. PairedFacts(m, ord)
    BY <1>2, PairedIs
  <2>3. Len(z.lp) = N /\ \A i \in 1 .. N : z.lp[i].ele = ord[i]
    BY <2>1, <2>2 DEF PairedFacts
  <2>4. N \in 1 .. N /\ 1 \in 1 .. N
    BY <1>2
  <2> HIDE DEF ord
  <2>5. QED
    BY <1>3, <2>1, <2>3, <2>4 DEF PopEle, EndOf, ord
<1>5. CASE IsSkiplist(z, m, p)
  <2>1. z.encoding # "listpack" /\ GoodList(z.zsl, ord)
    BY <1>5 DEF IsSkiplist
  <2>2. z.zsl.tail = ord[N]
    BY <1>2, <2>1 DEF GoodList, GoodParts
  <2>3. z.zsl.forward[HEAD][0] = ord[1]
    <3> DEFINE one == 1
    <3>1. one \in 1 .. (N + 1)
      BY <1>2
    <3> HIDE DEF one, ord, N
    <3>2. z.zsl.forward[NodeAt(ord, one - 1)][0] = NodeAt(ord, one)
      BY <2>1, <3>1, NextNode DEF N
    <3>3. NodeAt(ord, one - 1) = HEAD /\ NodeAt(ord, one) = ord[1]
      BY <1>2 DEF NodeAt, one, N
    <3>4. QED
      BY <3>2, <3>3
  <2>4. QED
    BY <1>3, <2>1, <2>2, <2>3 DEF PopEle, EndOf
<1>6. QED
  BY <1>1, <1>4, <1>5

\* What Listed is.
LEMMA ListedIs ==
    ASSUME NEW m, GoodMap(m), NEW reverse
    PROVE  /\ Listed(m, reverse) \in Seq(DOMAIN m) /\ Len(Listed(m, reverse)) = Len(Sorted(m))
           /\ Len(Listed(m, reverse)) \in Nat
           /\ ToSet(Listed(m, reverse)) = DOMAIN m /\ IsInjective(Listed(m, reverse))
           /\ \A i \in 1 .. Len(Sorted(m)) :
                 Listed(m, reverse)[i] = Sorted(m)[IF reverse THEN (Len(Sorted(m)) - i) + 1 ELSE i]
<1>1. MapFacts(m)
  BY MapIs
<1>2. Sorted(m) \in Seq(DOMAIN m) /\ ToSet(Sorted(m)) = DOMAIN m /\ IsInjective(Sorted(m)) /\ Len(Sorted(m)) \in Nat
  BY <1>1 DEF MapFacts
<1>3. CASE reverse
  <2>1. Listed(m, reverse) = Reverse(Sorted(m))
    BY <1>3 DEF Listed
  <2>2. /\ Reverse(Sorted(m)) \in Seq(DOMAIN m) /\ Len(Reverse(Sorted(m))) = Len(Sorted(m))
        /\ \A i \in 1 .. Len(Sorted(m)) : Reverse(Sorted(m))[i] = Sorted(m)[(Len(Sorted(m)) - i) + 1]
        /\ ToSet(Reverse(Sorted(m))) = ToSet(Sorted(m)) /\ IsInjective(Reverse(Sorted(m)))
    BY <1>2, ReverseIs
  <2>3. QED
    BY <1>2, <1>3, <2>1, <2>2
<1>4. CASE ~reverse
  <2>1. Listed(m, reverse) = Sorted(m)
    BY <1>4 DEF Listed
  <2>2. QED
    BY <1>2, <1>4, <2>1
<1>5. QED
  BY <1>3, <1>4

\* The n + 1st of a list is the first once n are gone.
LEMMA NextPopped ==
    ASSUME NEW m, GoodMap(m), NEW where, NEW L, L = Listed(m, where = "max"), NEW n \in 0 .. (Len(L) - 1)
    PROVE  /\ Len(Sorted(Without(m, First(L, n)))) > 0
           /\ EndOf(Sorted(Without(m, First(L, n))), where) = L[n + 1]
<1> DEFINE ord == Sorted(m)
           N == Len(ord)
<1>1. MapFacts(m)
  BY MapIs
<1>2. ord \in Seq(DOMAIN m) /\ N \in Nat
  BY <1>1 DEF MapFacts
<1>3. /\ Len(L) = N
      /\ \A i \in 1 .. N : L[i] = ord[IF where = "max" THEN (N - i) + 1 ELSE i]
  <2> DEFINE rev == (where = "max")
  <2> HIDE DEF rev
  <2>1. /\ Len(Listed(m, rev)) = N
        /\ \A i \in 1 .. N : Listed(m, rev)[i] = ord[IF rev THEN (N - i) + 1 ELSE i]
    BY ListedIs
  <2>2. QED
    BY <2>1 DEF rev
<1>4. n \in 0 .. N /\ n + 1 \in 1 .. N
  BY <1>2, <1>3
<1> HIDE DEF ord, N
<1>5. CASE where = "max"
  <2>1. First(L, n) = Between(ord, (N - n) + 1, N)
    <3>1. \A i \in 1 .. n : i \in 1 .. N /\ L[i] = ord[(N - i) + 1] /\ (N - i) + 1 \in ((N - n) + 1) .. N
      BY <1>2, <1>3, <1>4, <1>5
    <3>2. \A j \in ((N - n) + 1) .. N : (N - j) + 1 \in 1 .. n /\ (N - ((N - j) + 1)) + 1 = j
      BY <1>2, <1>4
    <3>3. \A j \in ((N - n) + 1) .. N : ord[j] = L[(N - j) + 1] /\ (N - j) + 1 \in 1 .. n
      BY <3>1, <3>2
    <3>4. QED
      BY <3>1, <3>3 DEF First, Between
  <2>2. Sorted(Without(m, First(L, n))) = SubSeq(ord, 1, N - n)
    BY <1>4, <2>1, CutIs DEF ord, N
  <2>3. /\ Len(SubSeq(ord, 1, N - n)) = (IF 1 <= N - n THEN ((N - n) - 1) + 1 ELSE 0)
        /\ \A i \in 1 .. (((N - n) - 1) + 1) : SubSeq(ord, 1, N - n)[i] = ord[(1 + i) - 1]
    <3> DEFINE one == 1
               c == N - n
    <3>1. one \in Int /\ c \in Int /\ one >= 1 /\ c <= Len(ord)
      BY <1>2, <1>4 DEF N
    <3> HIDE DEF one, c
    <3>2. /\ Len(SubSeq(ord, one, c)) = (IF one <= c THEN (c - one) + 1 ELSE 0)
          /\ \A i \in 1 .. ((c - one) + 1) : SubSeq(ord, one, c)[i] = ord[(one + i) - 1]
      BY <1>2, <3>1, SubSeqIs
    <3>3. QED
      BY <3>2 DEF one, c
  <2>4. Len(SubSeq(ord, 1, N - n)) = N - n /\ N - n > 0 /\ SubSeq(ord, 1, N - n)[N - n] = ord[N - n]
    BY <1>2, <1>4, <2>3
  <2>5. L[n + 1] = ord[N - n]
    <3>1. (N - (n + 1)) + 1 = N - n
      BY <1>2, <1>4
    <3>2. QED
      BY <1>3, <1>4, <1>5, <3>1
  <2>6. QED
    BY <1>5, <2>2, <2>4, <2>5 DEF EndOf
<1>6. CASE where # "max"
  <2>1. First(L, n) = Between(ord, 1, n)
    BY <1>2, <1>3, <1>4, <1>6 DEF First, Between
  <2>2. Sorted(Without(m, First(L, n))) = SubSeq(ord, n + 1, N)
    BY <1>4, <2>1, CutIs DEF ord, N
  <2>3. /\ Len(SubSeq(ord, n + 1, N)) = (IF n + 1 <= N THEN (N - (n + 1)) + 1 ELSE 0)
        /\ \A i \in 1 .. ((N - (n + 1)) + 1) : SubSeq(ord, n + 1, N)[i] = ord[((n + 1) + i) - 1]
    <3> DEFINE a == n + 1
    <3>1. a \in Int /\ N \in Int /\ a >= 1 /\ N <= Len(ord)
      BY <1>2, <1>4 DEF N
    <3> HIDE DEF a
    <3>2. /\ Len(SubSeq(ord, a, N)) = (IF a <= N THEN (N - a) + 1 ELSE 0)
          /\ \A i \in 1 .. ((N - a) + 1) : SubSeq(ord, a, N)[i] = ord[(a + i) - 1]
      BY <1>2, <3>1, SubSeqIs
    <3>3. QED
      BY <3>2 DEF a
  <2>4. Len(SubSeq(ord, n + 1, N)) > 0 /\ SubSeq(ord, n + 1, N)[1] = ord[n + 1]
    <3>1. 1 \in 1 .. ((N - (n + 1)) + 1) /\ ((n + 1) + 1) - 1 = n + 1
      BY <1>2, <1>4
    <3>2. SubSeq(ord, n + 1, N)[1] = ord[((n + 1) + 1) - 1]
      BY <2>3, <3>1
    <3>3. QED
      BY <1>2, <1>4, <2>3, <3>1, <3>2
  <2>5. L[n + 1] = ord[n + 1]
    BY <1>3, <1>4, <1>6
  <2>6. QED
    BY <1>6, <2>2, <2>4, <2>5 DEF EndOf
<1>7. QED
  BY <1>5, <1>6

\* The loop of rl_pop_collect.
PopAll(where, b, s) == FoldLeft(LAMBDA acc, i : PopOne(acc, where), b, s)

PopAllStep(where, acc, x) == PopOne(acc, where)

PopAllRun(g, where, b, s) == g[0] = b /\ \A n \in 1 .. Len(s) : g[n] = PopAllStep(where, g[n - 1], s[n])

\* Such a loop passes through the values of its accumulator.
LEMMA PopAllFold ==
    ASSUME NEW where, NEW b, NEW S, NEW s \in Seq(S)
    PROVE  \E g : PopAllRun(g, where, b, s) /\ PopAll(where, b, s) = g[Len(s)]
<1> DEFINE N == Len(s)
           Eqn(it, m) == it = [V \in SUBSET (1 .. m) |->
                           IF V = {} THEN b ELSE PopAllStep(where, it[V \ {Max(V)}], s[Max(V)])]
           T == {m \in 0 .. N : \E it : Eqn(it, m)}
           it == CHOOSE it : Eqn(it, N)
<1>1. N \in Nat /\ DOMAIN s = 1 .. N
  OBVIOUS
<1>2. 0 \in T
  <2>1. SUBSET (1 .. 0) = {{}}
    OBVIOUS
  <2>2. Eqn([V \in SUBSET (1 .. 0) |-> b], 0)
    BY <2>1
  <2>3. 0 \in 0 .. N /\ \E f : Eqn(f, 0)
    <3> HIDE DEF Eqn
    <3>1. QED
      BY <1>1, <2>2
  <2>4. QED
    BY <2>3
<1>3. ASSUME NEW m \in 0 .. (N - 1), m \in T PROVE m + 1 \in T
  <2>1. PICK f : Eqn(f, m)
    BY <1>3
  <2>2. m \in Nat /\ m + 1 \in 0 .. N /\ m + 1 \in Nat
    BY <1>1
  <2> DEFINE h == [V \in SUBSET (1 .. (m + 1)) |->
                     IF V = {} THEN b ELSE IF m + 1 \in V THEN PopAllStep(where, f[V \ {m + 1}], s[m + 1]) ELSE f[V]]
  <2>3. f[{}] = b /\ \A V \in SUBSET (1 .. m) : V # {} => f[V] = PopAllStep(where, f[V \ {Max(V)}], s[Max(V)])
    BY <2>1
  <2>4. ASSUME NEW V \in SUBSET (1 .. m) PROVE h[V] = f[V] /\ V \in SUBSET (1 .. (m + 1)) /\ m + 1 \notin V
    <3>1. V \in SUBSET (1 .. (m + 1)) /\ m + 1 \notin V
      BY <2>2
    <3>2. QED
      BY <2>3, <3>1
  <2> HIDE DEF Eqn
  <2>5. ASSUME NEW V \in SUBSET (1 .. (m + 1)), V # {}
        PROVE  h[V] = PopAllStep(where, h[V \ {Max(V)}], s[Max(V)])
    <3>1. CASE m + 1 \in V
      <4>1. Max(V) = m + 1
        <5>1. V \in SUBSET Int /\ \A x \in V : m + 1 >= x
          BY <2>2
        <5>2. QED
          BY <3>1, <5>1, MaxIs
      <4>2. V \ {m + 1} \in SUBSET (1 .. m)
        BY <2>2
      <4>3. h[V \ {m + 1}] = f[V \ {m + 1}]
        BY <2>4, <4>2
      <4>4. h[V] = PopAllStep(where, f[V \ {m + 1}], s[m + 1])
        BY <3>1
      <4>5. QED
        BY <4>1, <4>3, <4>4
    <3>2. CASE m + 1 \notin V
      <4>1. V \in SUBSET (1 .. m)
        BY <2>2, <3>2
      <4>2. V \ {Max(V)} \in SUBSET (1 .. m)
        BY <4>1
      <4>3. h[V] = f[V] /\ h[V \ {Max(V)}] = f[V \ {Max(V)}]
        BY <2>4, <4>1, <4>2
      <4>4. QED
        BY <2>3, <2>5, <4>1, <4>3
    <3>3. QED
      BY <3>1, <3>2
  <2>6. Eqn(h, m + 1)
    <3>1. h[{}] = b
      OBVIOUS
    <3>2. \A V \in SUBSET (1 .. (m + 1)) : h[V] = IF V = {} THEN b ELSE PopAllStep(where, h[V \ {Max(V)}], s[Max(V)])
      BY <2>5, <3>1
    <3>3. h = [V \in SUBSET (1 .. (m + 1)) |-> h[V]]
      OBVIOUS
    <3> HIDE DEF h
    <3>4. QED
      BY <3>2, <3>3 DEF Eqn
  <2>7. QED
    BY <2>2, <2>6
<1>4. \A m \in 0 .. N : m \in T
  <2> HIDE DEF T, N
  <2>1. QED
    BY <1>1, <1>2, <1>3, UpTo
<1>5. \E f : Eqn(f, N)
  <2>0. N \in 0 .. N
    BY <1>1
  <2>1. N \in T
    <3> HIDE DEF T, N
    <3>1. QED
      BY <1>4, <2>0
  <2>2. QED
    BY <2>1
<1>6. Eqn(it, N)
  <2> HIDE DEF Eqn
  <2>1. QED
    BY <1>5
<1>7. PopAll(where, b, s) = it[1 .. N]
  BY <1>1 DEF PopAll, FoldLeft, MapThenFoldSet, PopAllStep
<1> HIDE DEF it
<1> DEFINE g == [n \in 0 .. N |-> it[1 .. n]]
<1>8. g[0] = b
  <2>1. 1 .. 0 = {} /\ 0 \in 0 .. N
    BY <1>1
  <2>2. QED
    BY <1>6, <2>1
<1>9. ASSUME NEW n \in 1 .. N
      PROVE  g[n] = PopAllStep(where, g[n - 1], s[n])
  <2>1. /\ 1 .. n \in SUBSET (1 .. N) /\ 1 .. n # {}
        /\ Max(1 .. n) = n /\ (1 .. n) \ {n} = 1 .. (n - 1)
    BY <1>1, MaxOfInitial
  <2>2. it[1 .. n] = PopAllStep(where, it[(1 .. n) \ {Max(1 .. n)}], s[Max(1 .. n)])
    BY <1>6, <2>1
  <2>3. n \in 0 .. N /\ n - 1 \in 0 .. N
    BY <1>1
  <2>4. g[n] = it[1 .. n] /\ g[n - 1] = it[1 .. (n - 1)]
    BY <2>3
  <2>5. QED
    BY <2>1, <2>2, <2>4
<1>10. g[N] = it[1 .. N]
  BY <1>1
<1> HIDE DEF g
<1>11. QED
  BY <1>7, <1>8, <1>9, <1>10 DEF PopAllRun

\* The first n of a list.
LEMMA TakeIs ==
    ASSUME NEW D, NEW s \in Seq(D), NEW n \in Nat
    PROVE  /\ Take(s, n) = SubSeq(s, 1, IF n <= Len(s) THEN n ELSE Len(s)) /\ Take(s, n) \in Seq(D)
           /\ Len(Take(s, n)) = (IF n <= Len(s) THEN n ELSE Len(s))
           /\ ToSet(Take(s, n)) = First(s, IF n <= Len(s) THEN n ELSE Len(s))
           /\ \A i \in 1 .. Len(Take(s, n)) : Take(s, n)[i] = s[i]
<1> DEFINE k == IF n <= Len(s) THEN n ELSE Len(s)
           one == 1
<1>1. Len(s) \in Nat /\ k \in 0 .. Len(s) /\ k \in Int /\ one \in Int /\ one >= 1 /\ k <= Len(s)
  OBVIOUS
<1>2. Min({n, Len(s)}) = k
  BY <1>1, OfTwo
<1>3. Take(s, n) = SubSeq(s, one, k)
  BY <1>2 DEF Take
<1> HIDE DEF k, one
<1>4. /\ SubSeq(s, one, k) \in Seq(D) /\ Len(SubSeq(s, one, k)) = (IF one <= k THEN (k - one) + 1 ELSE 0)
      /\ \A i \in 1 .. ((k - one) + 1) : SubSeq(s, one, k)[i] = s[(one + i) - 1]
      /\ ToSet(SubSeq(s, one, k)) = {s[i] : i \in one .. k}
  BY <1>1, SubSeqIs
<1>5. Len(Take(s, n)) = k
  BY <1>1, <1>3, <1>4 DEF one
<1>6. \A i \in 1 .. k : Take(s, n)[i] = s[i]
  BY <1>1, <1>3, <1>4 DEF one
<1>7. ToSet(Take(s, n)) = First(s, k)
  BY <1>3, <1>4 DEF First, one
<1>8. QED
  BY <1>3, <1>4, <1>5, <1>6, <1>7 DEF k, one

\* What zpop leaves and returns.
Pops(r, enc, m, p, first) ==
    Good(r.zobj, Without(m, ToSet(first)), p) /\ r.zobj.encoding = enc /\ r.popped = first

\* One member.
LEMMA PopStep ==
    ASSUME NEW acc, NEW enc, NEW m, GoodMap(m), NEW p, NEW where, NEW L, L = Listed(m, where = "max"),
           NEW n \in 0 .. (Len(L) - 1), Pops(acc, enc, m, p, Take(L, n))
    PROVE  Pops(PopOne(acc, where), enc, m, p, Take(L, n + 1))
<1> DEFINE rev == (where = "max")
           w == Without(m, First(L, n))
           x == L[n + 1]
<1>1. L \in Seq(DOMAIN m) /\ Len(L) \in Nat
  <2> HIDE DEF rev
  <2>1. Listed(m, rev) \in Seq(DOMAIN m) /\ Len(Listed(m, rev)) \in Nat
    BY ListedIs
  <2>2. QED
    BY <2>1 DEF rev
<1>2. n \in Nat /\ n + 1 \in Nat /\ n <= Len(L) /\ n + 1 <= Len(L) /\ n + 1 \in 1 .. Len(L)
  BY <1>1
<1>3. ToSet(Take(L, n)) = First(L, n) /\ Take(L, n) \in Seq(DOMAIN m) /\ Len(Take(L, n)) = n /\ \A i \in 1 .. n : Take(L, n)[i] = L[i]
  BY <1>1, <1>2, TakeIs
<1>4. /\ ToSet(Take(L, n + 1)) = First(L, n + 1) /\ Take(L, n + 1) \in Seq(DOMAIN m) /\ Len(Take(L, n + 1)) = n + 1
      /\ \A i \in 1 .. (n + 1) : Take(L, n + 1)[i] = L[i]
  <2> DEFINE j == n + 1
  <2> HIDE DEF j
  <2>1. j \in Nat /\ j <= Len(L)
    BY <1>2 DEF j
  <2>2. /\ ToSet(Take(L, j)) = First(L, j) /\ Take(L, j) \in Seq(DOMAIN m) /\ Len(Take(L, j)) = j
        /\ \A i \in 1 .. j : Take(L, j)[i] = L[i]
    BY <1>1, <2>1, TakeIs
  <2>3. QED
    BY <2>2 DEF j
<1>5. Len(Sorted(w)) > 0 /\ EndOf(Sorted(w), where) = x
  BY NextPopped
<1>6. Good(acc.zobj, w, p) /\ acc.zobj.encoding = enc /\ acc.popped = Take(L, n)
  BY <1>3 DEF Pops
<1> HIDE DEF w
<1>7. PopEle(acc.zobj, where) = x
  BY <1>5, <1>6, PopEleIs
<1>8. zsetLength(acc.zobj) # 0
  <2>1. zsetLength(acc.zobj) = Len(Sorted(w))
    BY <1>6, WalkOf
  <2>2. QED
    BY <1>5, <2>1
<1>9. PopOne(acc, where) = [zobj |-> zsetDel(acc.zobj, x), popped |-> Append(acc.popped, x)]
  BY <1>7, <1>8 DEF PopOne, PopEle
<1>10. x \in Members /\ x \in DOMAIN m
  <2>1. x \in DOMAIN m
    BY <1>1, <1>2
  <2>2. QED
    BY <2>1 DEF GoodMap
<1>11. Good(zsetDel(acc.zobj, x), Without(w, {x}), p) /\ zsetDel(acc.zobj, x).encoding = enc
  BY <1>6, <1>10, DelIs
<1>12. Without(w, {x}) = Without(m, First(L, n + 1))
  <2>1. First(L, n + 1) = First(L, n) \cup {x}
    BY <1>2 DEF First
  <2>2. Without(w, {x}) = Without(m, First(L, n) \cup {x})
    BY WithoutMore DEF w
  <2>3. QED
    BY <2>1, <2>2
<1>13. Append(Take(L, n), x) = Take(L, n + 1)
  <2> DEFINE u == Append(Take(L, n), x)
             t == Take(L, n + 1)
  <2>1. u \in Seq(DOMAIN m) /\ Len(u) = n + 1 /\ (\A i \in 1 .. n : u[i] = L[i]) /\ u[n + 1] = x
    <3> DEFINE v == Take(L, n)
               D == DOMAIN m
    <3>1. v \in Seq(D) /\ Len(v) = n /\ (\A i \in 1 .. n : v[i] = L[i]) /\ x \in D
      BY <1>3, <1>10
    <3> HIDE DEF v, D, x
    <3>2. Append(v, x) \in Seq(D) /\ Len(Append(v, x)) = n + 1 /\ (\A i \in 1 .. n : Append(v, x)[i] = v[i]) /\ Append(v, x)[n + 1] = x
      BY <1>2, <3>1
    <3>3. QED
      BY <3>1, <3>2 DEF v, D
  <2>2. \A i \in 1 .. (n + 1) : i \in 1 .. n \/ i = n + 1
    BY <1>2
  <2>3. t \in Seq(DOMAIN m) /\ Len(t) = n + 1 /\ \A i \in 1 .. (n + 1) : t[i] = L[i]
    BY <1>4
  <2> HIDE DEF u, t
  <2>4. \A i \in 1 .. Len(u) : u[i] = t[i]
    BY <2>1, <2>2, <2>3
  <2>5. u = t
    BY <2>1, <2>3, <2>4, SameElements
  <2>6. QED
    BY <2>5 DEF u, t
<1> HIDE DEF x
<1>14. QED
  BY <1>4, <1>6, <1>9, <1>11, <1>12, <1>13 DEF Pops

\* zpop takes the first or the last members, in order.
LEMMA ZpopIs ==
    ASSUME NEW z, NEW m, NEW p, Good(z, m, p), NEW where, NEW count \in Nat
    PROVE  Pops(zpop(z, where, count), z.encoding, m, p, Take(Listed(m, where = "max"), count))
<1> DEFINE L == Listed(m, where = "max")
           s == Upto(count)
           b == [zobj |-> z, popped |-> <<>>]
<1>1. GoodMap(m)
  BY GoodCases
<1>2. L \in Seq(DOMAIN m) /\ Len(L) \in Nat
  <2> DEFINE rev == (where = "max")
  <2> HIDE DEF rev
  <2>1. Listed(m, rev) \in Seq(DOMAIN m) /\ Len(Listed(m, rev)) \in Nat
    BY <1>1, ListedIs
  <2>2. QED
    BY <2>1 DEF rev
<1>3. s \in Seq(Nat) /\ Len(s) = count
  BY UptoIs
<1>4. zpop(z, where, count) = PopAll(where, b, s)
  BY DEF zpop, PopAll, Upto
<1>5. b.zobj = z /\ b.popped = <<>>
  OBVIOUS
<1> HIDE DEF b, s
<1>6. PICK g : PopAllRun(g, where, b, s) /\ PopAll(where, b, s) = g[Len(s)]
  BY <1>3, PopAllFold
<1>7. g[0] = b /\ \A n \in 1 .. count : g[n] = PopOne(g[n - 1], where)
  BY <1>3, <1>6 DEF PopAllRun, PopAllStep
<1> DEFINE P(n) == Pops(g[n], z.encoding, m, p, Take(L, n))
           T == {n \in 0 .. count : P(n)}
<1>8. 0 \in T
  <2> DEFINE o == 0
  <2>1. o \in Nat /\ (IF o <= Len(L) THEN o ELSE Len(L)) = 0
    BY <1>2
  <2> HIDE DEF o
  <2>2. Take(L, o) \in Seq(DOMAIN m) /\ Len(Take(L, o)) = (IF o <= Len(L) THEN o ELSE Len(L))
        /\ ToSet(Take(L, o)) = First(L, IF o <= Len(L) THEN o ELSE Len(L))
    <3> HIDE DEF L
    <3>1. QED
      BY <1>2, <2>1, TakeIs
  <2>3. Len(Take(L, o)) = 0 /\ ToSet(Take(L, o)) = First(L, 0)
    <3> HIDE DEF L
    <3>1. QED
      BY <2>1, <2>2
  <2>4. Take(L, o) = <<>> /\ First(L, 0) = {}
    <3> HIDE DEF L
    <3>1. QED
      BY <2>2, <2>3 DEF First
  <2>5. Without(m, First(L, 0)) = m
    <3> DEFINE E == First(L, 0)
    <3> HIDE DEF E
    <3>1. E = {}
      BY <2>4 DEF E
    <3>2. Without(m, E) = m
      BY <1>1, <3>1, WithoutNone
    <3>3. QED
      BY <3>2 DEF E
  <2>6. Pops(g[0], z.encoding, m, p, Take(L, o))
    <3> HIDE DEF L
    <3>1. QED
      BY <1>5, <1>7, <2>3, <2>4, <2>5 DEF Pops
  <2>7. QED
    BY <2>6 DEF o
<1>9. ASSUME NEW n \in 0 .. (count - 1), n \in T PROVE n + 1 \in T
  <2> DEFINE j == n + 1
  <2>1. j \in 1 .. count /\ j \in 0 .. count /\ j - 1 = n /\ n \in Nat
    OBVIOUS
  <2>2. Pops(g[n], z.encoding, m, p, Take(L, n))
    BY <1>9
  <2>3. g[j] = PopOne(g[n], where)
    BY <1>7, <2>1
  <2>4. CASE n < Len(L)
    <3>1. n \in 0 .. (Len(L) - 1)
      BY <1>2, <2>1, <2>4
    <3> HIDE DEF L, T, P
    <3>2. Pops(PopOne(g[n], where), z.encoding, m, p, Take(L, n + 1))
      BY <1>1, <2>2, <3>1, PopStep DEF L
    <3>3. P(j)
      BY <2>3, <3>2 DEF P
    <3>4. QED
      BY <2>1, <3>3 DEF T
  <2>5. CASE n >= Len(L)
    <3>1. Take(L, n) = SubSeq(L, 1, IF n <= Len(L) THEN n ELSE Len(L)) /\ ToSet(Take(L, n)) = First(L, IF n <= Len(L) THEN n ELSE Len(L))
      <4> HIDE DEF L
      <4>1. QED
        BY <1>2, <2>1, TakeIs
    <3>2. Take(L, j) = SubSeq(L, 1, IF j <= Len(L) THEN j ELSE Len(L))
      <4>1. j \in Nat
        BY <2>1
      <4> HIDE DEF L, j
      <4>2. QED
        BY <1>2, <4>1, TakeIs
    <3>3. (IF n <= Len(L) THEN n ELSE Len(L)) = Len(L) /\ (IF j <= Len(L) THEN j ELSE Len(L)) = Len(L)
      BY <1>2, <2>1, <2>5
    <3>4. Take(L, j) = Take(L, n) /\ ToSet(Take(L, n)) = First(L, Len(L))
      <4> HIDE DEF L, j
      <4>1. QED
        BY <3>1, <3>2, <3>3
    <3>5. First(L, Len(L)) = DOMAIN m
      <4> DEFINE rev == (where = "max")
      <4> HIDE DEF rev
      <4>1. ToSet(Listed(m, rev)) = DOMAIN m
        BY <1>1, ListedIs
      <4>2. ToSet(L) = DOMAIN m
        BY <4>1 DEF rev
      <4> HIDE DEF L
      <4>3. First(L, Len(L)) = ToSet(L)
        BY <1>2, FirstIs
      <4>4. QED
        BY <4>2, <4>3
    <3>6. zsetLength(g[n].zobj) = 0
      <4> DEFINE w == Without(m, DOMAIN m)
      <4>1. Good(g[n].zobj, w, p)
        <5> HIDE DEF L
        <5>1. QED
          BY <2>2, <3>4, <3>5 DEF Pops
      <4>2. DOMAIN w = {}
        BY DEF Without, Only
      <4> HIDE DEF w
      <4>3. zsetLength(g[n].zobj) = Cardinality(DOMAIN w)
        BY <4>1, WalkOf
      <4>4. QED
        BY <4>2, <4>3, FS_EmptySet
    <3>7. g[j] = g[n]
      BY <2>3, <3>6 DEF PopOne
    <3> HIDE DEF L, j
    <3>8. P(j)
      BY <2>2, <3>4, <3>7
    <3>9. QED
      BY <2>1, <3>8
  <2>6. QED
    BY <1>2, <2>1, <2>4, <2>5
<1>10. \A n \in 0 .. count : n \in T
  <2> HIDE DEF T
  <2>1. QED
    BY <1>8, <1>9, UpTo
<1>11. P(count)
  <2>1. count \in 0 .. count
    OBVIOUS
  <2>2. count \in T
    <3> HIDE DEF T
    <3>1. QED
      BY <1>10, <2>1
  <2>3. QED
    BY <2>2
<1>12. QED
  BY <1>3, <1>4, <1>6, <1>11

-----------------------------------------------------------------------------
(* Reading moves buckets of the dict, and nothing else. *)

\* A lookup.
LEMMA TouchIs ==
    ASSUME NEW z, NEW m, NEW p, Good(z, m, p), NEW x \in Members
    PROVE  /\ Good(Touch(z, x), m, p) /\ Touch(z, x).encoding = z.encoding
           /\ zsetScore(z, x) = IF x \in DOMAIN m THEN m[x] ELSE NaN
<1>1. GoodMap(m) /\ MapFacts(m) /\ (IsListpack(z, m, p) \/ IsSkiplist(z, m, p))
  BY GoodCases
<1>2. DOMAIN m \subseteq Members
  BY <1>1 DEF MapFacts
<1>3. CASE IsListpack(z, m, p)
  <2>1. z.encoding = "listpack" /\ z.lp = Paired(m, Sorted(m))
    BY <1>3 DEF IsListpack
  <2>2. Touch(z, x) = z
    BY <2>1 DEF Touch
  <2>3. zsetScore(z, x) = IF x \in DOMAIN m THEN m[x] ELSE NaN
    <3>1. CASE x \in DOMAIN m
      <4>1. zzlFind(z.lp, x) > 0 /\ z.lp[zzlFind(z.lp, x)].score = m[x]
        BY <1>1, <2>1, <3>1, ZzlDeleteIs
      <4>2. QED
        BY <2>1, <3>1, <4>1 DEF zsetScore
    <3>2. CASE x \notin DOMAIN m
      <4>1. Sorted(m) \in Seq(DOMAIN m)
        BY <1>1 DEF MapFacts
      <4>2. zzlFind(z.lp, x) = PlaceIn(Sorted(m), x)
        BY <2>1, <4>1, FindIs
      <4>3. PlaceIn(Sorted(m), x) = 0
        BY <1>1, <3>2, PlaceOfMember
      <4>4. QED
        BY <2>1, <3>2, <4>2, <4>3 DEF zsetScore
    <3>3. QED
      BY <3>1, <3>2
  <2>4. QED
    BY <2>2, <2>3
<1>4. CASE IsSkiplist(z, m, p)
  <2>1. z.encoding # "listpack" /\ z.encoding = "skiplist" /\ GoodDict(z.dict, DOMAIN m) /\ z.zsl.score = m /\ z.dict.pauseAutoResize = p
    BY <1>4 DEF IsSkiplist
  <2>2. x \in DOMAIN Hash
    BY SortedSetAssumption
  <2> DEFINE f == dictFindLink(z.dict, x)
  <2>3. Found(f, z.dict, DOMAIN m, x)
    BY <2>1, <2>2, DictFindIs
  <2> HIDE DEF f
  <2>4. GoodDict(f.dict, DOMAIN m) /\ f.dict.pauseAutoResize = p /\ (f.found # NoLink <=> x \in DOMAIN m)
    BY <2>1, <2>3 DEF Found, Becomes
  <2>5. Touch(z, x) = [z EXCEPT !.dict = f.dict]
    BY <2>1 DEF Touch, f
  <2>6. Good([z EXCEPT !.dict = f.dict], m, p) /\ [z EXCEPT !.dict = f.dict].encoding = "skiplist"
    BY <1>2, <1>4, <2>4, OtherDict
  <2>7. zsetScore(z, x) = IF x \in DOMAIN m THEN m[x] ELSE NaN
    BY <2>1, <2>4 DEF zsetScore, f
  <2>8. QED
    BY <2>1, <2>5, <2>6, <2>7
<1>5. QED
  BY <1>1, <1>3, <1>4

\* A random pick.
LEMMA RandomIs ==
    ASSUME NEW z, NEW m, NEW p, Good(z, m, p), z.encoding = "skiplist", NEW count \in Nat
    PROVE  /\ Good([z EXCEPT !.dict = dictGetSomeKeys(@, count)], m, p)
           /\ [z EXCEPT !.dict = dictGetSomeKeys(@, count)].encoding = "skiplist"
<1>1. GoodMap(m) /\ MapFacts(m) /\ IsSkiplist(z, m, p)
  BY GoodCases DEF IsListpack
<1>2. DOMAIN m \subseteq Members
  BY <1>1 DEF MapFacts
<1>3. GoodDict(z.dict, DOMAIN m) /\ z.dict.pauseAutoResize = p
  BY <1>1 DEF IsSkiplist
<1> DEFINE f == dictGetSomeKeys(z.dict, count)
<1>4. Becomes(f, z.dict, DOMAIN m)
  BY <1>3, DictGetSomeKeysIs
<1>5. [z EXCEPT !.dict = dictGetSomeKeys(@, count)] = [z EXCEPT !.dict = f]
  OBVIOUS
<1> HIDE DEF f
<1>6. GoodDict(f, DOMAIN m) /\ f.pauseAutoResize = p
  BY <1>3, <1>4 DEF Becomes
<1>7. Good([z EXCEPT !.dict = f], m, p) /\ [z EXCEPT !.dict = f].encoding = "skiplist"
  BY <1>1, <1>2, <1>6, OtherDict
<1>8. QED
  BY <1>5, <1>7

-----------------------------------------------------------------------------
(* Storing. *)

\* A new object.
LEMMA BaseIs ==
    ASSUME NEW hint \in Nat, NEW e, DOMAIN e = {}, e \in [DOMAIN e -> Int], NEW lv
    PROVE  Adding(zsetTypeCreate(hint), e, 0, lv)
<1>1. GoodMap(e) /\ Sorted(e) = <<>>
  BY EmptyMap
<1>2. CASE hint <= zset_max_listpack_entries
  <2>1. Paired(e, Sorted(e)) = <<>>
    BY <1>1 DEF Paired
  <2>2. zsetTypeCreate(hint) = Listpack(Paired(e, Sorted(e)))
    BY <1>2, <2>1 DEF zsetTypeCreate
  <2>3. Len(Sorted(e)) <= zset_max_listpack_entries
    BY <1>1, SortedSetAssumption
  <2>4. Adding(Listpack(Paired(e, Sorted(e))), e, 0, lv)
    BY <1>1, <2>3, AddingListpack
  <2>5. QED
    BY <2>2, <2>4
<1>3. CASE ~(hint <= zset_max_listpack_entries)
  <2> DEFINE z == SkiplistOf(zslCreate, dictExpand(dictCreate(TRUE), hint))
  <2>1. zsetTypeCreate(hint) = z
    BY <1>3 DEF zsetTypeCreate
  <2>2. Good(z, zslCreate.score, 0) /\ DOMAIN zslCreate.score = {} /\ z.encoding = "skiplist"
    BY EmptySkiplist DEF SkiplistOf
  <2>3. e = zslCreate.score
    BY <2>2 DEF zslCreate
  <2> HIDE DEF z
  <2>4. Adding(z, e, 0, lv)
    BY <2>2, <2>3, AddingSkiplist
  <2>5. QED
    BY <2>1, <2>4
<1>4. QED
  BY <1>2, <1>3

\* The loop of zrangestore and of load.
AddEntries(lv, b, s) == FoldLeft(LAMBDA z, e : zsetAdd(z, e.score, e.ele, {}, lv).zobj, b, s)

AddEntriesStep(lv, acc, x) == zsetAdd(acc, x.score, x.ele, {}, lv).zobj

AddEntriesRun(g, lv, b, s) == g[0] = b /\ \A n \in 1 .. Len(s) : g[n] = AddEntriesStep(lv, g[n - 1], s[n])

\* Such a loop passes through the values of its accumulator.
LEMMA AddEntriesFold ==
    ASSUME NEW lv, NEW b, NEW S, NEW s \in Seq(S)
    PROVE  \E g : AddEntriesRun(g, lv, b, s) /\ AddEntries(lv, b, s) = g[Len(s)]
<1> DEFINE N == Len(s)
           Eqn(it, m) == it = [V \in SUBSET (1 .. m) |->
                           IF V = {} THEN b ELSE AddEntriesStep(lv, it[V \ {Max(V)}], s[Max(V)])]
           T == {m \in 0 .. N : \E it : Eqn(it, m)}
           it == CHOOSE it : Eqn(it, N)
<1>1. N \in Nat /\ DOMAIN s = 1 .. N
  OBVIOUS
<1>2. 0 \in T
  <2>1. SUBSET (1 .. 0) = {{}}
    OBVIOUS
  <2>2. Eqn([V \in SUBSET (1 .. 0) |-> b], 0)
    BY <2>1
  <2>3. 0 \in 0 .. N /\ \E f : Eqn(f, 0)
    <3> HIDE DEF Eqn
    <3>1. QED
      BY <1>1, <2>2
  <2>4. QED
    BY <2>3
<1>3. ASSUME NEW m \in 0 .. (N - 1), m \in T PROVE m + 1 \in T
  <2>1. PICK f : Eqn(f, m)
    BY <1>3
  <2>2. m \in Nat /\ m + 1 \in 0 .. N /\ m + 1 \in Nat
    BY <1>1
  <2> DEFINE h == [V \in SUBSET (1 .. (m + 1)) |->
                     IF V = {} THEN b ELSE IF m + 1 \in V THEN AddEntriesStep(lv, f[V \ {m + 1}], s[m + 1]) ELSE f[V]]
  <2>3. f[{}] = b /\ \A V \in SUBSET (1 .. m) : V # {} => f[V] = AddEntriesStep(lv, f[V \ {Max(V)}], s[Max(V)])
    BY <2>1
  <2>4. ASSUME NEW V \in SUBSET (1 .. m) PROVE h[V] = f[V] /\ V \in SUBSET (1 .. (m + 1)) /\ m + 1 \notin V
    <3>1. V \in SUBSET (1 .. (m + 1)) /\ m + 1 \notin V
      BY <2>2
    <3>2. QED
      BY <2>3, <3>1
  <2> HIDE DEF Eqn
  <2>5. ASSUME NEW V \in SUBSET (1 .. (m + 1)), V # {}
        PROVE  h[V] = AddEntriesStep(lv, h[V \ {Max(V)}], s[Max(V)])
    <3>1. CASE m + 1 \in V
      <4>1. Max(V) = m + 1
        <5>1. V \in SUBSET Int /\ \A x \in V : m + 1 >= x
          BY <2>2
        <5>2. QED
          BY <3>1, <5>1, MaxIs
      <4>2. V \ {m + 1} \in SUBSET (1 .. m)
        BY <2>2
      <4>3. h[V \ {m + 1}] = f[V \ {m + 1}]
        BY <2>4, <4>2
      <4>4. h[V] = AddEntriesStep(lv, f[V \ {m + 1}], s[m + 1])
        BY <3>1
      <4>5. QED
        BY <4>1, <4>3, <4>4
    <3>2. CASE m + 1 \notin V
      <4>1. V \in SUBSET (1 .. m)
        BY <2>2, <3>2
      <4>2. V \ {Max(V)} \in SUBSET (1 .. m)
        BY <4>1
      <4>3. h[V] = f[V] /\ h[V \ {Max(V)}] = f[V \ {Max(V)}]
        BY <2>4, <4>1, <4>2
      <4>4. QED
        BY <2>3, <2>5, <4>1, <4>3
    <3>3. QED
      BY <3>1, <3>2
  <2>6. Eqn(h, m + 1)
    <3>1. h[{}] = b
      OBVIOUS
    <3>2. \A V \in SUBSET (1 .. (m + 1)) : h[V] = IF V = {} THEN b ELSE AddEntriesStep(lv, h[V \ {Max(V)}], s[Max(V)])
      BY <2>5, <3>1
    <3>3. h = [V \in SUBSET (1 .. (m + 1)) |-> h[V]]
      OBVIOUS
    <3> HIDE DEF h
    <3>4. QED
      BY <3>2, <3>3 DEF Eqn
  <2>7. QED
    BY <2>2, <2>6
<1>4. \A m \in 0 .. N : m \in T
  <2> HIDE DEF T, N
  <2>1. QED
    BY <1>1, <1>2, <1>3, UpTo
<1>5. \E f : Eqn(f, N)
  <2>0. N \in 0 .. N
    BY <1>1
  <2>1. N \in T
    <3> HIDE DEF T, N
    <3>1. QED
      BY <1>4, <2>0
  <2>2. QED
    BY <2>1
<1>6. Eqn(it, N)
  <2> HIDE DEF Eqn
  <2>1. QED
    BY <1>5
<1>7. AddEntries(lv, b, s) = it[1 .. N]
  BY <1>1 DEF AddEntries, FoldLeft, MapThenFoldSet, AddEntriesStep
<1> HIDE DEF it
<1> DEFINE g == [n \in 0 .. N |-> it[1 .. n]]
<1>8. g[0] = b
  <2>1. 1 .. 0 = {} /\ 0 \in 0 .. N
    BY <1>1
  <2>2. QED
    BY <1>6, <2>1
<1>9. ASSUME NEW n \in 1 .. N
      PROVE  g[n] = AddEntriesStep(lv, g[n - 1], s[n])
  <2>1. /\ 1 .. n \in SUBSET (1 .. N) /\ 1 .. n # {}
        /\ Max(1 .. n) = n /\ (1 .. n) \ {n} = 1 .. (n - 1)
    BY <1>1, MaxOfInitial
  <2>2. it[1 .. n] = AddEntriesStep(lv, it[(1 .. n) \ {Max(1 .. n)}], s[Max(1 .. n)])
    BY <1>6, <2>1
  <2>3. n \in 0 .. N /\ n - 1 \in 0 .. N
    BY <1>1
  <2>4. g[n] = it[1 .. n] /\ g[n - 1] = it[1 .. (n - 1)]
    BY <2>3
  <2>5. QED
    BY <2>1, <2>2, <2>4
<1>10. g[N] = it[1 .. N]
  BY <1>1
<1> HIDE DEF g
<1>11. QED
  BY <1>7, <1>8, <1>9, <1>10 DEF AddEntriesRun

\* An entry of a map whose members that were met have its scores.
LEMMA AddAgain ==
    ASSUME NEW z, NEW M, NEW K, NEW lv, Adding(z, Only(M, K), 0, lv), NEW x \in Members, lv[x] \in Levels,
           M[x] \in Int
    PROVE  Adding(zsetAdd(z, M[x], x, {}, lv).zobj, With(Only(M, K), x, M[x]), 0, lv)
<1> DEFINE m == Only(M, K)
           s == M[x]
           none == {}
           o == AddOut(m, x, s, none)
           r == zsetAdd(z, s, x, none, lv)
           zero == 0
<1>1. DOMAIN m = K /\ \A y \in K : m[y] = M[y]
  BY DEF Only
<1>2. AddedWell(r, m, zero, lv, x, o)
  <2>1. Adding(z, m, zero, lv)
    OBVIOUS
  <2> HIDE DEF m, s, none, zero
  <2>2. s \in Int
    BY DEF s
  <2>3. QED
    BY <2>1, <2>2, ZsetAddIs
<1>3. AddMap(m, x, o) = With(m, x, s)
  <2>1. CASE x \in K
    <3>1. m[x] = s
      BY <1>1, <2>1
    <3>2. o = Rescore(s, s, none)
      BY <1>1, <2>1, <3>1 DEF AddOut
    <3>3. o.out \in {"nan", "same"}
      BY <3>2 DEF Rescore
    <3>4. With(m, x, s) = m
      BY <1>1, <2>1, <3>1 DEF With, Only
    <3> HIDE DEF o, m, s
    <3>5. QED
      BY <3>3, <3>4 DEF AddMap
  <2>2. CASE x \notin K
    <3>1. o.out = "added" /\ o.score = s
      BY <1>1, <2>2 DEF AddOut
    <3> HIDE DEF o, m, s
    <3>2. QED
      BY <3>1 DEF AddMap
  <2>3. QED
    BY <2>1, <2>2
<1>4. Adding(r.zobj, With(m, x, s), 0, lv)
  <2> HIDE DEF m, s, o, r
  <2>1. QED
    BY <1>2, <1>3 DEF AddedWell
<1>5. QED
  BY <1>4

\* Entries of a map, added to a new object one after the other.
LEMMA RebuildIs ==
    ASSUME NEW M, NEW keys \in Seq(Members), \A x \in ToSet(keys) : M[x] \in Int, NEW hint \in Nat,
           NEW lv, \A x \in ToSet(keys) : lv[x] \in Levels
    PROVE  Adding(Rebuild(Paired(M, keys), hint, lv), Only(M, ToSet(keys)), 0, lv)
<1> DEFINE N == Len(keys)
           s == Paired(M, keys)
           b == zsetTypeCreate(hint)
<1>1. N \in Nat
  OBVIOUS
<1>2. PairedFacts(M, keys)
  BY PairedIs
<1>3. /\ Len(s) = N /\ s \in Seq([ele : ToSet(keys), score : {M[x] : x \in ToSet(keys)}])
      /\ \A i \in 1 .. N : s[i].ele = keys[i] /\ s[i].score = M[keys[i]]
  BY <1>2 DEF PairedFacts
<1> HIDE DEF s, b
<1>4. PICK g : AddEntriesRun(g, lv, b, s) /\ AddEntries(lv, b, s) = g[N]
  BY <1>3, AddEntriesFold
<1>5. Rebuild(s, hint, lv) = AddEntries(lv, b, s)
  BY DEF Rebuild, AddEntries, b
<1>6. g[0] = b /\ \A n \in 1 .. N : g[n] = zsetAdd(g[n - 1], M[keys[n]], keys[n], {}, lv).zobj
  BY <1>3, <1>4 DEF AddEntriesRun, AddEntriesStep
<1> DEFINE P(n) == Adding(g[n], Only(M, First(keys, n)), 0, lv)
           T == {n \in 0 .. N : P(n)}
<1>7. 0 \in T
  <2>1. DOMAIN Only(M, First(keys, 0)) = {}
    BY DEF Only, First
  <2> DEFINE e == Only(M, First(keys, 0))
  <2>2. e \in [DOMAIN e -> Int]
    BY <2>1 DEF Only
  <2> HIDE DEF e
  <2>3. Adding(b, e, 0, lv)
    BY <2>1, <2>2, BaseIs DEF b, e
  <2>4. P(0)
    BY <1>6, <2>3 DEF e
  <2>5. QED
    BY <1>1, <2>4
<1>8. ASSUME NEW n \in 0 .. (N - 1), n \in T PROVE n + 1 \in T
  <2> DEFINE j == n + 1
             x == keys[j]
             K == First(keys, n)
  <2>1. /\ Only(M, First(keys, j)) = With(Only(M, K), x, M[x])
        /\ j \in 1 .. N /\ j \in 0 .. N /\ j - 1 = n /\ x \in Members /\ x \in ToSet(keys)
    BY NextKey
  <2>2. Adding(g[n], Only(M, K), 0, lv)
    BY <1>8
  <2>3. g[j] = zsetAdd(g[n], M[x], x, {}, lv).zobj
    BY <1>6, <2>1
  <2>4. lv[x] \in Levels /\ M[x] \in Int
    BY <2>1
  <2> HIDE DEF x, K, P, T
  <2>5. Adding(g[j], With(Only(M, K), x, M[x]), 0, lv)
    BY <2>1, <2>2, <2>3, <2>4, AddAgain
  <2>6. P(j)
    BY <2>1, <2>5 DEF P
  <2>7. QED
    BY <2>1, <2>6 DEF T
<1>9. \A n \in 0 .. N : n \in T
  <2> HIDE DEF T, N
  <2>1. QED
    BY <1>1, <1>7, <1>8, UpTo
<1>10. P(N)
  <2>1. N \in 0 .. N
    BY <1>1
  <2>2. N \in T
    <3> HIDE DEF T, N
    <3>1. QED
      BY <1>9, <2>1
  <2>3. QED
    BY <2>2
<1>11. First(keys, N) = ToSet(keys)
  BY FirstIs
<1>12. QED
  BY <1>4, <1>5, <1>10, <1>11 DEF s

\* A load of the dump.
LEMMA LoadIs ==
    ASSUME NEW z, NEW m, NEW p, Good(z, m, p), NEW lv, \A x \in DOMAIN m : lv[x] \in Levels
    PROVE  Adding(load(z, lv), m, 0, lv)
<1>1. MapFacts(m)
  BY GoodCases
<1> DEFINE keys == Sorted(m)
<1>2. /\ keys \in Seq(DOMAIN m) /\ ToSet(keys) = DOMAIN m /\ m \in [DOMAIN m -> Int] /\ DOMAIN m \subseteq Members
  BY <1>1 DEF MapFacts
<1>3. Walk(z) = Paired(m, keys) /\ zsetLength(z) \in Nat
  BY WalkOf
<1> HIDE DEF keys
<1>4. keys \in Seq(Members)
  BY <1>2
<1>5. \A x \in ToSet(keys) : m[x] \in Int /\ lv[x] \in Levels
  BY <1>2
<1>6. Adding(Rebuild(Paired(m, keys), zsetLength(z), lv), Only(m, ToSet(keys)), 0, lv)
  BY <1>3, <1>4, <1>5, RebuildIs
<1>7. Only(m, ToSet(keys)) = m
  BY <1>2, OnlyAll
<1>8. QED
  BY <1>3, <1>6, <1>7 DEF load

\* A small skiplist becomes a listpack.
LEMMA ToListpackIs ==
    ASSUME NEW z, NEW m, Good(z, m, 0), z.encoding = "skiplist"
    PROVE  /\ Good(zsetConvertToListpackIfNeeded(z), m, 0)
           /\ Compact(zsetConvertToListpackIfNeeded(z), m)
<1> DEFINE zero == 0
<1>1. GoodMap(m) /\ MapFacts(m) /\ IsSkiplist(z, m, 0)
  <2> HIDE DEF zero
  <2>1. Good(z, m, zero)
    BY DEF zero
  <2>2. GoodMap(m) /\ MapFacts(m) /\ (IsListpack(z, m, zero) \/ IsSkiplist(z, m, zero))
    BY <2>1, GoodCases
  <2>3. QED
    BY <2>2 DEF IsListpack, zero
<1>2. Walk(z) = Paired(m, Sorted(m)) /\ zsetLength(z) = Len(Sorted(m))
  <2> HIDE DEF zero
  <2>1. Good(z, m, zero)
    BY DEF zero
  <2>2. QED
    BY <2>1, WalkOf
<1>3. z.zsl.length = Len(Sorted(m)) /\ Nodes(z.zsl) = DOMAIN m
  <2>1. z.zsl.score = m
    BY <1>1 DEF IsSkiplist
  <2>2. QED
    BY <1>2, <2>1 DEF zsetLength, Nodes
<1>4. CASE z.zsl.length <= zset_max_listpack_entries /\ Nodes(z.zsl) \cap LongMembers = {}
  <2> DEFINE y == Listpack(Paired(m, Sorted(m)))
  <2>1. zsetConvertToListpackIfNeeded(z) = y
    BY <1>2, <1>4 DEF zsetConvertToListpackIfNeeded
  <2>2. Good(y, m, 0)
    BY <1>1, GoodListpack
  <2> HIDE DEF y
  <2>3. Compact(y, m)
    BY <1>3, <1>4 DEF Compact
  <2>4. QED
    BY <2>1, <2>2, <2>3
<1>5. CASE ~(z.zsl.length <= zset_max_listpack_entries /\ Nodes(z.zsl) \cap LongMembers = {})
  <2>1. zsetConvertToListpackIfNeeded(z) = z
    BY <1>5 DEF zsetConvertToListpackIfNeeded
  <2>2. QED
    BY <2>1 DEF Compact
<1>6. QED
  BY <1>4, <1>5

\* The store form of the set operations.
LEMMA SetopstoreIs ==
    ASSUME NEW M, NEW keys \in Seq(Members), IsInjective(keys), \A x \in ToSet(keys) : M[x] \in Int,
           NEW lv, \A x \in ToSet(keys) : lv[x] \in Levels
    PROVE  /\ Good(setopstore(Paired(M, keys), lv), Only(M, ToSet(keys)), 0)
           /\ Compact(setopstore(Paired(M, keys), lv), Only(M, ToSet(keys)))
<1> DEFINE entries == Paired(M, keys)
           m == Only(M, ToSet(keys))
<1>1. PairedFacts(M, keys)
  BY PairedIs
<1>2. Len(entries) = Len(keys) /\ entries \in Seq([ele : ToSet(keys), score : {M[x] : x \in ToSet(keys)}])
  BY <1>1 DEF PairedFacts
<1>3. CASE entries = <<>>
  <2>1. Len(keys) = 0
    BY <1>2, <1>3
  <2>2. DOMAIN m = {} /\ m \in [DOMAIN m -> Int]
    BY <2>1 DEF ToSet, Only
  <2> HIDE DEF m
  <2>3. Adding(zsetTypeCreate(0), m, 0, lv)
    BY <2>2, BaseIs
  <2>4. setopstore(entries, lv) = zsetTypeCreate(0)
    BY <1>3 DEF setopstore
  <2>5. QED
    BY <2>3, <2>4 DEF Adding, m
<1>4. CASE entries # <<>>
  <2> DEFINE b == SkiplistOf(zslCreate, dictCreate(TRUE))
             none == zslCreate.score
             y == InsertAll(lv, b, entries)
  <2>1. Good(b, none, 0) /\ DOMAIN none = {} /\ b.encoding = "skiplist"
    <3>1. b.encoding = "skiplist"
      BY DEF SkiplistOf
    <3> DEFINE cap == 0
    <3>2. cap \in Nat
      OBVIOUS
    <3> HIDE DEF cap
    <3>3. QED
      BY <3>1, <3>2, EmptySkiplist
  <2>2. Good(y, m, 0) /\ y.encoding = "skiplist"
    <3> HIDE DEF b, none
    <3>1. QED
      BY <2>1, InsertAllIs
  <2>3. setopstore(entries, lv) = zsetConvertToListpackIfNeeded(y)
    BY <1>4 DEF setopstore, InsertAll, createZsetObject
  <2> HIDE DEF y, m, entries
  <2>4. Good(zsetConvertToListpackIfNeeded(y), m, 0) /\ Compact(zsetConvertToListpackIfNeeded(y), m)
    BY <2>2, ToListpackIs
  <2>5. QED
    BY <2>3, <2>4 DEF m, entries
<1>5. QED
  BY <1>3, <1>4

-----------------------------------------------------------------------------
(* Walks along the list. *)

AlongNext(l, reverse, x) ==
    IF x = NIL THEN NIL ELSE IF reverse THEN l.backward[x] ELSE l.forward[x][0]

StepsAlong(l, reverse, x, k) == Steps(x, k, LAMBDA y : AlongNext(l, reverse, y))

RunsAlong(s, l, reverse, x, k) == s = [j \in 0 .. k |-> IF j = 0 THEN x ELSE AlongNext(l, reverse, s[j - 1])]

\* Any values that follow the pointers are the ones the steps take.
LEMMA StepsAlongAre ==
    ASSUME NEW l, NEW reverse, NEW x, NEW k \in Nat, NEW v, RunsAlong(v, l, reverse, x, k)
    PROVE  StepsAlong(l, reverse, x, k) = v[k]
<1> DEFINE s == CHOOSE s : RunsAlong(s, l, reverse, x, k)
<1>1. RunsAlong(s, l, reverse, x, k)
  OBVIOUS
<1>2. StepsAlong(l, reverse, x, k) = s[k]
  BY DEF StepsAlong, Steps, RunsAlong
<1> HIDE DEF s
<1>3. s[0] = x /\ \A j \in 1 .. k : s[j] = AlongNext(l, reverse, s[j - 1])
  BY <1>1 DEF RunsAlong
<1>4. v[0] = x /\ \A j \in 1 .. k : v[j] = AlongNext(l, reverse, v[j - 1])
  BY DEF RunsAlong
<1>5. s[0] = v[0] /\ \A j \in 1 .. k : s[j - 1] = v[j - 1] => s[j] = v[j]
  BY <1>3, <1>4
<1>6. s[k] = v[k]
  BY <1>5, SameUpTo
<1>7. QED
  BY <1>2, <1>6

\* The walk from ln visits the nodes of w.
AtOf(w, i) == IF i <= Len(w) THEN w[i] ELSE NIL

Visits(l, reverse, ln, w) ==
    /\ w \in Seq(Nat \ {0}) /\ l.length \in Nat /\ Len(w) <= l.length /\ ln = AtOf(w, 1)
    /\ \A i \in 1 .. Len(w) : AlongNext(l, reverse, w[i]) = AtOf(w, i + 1)

\* k steps.
LEMMA StepsVisit ==
    ASSUME NEW l, NEW reverse, NEW ln, NEW w, Visits(l, reverse, ln, w), NEW k \in Nat
    PROVE  StepsAlong(l, reverse, ln, k) = AtOf(w, k + 1)
<1> DEFINE v == [j \in 0 .. k |-> AtOf(w, j + 1)]
<1>1. Len(w) \in Nat
  BY DEF Visits
<1>2. \A j \in 0 .. k : v[j] = IF j = 0 THEN ln ELSE AlongNext(l, reverse, v[j - 1])
  <2> TAKE j \in 0 .. k
  <2>1. CASE j = 0
    <3>1. v[0] = AtOf(w, 0 + 1)
      OBVIOUS
    <3>2. QED
      BY <2>1, <3>1 DEF Visits
  <2>2. CASE j # 0
    <3>1. j - 1 \in 0 .. k /\ (j - 1) + 1 = j /\ j \in Nat /\ j >= 1
      BY <2>2
    <3>2. v[j] = AtOf(w, j + 1) /\ v[j - 1] = AtOf(w, j)
      BY <3>1
    <3> HIDE DEF v
    <3>3. CASE j <= Len(w)
      <4>1. j \in 1 .. Len(w) /\ AtOf(w, j) = w[j]
        BY <1>1, <3>1, <3>3 DEF AtOf
      <4>2. AlongNext(l, reverse, w[j]) = AtOf(w, j + 1)
        BY <4>1 DEF Visits
      <4>3. QED
        BY <2>2, <3>2, <4>1, <4>2
    <3>4. CASE ~(j <= Len(w))
      <4>1. AtOf(w, j) = NIL /\ AtOf(w, j + 1) = NIL
        BY <1>1, <3>1, <3>4 DEF AtOf
      <4>2. AlongNext(l, reverse, NIL) = NIL
        BY DEF AlongNext
      <4>3. QED
        BY <2>2, <3>2, <4>1, <4>2
    <3>5. QED
      BY <3>3, <3>4
  <2>3. QED
    BY <2>1, <2>2
<1>3. RunsAlong(v, l, reverse, ln, k)
  <2>1. v = [j \in 0 .. k |-> v[j]]
    OBVIOUS
  <2> HIDE DEF v
  <2>2. QED
    BY <1>2, <2>1 DEF RunsAlong
<1>4. v[k] = AtOf(w, k + 1)
  OBVIOUS
<1> HIDE DEF v
<1>5. QED
  BY <1>3, <1>4, StepsAlongAre

\* The nodes up to the first NIL.
CutAtNil(all) ==
    LET I == {i \in 1 .. Len(all) : all[i] = NIL}
        stop == IF I # {} THEN Min(I) ELSE 0
    IN  IF stop = 0 THEN all ELSE SubSeq(all, 1, stop - 1)

AlongAll(l, ln, reverse) == [i \in 1 .. l.length |-> StepsAlong(l, reverse, ln, i - 1)]

\* Along, with its parts named.
LEMMA AlongParts ==
    ASSUME NEW l, NEW ln, NEW reverse
    PROVE  Along(l, ln, reverse) = Paired(l.score, CutAtNil(AlongAll(l, ln, reverse)))
BY DEF Along, AlongAll, CutAtNil, StepsAlong, Steps, AlongNext, SelectInSeq, Paired

\* Along returns the entries of the nodes it visits.
LEMMA AlongIs ==
    ASSUME NEW l, NEW reverse, NEW ln, NEW w, Visits(l, reverse, ln, w)
    PROVE  Along(l, ln, reverse) = Paired(l.score, w)
<1> DEFINE N == l.length
           k == Len(w)
           all == [i \in 1 .. N |-> AtOf(w, i)]
           I == {i \in 1 .. Len(all) : all[i] = NIL}
<1>1. N \in Nat /\ k \in Nat /\ k <= N /\ w \in Seq(Nat \ {0}) /\ \A i \in 1 .. k : w[i] # NIL
  <2>1. N \in Nat /\ k \in Nat /\ k <= N /\ w \in Seq(Nat \ {0})
    BY DEF Visits
  <2>2. \A i \in 1 .. k : w[i] \in Nat \ {0}
    BY <2>1
  <2>3. QED
    BY <2>1, <2>2 DEF NIL
<1>2. AlongAll(l, ln, reverse) = all
  <2>1. \A i \in 1 .. N : StepsAlong(l, reverse, ln, i - 1) = AtOf(w, i)
    <3> TAKE i \in 1 .. N
    <3> DEFINE j == i - 1
    <3>1. j \in Nat /\ j + 1 = i
      BY <1>1
    <3> HIDE DEF j
    <3>2. StepsAlong(l, reverse, ln, j) = AtOf(w, j + 1)
      BY <3>1, StepsVisit
    <3>3. QED
      BY <3>1, <3>2 DEF j
  <2>2. QED
    BY <2>1 DEF AlongAll
<1>3. /\ all \in Seq(Nat \cup {NIL}) /\ Len(all) = N /\ \A i \in 1 .. N : all[i] = AtOf(w, i)
  <2>1. \A i \in 1 .. N : AtOf(w, i) \in Nat \cup {NIL}
    BY <1>1 DEF AtOf
  <2>2. QED
    BY <1>1, <2>1
<1>4. \A i \in 1 .. N : all[i] = NIL <=> i > k
  BY <1>1, <1>3 DEF AtOf
<1> HIDE DEF all
<1>5. CutAtNil(all) = w
  <2>1. CASE k = N
    <3>1. I = {}
      BY <1>1, <1>3, <1>4, <2>1
    <3>2. CutAtNil(all) = all
      BY <3>1 DEF CutAtNil
    <3>3. \A i \in 1 .. N : all[i] = w[i]
      BY <1>1, <1>3, <2>1 DEF AtOf
    <3>4. all = w
      <4> DEFINE D == Nat \cup {NIL}
      <4>1. all \in Seq(D) /\ w \in Seq(D) /\ Len(all) = Len(w)
        BY <1>1, <1>3, <2>1
      <4> HIDE DEF D
      <4>2. QED
        BY <1>3, <3>3, <4>1, SameElements
    <3>5. QED
      BY <3>2, <3>4
  <2>2. CASE k # N
    <3> DEFINE a == k + 1
    <3>1. a \in I /\ I \in SUBSET Int /\ \A x \in I : a <= x
      BY <1>1, <1>3, <1>4, <2>2
    <3>2. Min(I) = a /\ I # {}
      <4> HIDE DEF I, a
      <4>1. QED
        BY <3>1, MinIs
    <3>3. CutAtNil(all) = SubSeq(all, 1, k)
      <4>1. a # 0 /\ a - 1 = k
        BY <1>1
      <4> HIDE DEF a
      <4>2. QED
        BY <3>2, <4>1 DEF CutAtNil
    <3> DEFINE D == Nat \cup {NIL}
               one == 1
    <3>4. all \in Seq(D) /\ w \in Seq(D) /\ one \in Int /\ k \in Int /\ one >= 1 /\ k <= Len(all)
      BY <1>1, <1>3
    <3> HIDE DEF D, one
    <3>5. /\ SubSeq(all, one, k) \in Seq(D) /\ Len(SubSeq(all, one, k)) = (IF one <= k THEN (k - one) + 1 ELSE 0)
          /\ \A i \in 1 .. ((k - one) + 1) : SubSeq(all, one, k)[i] = all[(one + i) - 1]
      BY <3>4, SubSeqIs
    <3>6. Len(SubSeq(all, one, k)) = k /\ \A i \in 1 .. k : SubSeq(all, one, k)[i] = all[i]
      BY <1>1, <3>5 DEF one
    <3>7. \A i \in 1 .. k : SubSeq(all, one, k)[i] = w[i]
      <4>1. \A i \in 1 .. k : i \in 1 .. N /\ AtOf(w, i) = w[i]
        BY <1>1 DEF AtOf
      <4> HIDE DEF k, N
      <4>2. QED
        BY <1>3, <3>6, <4>1
    <3> DEFINE u == SubSeq(all, one, k)
    <3>8. u \in Seq(D) /\ Len(u) = Len(w) /\ \A i \in 1 .. Len(u) : u[i] = w[i]
      BY <3>5, <3>6, <3>7
    <3> HIDE DEF u
    <3>9. u = w
      BY <3>4, <3>8, SameElements
    <3>10. QED
      BY <3>3, <3>9 DEF u, one
  <2>3. QED
    BY <2>1, <2>2
<1>6. QED
  BY <1>2, <1>5, AlongParts

\* Forward from place a.
LEMMA AlongForward ==
    ASSUME NEW l, NEW ord, GoodList(l, ord), NEW a \in 1 .. (Len(ord) + 1), NEW reverse, reverse = FALSE
    PROVE  Along(l, NodeAt(ord, a), reverse) = Paired(l.score, SubSeq(ord, a, Len(ord)))
<1> DEFINE N == Len(ord)
           w == SubSeq(ord, a, N)
           ln == NodeAt(ord, a)
<1>1. OrderOf(ord, l.score) /\ l.length = N
  BY DEF GoodList, GoodParts
<1>2. N \in Nat /\ ord \in Seq(Nat \ {0}) /\ \A b \in 1 .. N : ord[b] \in Nat \ {0}
  BY <1>1 DEF OrderOf
<1> DEFINE D == Nat \ {0}
<1>3. /\ w \in Seq(D) /\ Len(w) = (IF a <= N THEN (N - a) + 1 ELSE 0)
      /\ \A i \in 1 .. ((N - a) + 1) : w[i] = ord[(a + i) - 1]
  <2>1. ord \in Seq(D) /\ a \in Int /\ N \in Int /\ a >= 1 /\ N <= Len(ord)
    BY <1>2
  <2> HIDE DEF D, N
  <2>2. QED
    BY <2>1, SubSeqIs
<1>4. Len(w) = (N - a) + 1 /\ a \in Int /\ a >= 1 /\ a <= N + 1
  BY <1>2, <1>3
<1> HIDE DEF w, N
<1>5. \A i \in 1 .. ((N - a) + 2) : AtOf(w, i) = NodeAt(ord, (a + i) - 1)
  <2> TAKE i \in 1 .. ((N - a) + 2)
  <2>1. CASE i <= (N - a) + 1
    <3>1. (a + i) - 1 <= N /\ (a + i) - 1 # 0 /\ i \in 1 .. ((N - a) + 1)
      BY <1>2, <1>4, <2>1
    <3>2. QED
      BY <1>3, <1>4, <2>1, <3>1 DEF AtOf, NodeAt, N
  <2>2. CASE ~(i <= (N - a) + 1)
    <3>1. ~((a + i) - 1 <= N) /\ (a + i) - 1 # 0
      BY <1>2, <1>4, <2>2
    <3>2. QED
      BY <1>4, <2>2, <3>1 DEF AtOf, NodeAt, N
  <2>3. QED
    BY <2>1, <2>2
<1>6. ASSUME NEW i \in 1 .. Len(w) PROVE AlongNext(l, reverse, w[i]) = AtOf(w, i + 1)
  <2> DEFINE q == a + i
  <2>1. i \in 1 .. ((N - a) + 1) /\ i + 1 \in 1 .. ((N - a) + 2) /\ (a + (i + 1)) - 1 = q
    BY <1>2, <1>4
  <2>2. q \in 1 .. (Len(ord) + 1) /\ q - 1 <= N /\ q - 1 # 0 /\ q - 1 \in 1 .. N
    BY <1>2, <1>4, <2>1 DEF N
  <2>3. w[i] = ord[q - 1] /\ AtOf(w, i + 1) = NodeAt(ord, q)
    BY <1>3, <1>5, <2>1
  <2> HIDE DEF q
  <2>4. l.forward[NodeAt(ord, q - 1)][0] = NodeAt(ord, q)
    BY <2>2, NextNode
  <2>5. NodeAt(ord, q - 1) = ord[q - 1] /\ ord[q - 1] # NIL
    BY <1>2, <2>2 DEF NodeAt, NIL, N
  <2>6. QED
    BY <2>3, <2>4, <2>5 DEF AlongNext
<1>7. ln = AtOf(w, 1)
  <2>1. 1 \in 1 .. ((N - a) + 2) /\ (a + 1) - 1 = a
    BY <1>2, <1>4
  <2>2. AtOf(w, 1) = NodeAt(ord, (a + 1) - 1)
    BY <1>5, <2>1
  <2>3. QED
    BY <2>1, <2>2
<1>8. Visits(l, reverse, ln, w)
  BY <1>1, <1>2, <1>3, <1>4, <1>6, <1>7 DEF Visits
<1>9. QED
  BY <1>8, AlongIs DEF w, N

\* The node a walk backward from place a starts at.
BackNode(ord, a) == IF a = 0 THEN NIL ELSE ord[a]

\* Backward from place a.
LEMMA AlongBackward ==
    ASSUME NEW l, NEW ord, GoodList(l, ord), NEW a \in 0 .. Len(ord), NEW reverse, reverse = TRUE
    PROVE  Along(l, BackNode(ord, a), reverse) = Paired(l.score, Reverse(SubSeq(ord, 1, a)))
<1> DEFINE N == Len(ord)
           u == SubSeq(ord, 1, a)
           w == Reverse(u)
           D == Nat \ {0}
           ln == BackNode(ord, a)
<1>1. OrderOf(ord, l.score) /\ l.length = N /\ BackIs(l.backward, ord)
  BY DEF GoodList, GoodParts
<1>2. N \in Nat /\ ord \in Seq(D) /\ \A b \in 1 .. N : ord[b] \in Nat \ {0}
  BY <1>1 DEF OrderOf
<1>3. u \in Seq(D) /\ Len(u) = a /\ \A i \in 1 .. a : u[i] = ord[i]
  <2> DEFINE one == 1
  <2>1. one \in Int /\ a \in Int /\ one >= 1 /\ a <= Len(ord)
    BY <1>2
  <2> HIDE DEF D, one
  <2>2. /\ SubSeq(ord, one, a) \in Seq(D) /\ Len(SubSeq(ord, one, a)) = (IF one <= a THEN (a - one) + 1 ELSE 0)
        /\ \A i \in 1 .. ((a - one) + 1) : SubSeq(ord, one, a)[i] = ord[(one + i) - 1]
    BY <1>2, <2>1, SubSeqIs
  <2>3. QED
    BY <2>1, <2>2 DEF one
<1> HIDE DEF u
<1>4. w \in Seq(D) /\ Len(w) = a /\ \A i \in 1 .. a : w[i] = u[(a - i) + 1]
  <2> HIDE DEF D
  <2>1. QED
    BY <1>3, ReverseIs
<1>5. a \in Nat /\ a <= N /\ \A i \in 1 .. a : (a - i) + 1 \in 1 .. a
  BY <1>2
<1>6. \A i \in 1 .. a : w[i] = ord[(a - i) + 1]
  BY <1>3, <1>4, <1>5
<1> HIDE DEF w, N
<1>7. ASSUME NEW i \in 1 .. Len(w) PROVE AlongNext(l, reverse, w[i]) = AtOf(w, i + 1)
  <2> DEFINE q == (a - i) + 1
  <2>1. i \in 1 .. a /\ q \in 1 .. a /\ q \in 1 .. N /\ q \in 1 .. Len(ord)
    BY <1>2, <1>4, <1>5 DEF N
  <2>2. w[i] = ord[q] /\ ord[q] # NIL
    BY <1>2, <1>6, <2>1 DEF NIL
  <2>3. l.backward[ord[q]] = IF q = 1 THEN NIL ELSE ord[q - 1]
    BY <1>1, <2>1 DEF BackIs
  <2>4. AlongNext(l, reverse, w[i]) = IF q = 1 THEN NIL ELSE ord[q - 1]
    BY <2>2, <2>3 DEF AlongNext
  <2>5. CASE q = 1
    <3>1. ~(i + 1 <= Len(w))
      BY <1>4, <1>5, <2>1, <2>5
    <3>2. QED
      BY <2>4, <2>5, <3>1 DEF AtOf
  <2>6. CASE q # 1
    <3>1. i + 1 \in 1 .. a /\ (a - (i + 1)) + 1 = q - 1 /\ i + 1 <= Len(w)
      BY <1>4, <1>5, <2>1, <2>6
    <3>2. w[i + 1] = ord[q - 1]
      BY <1>6, <3>1
    <3>3. QED
      BY <2>4, <2>6, <3>1, <3>2 DEF AtOf
  <2>7. QED
    BY <2>5, <2>6
<1>8. ln = AtOf(w, 1)
  <2>1. CASE a = 0
    BY <1>4, <2>1 DEF AtOf, BackNode
  <2>2. CASE a # 0
    <3>1. 1 \in 1 .. a /\ (a - 1) + 1 = a /\ 1 <= a
      BY <1>5, <2>2
    <3>2. w[1] = ord[(a - 1) + 1]
      BY <1>6, <3>1
    <3>3. QED
      BY <1>4, <2>2, <3>1, <3>2 DEF AtOf, BackNode
  <2>3. QED
    BY <2>1, <2>2
<1>9. Visits(l, reverse, ln, w)
  BY <1>1, <1>2, <1>4, <1>5, <1>7, <1>8 DEF Visits
<1>10. QED
  BY <1>9, AlongIs DEF w, u

\* A sequence is the part from its first to its last element.
LEMMA SubSeqAll ==
    ASSUME NEW D, NEW s \in Seq(D)
    PROVE  SubSeq(s, 1, Len(s)) = s
<1> DEFINE one == 1
           k == Len(s)
<1>1. one \in Int /\ k \in Int /\ one >= 1 /\ k <= Len(s) /\ k \in Nat
  OBVIOUS
<1> HIDE DEF one, k
<1>2. /\ SubSeq(s, one, k) \in Seq(D) /\ Len(SubSeq(s, one, k)) = (IF one <= k THEN (k - one) + 1 ELSE 0)
      /\ \A i \in 1 .. ((k - one) + 1) : SubSeq(s, one, k)[i] = s[(one + i) - 1]
  BY <1>1, SubSeqIs
<1> DEFINE u == SubSeq(s, one, k)
<1>3. u \in Seq(D) /\ Len(u) = Len(s) /\ \A i \in 1 .. Len(u) : u[i] = s[i]
  BY <1>1, <1>2 DEF one, k
<1> HIDE DEF u
<1>4. u = s
  BY <1>3, SameElements
<1>5. QED
  BY <1>4 DEF u, one, k

\* zuiNext goes through the members backwards.
LEMMA BackwardsIs ==
    ASSUME NEW z, NEW m, NEW p, Good(z, m, p)
    PROVE  Backwards(z) = Paired(m, Reverse(Sorted(m)))
<1>1. MapFacts(m) /\ (IsListpack(z, m, p) \/ IsSkiplist(z, m, p))
  BY GoodCases
<1>2. Sorted(m) \in Seq(DOMAIN m) /\ Len(Sorted(m)) \in Nat
  BY <1>1 DEF MapFacts
<1>3. CASE IsListpack(z, m, p)
  <2>1. z.encoding = "listpack" /\ z.lp = Paired(m, Sorted(m))
    BY <1>3 DEF IsListpack
  <2>2. Reverse(Paired(m, Sorted(m))) = Paired(m, Reverse(Sorted(m)))
    BY <1>2, PairedReverse
  <2>3. QED
    BY <2>1, <2>2 DEF Backwards
<1>4. CASE IsSkiplist(z, m, p)
  <2> DEFINE ord == Sorted(m)
             a == Len(ord)
             rev == TRUE
  <2>1. z.encoding # "listpack" /\ GoodList(z.zsl, ord) /\ z.zsl.score = m
    BY <1>4 DEF IsSkiplist
  <2>2. z.zsl.tail = IF a = 0 THEN NIL ELSE ord[a]
    BY <2>1 DEF GoodList, GoodParts
  <2>3. a \in 0 .. Len(ord) /\ rev = TRUE
    BY <1>2
  <2> DEFINE l == z.zsl
             ln == l.tail
  <2> HIDE DEF ord, a, rev, l, ln
  <2>4. Along(z.zsl, z.zsl.tail, rev) = Paired(z.zsl.score, Reverse(SubSeq(ord, 1, a)))
    <3>1. GoodList(l, ord) /\ ln = BackNode(ord, a)
      BY <2>1, <2>2 DEF l, ln, BackNode
    <3>2. Along(l, ln, rev) = Paired(l.score, Reverse(SubSeq(ord, 1, a)))
      BY <2>3, <3>1, AlongBackward
    <3>3. QED
      BY <3>2 DEF l, ln
  <2>5. SubSeq(ord, 1, a) = ord
    BY <1>2, SubSeqAll DEF ord, a
  <2>6. Along(z.zsl, z.zsl.tail, TRUE) = Paired(m, Reverse(ord))
    BY <2>1, <2>3, <2>4, <2>5
  <2>7. QED
    BY <2>1, <2>6 DEF Backwards, ord
<1>5. QED
  BY <1>1, <1>3, <1>4

-----------------------------------------------------------------------------
(* Unions and differences are made in a dict of their own. *)

\* The keys of a dict, each once.
LEMMA IterateIs ==
    ASSUME NEW d, NEW K, GoodDict(d, K)
    PROVE  Iterate(d) \in Seq(DOMAIN Hash) /\ IsInjective(Iterate(d)) /\ ToSet(Iterate(d)) = K
<1> DEFINE a == TableKeys(d.table[1], DICTHT_SIZE(d.exp[1]))
           b == TableKeys(d.table[2], DICTHT_SIZE(d.exp[2]))
           H == DOMAIN Hash
           zero == 0
<1>1. /\ d.exp[1] \in Nat \cup {-1} /\ d.exp[2] \in Nat \cup {-1}
      /\ GoodTable(d.table[1], d.exp[1], d.rehashidx, d.no_value) /\ GoodTable(d.table[2], d.exp[2], zero, d.no_value)
      /\ KeysIn(d, 1) \cap KeysIn(d, 2) = {} /\ K = KeysIn(d, 1) \cup KeysIn(d, 2)
  BY DEF GoodDict, GoodFields
<1>2. a \in Seq(H) /\ IsInjective(a) /\ ToSet(a) = KeysIn(d, 1)
  BY <1>1, TableKeysAre DEF KeysIn
<1>3. b \in Seq(H) /\ IsInjective(b) /\ ToSet(b) = KeysIn(d, 2)
  <2> HIDE DEF zero
  <2>1. QED
    BY <1>1, TableKeysAre DEF KeysIn
<1>4. Iterate(d) = a \o b
  BY DEF Iterate
<1> HIDE DEF a, b, H
<1>5. IsInjective(a \o b)
  BY <1>1, <1>2, <1>3, JoinInjective
<1>6. a \o b \in Seq(H) /\ ToSet(a \o b) = ToSet(a) \cup ToSet(b)
  BY <1>2, <1>3, JoinToSet
<1>7. QED
  BY <1>1, <1>2, <1>3, <1>4, <1>5, <1>6 DEF H

\* A staging dict with the keys K and scores of S.
Stage(acc, S, K) ==
    /\ DOMAIN acc = {"dict", "score"} /\ acc.score = S
    /\ GoodDict(acc.dict, K) /\ acc.dict.pauseAutoResize = 0 /\ K \subseteq Members

\* A new one.
LEMMA StagingIs ==
    ASSUME NEW size \in Nat, NEW S, DOMAIN S = {}, S \in [DOMAIN S -> Int]
    PROVE  Stage(Staging(size), S, {})
<1> DEFINE d == dictCreate(FALSE)
           none == [x \in {} |-> 0]
           acc == [dict |-> dictExpand(d, size), score |-> none]
<1>1. Staging(size) = acc
  BY DEF Staging
<1>2. GoodDict(d, {}) /\ d.pauseAutoResize = 0
  <2>1. GoodDict(dictCreate(FALSE), {})
    BY DictCreateIs
  <2>2. dictCreate(FALSE).pauseAutoResize = 0
    BY DEF dictCreate
  <2>3. QED
    BY <2>1, <2>2
<1>3. none = S
  OBVIOUS
<1> HIDE DEF d, none
<1>4. GoodDict(dictExpand(d, size), {}) /\ dictExpand(d, size).pauseAutoResize = 0
  <2> DEFINE K == {}
  <2>1. GoodDict(d, K)
    BY <1>2
  <2> HIDE DEF K
  <2>2. Becomes(dictExpand(d, size), d, K)
    BY <2>1, DictExpandIs
  <2>3. QED
    BY <1>2, <2>2 DEF Becomes, K
<1>5. DOMAIN acc = {"dict", "score"} /\ acc.score = none /\ acc.dict = dictExpand(d, size)
  OBVIOUS
<1> HIDE DEF acc
<1>6. QED
  BY <1>1, <1>3, <1>4, <1>5 DEF Stage

\* The members of it, with their scores.
LEMMA StagedIs ==
    ASSUME NEW acc, NEW S, NEW K, Stage(acc, S, K)
    PROVE  \E keys \in Seq(Members) : IsInjective(keys) /\ ToSet(keys) = K /\ Staged(acc) = Paired(S, keys)
<1> DEFINE keys == Iterate(acc.dict)
           H == DOMAIN Hash
<1>1. GoodDict(acc.dict, K) /\ acc.score = S /\ K \subseteq Members
  BY DEF Stage
<1>2. keys \in Seq(H) /\ IsInjective(keys) /\ ToSet(keys) = K
  BY <1>1, IterateIs
<1>3. Staged(acc) = Paired(S, keys)
  BY <1>1 DEF Staged, Paired
<1> HIDE DEF keys, H
<1>4. keys \in Seq(Members)
  <2>1. \A i \in 1 .. Len(keys) : keys[i] \in ToSet(keys)
    BY <1>2 DEF ToSet
  <2>2. \A i \in 1 .. Len(keys) : keys[i] \in Members
    BY <1>1, <1>2, <2>1
  <2>3. QED
    BY <1>2, <2>2
<1>5. QED
  BY <1>2, <1>3, <1>4

\* A member that is not there yet.
LEMMA StageNewIs ==
    ASSUME NEW acc, NEW S, Stage(acc, S, DOMAIN S), NEW d, GoodDict(d, DOMAIN S), d.pauseAutoResize = 0,
           NEW x \in Members, NEW s
    PROVE  Stage(StageNew(acc, d, x, s), With(S, x, s), DOMAIN With(S, x, s))
<1> DEFINE r == StageNew(acc, d, x, s)
           e == dictAdd(d, x)
<1>1. acc.score = S /\ DOMAIN S \subseteq Members
  BY DEF Stage
<1>2. x \in DOMAIN Hash
  BY SortedSetAssumption
<1>3. Becomes(e, d, DOMAIN S \cup {x})
  BY <1>2, DictAddIs
<1> HIDE DEF e
<1>4. GoodDict(e, DOMAIN S \cup {x}) /\ e.pauseAutoResize = 0
  BY <1>3 DEF Becomes
<1>5. r = [dict |-> e, score |-> With(S, x, s)]
  BY <1>1 DEF StageNew, With, e
<1>6. DOMAIN With(S, x, s) = DOMAIN S \cup {x}
  BY DEF With
<1> HIDE DEF r
<1> DEFINE W == With(S, x, s)
<1> HIDE DEF W
<1>7. r = [dict |-> e, score |-> W]
  BY <1>5 DEF W
<1>8. DOMAIN r = {"dict", "score"} /\ r.score = W /\ r.dict = e
  BY <1>7
<1>9. Stage(r, W, DOMAIN S \cup {x})
  BY <1>1, <1>4, <1>8 DEF Stage
<1>10. QED
  BY <1>6, <1>9 DEF W, r

\* Aggregates are numbers, and do not depend on the order.
LEMMA AggregateIs ==
    ASSUME NEW a \in Int, NEW b \in Int, NEW aggregate
    PROVE  /\ zunionInterAggregate(a, b, aggregate) \in Int
           /\ zunionInterAggregate(a, b, aggregate) = zunionInterAggregate(b, a, aggregate)
           /\ zuiWeightedScore(a, aggregate) \in Int
<1>1. Plus(a, b) \in Int /\ Plus(a, b) = Plus(b, a)
  BY PlusIs
<1> DEFINE t == Plus(a, b)
           u == Plus(b, a)
<1>2. t \in Int /\ t = u
  BY <1>1
<1>3. /\ zunionInterAggregate(a, b, aggregate)
            = IF aggregate = "min" THEN IF b < a THEN b ELSE a
              ELSE IF aggregate = "max" THEN IF b > a THEN b ELSE a ELSE IF t = NaN THEN 0 ELSE t
      /\ zunionInterAggregate(b, a, aggregate)
            = IF aggregate = "min" THEN IF a < b THEN a ELSE b
              ELSE IF aggregate = "max" THEN IF a > b THEN a ELSE b ELSE IF u = NaN THEN 0 ELSE u
  BY DEF zunionInterAggregate
<1> HIDE DEF t, u
<1>4. QED
  BY <1>2, <1>3 DEF zuiWeightedScore

\* The score a member has once one more value was met.
Met(S, x, v, aggregate) == IF x \in DOMAIN S THEN zunionInterAggregate(S[x], v, aggregate) ELSE v

\* One entry of a union.
LEMMA StageStepIs ==
    ASSUME NEW acc, NEW S, Stage(acc, S, DOMAIN S), NEW e, e.ele \in Members, NEW aggregate
    PROVE  LET v == zuiWeightedScore(e.score, aggregate)
               W == With(S, e.ele, Met(S, e.ele, v, aggregate))
           IN  Stage(StageStep(acc, e, aggregate), W, DOMAIN W)
<1> DEFINE v == zuiWeightedScore(e.score, aggregate)
           x == e.ele
           W == With(S, x, Met(S, x, v, aggregate))
           f == dictFindLink(acc.dict, x)
           r == StageStep(acc, e, aggregate)
<1> SUFFICES Stage(r, W, DOMAIN W)
  OBVIOUS
<1>1. /\ acc.score = S /\ DOMAIN S \subseteq Members /\ GoodDict(acc.dict, DOMAIN S) /\ acc.dict.pauseAutoResize = 0
  BY DEF Stage
<1>2. x \in DOMAIN Hash
  BY SortedSetAssumption
<1>3. Found(f, acc.dict, DOMAIN S, x)
  BY <1>1, <1>2, DictFindIs
<1>4. r = StageFound(acc, f, x, v, aggregate)
  BY DEF StageStep
<1> HIDE DEF f, r, v, x
<1>5. GoodDict(f.dict, DOMAIN S) /\ f.dict.pauseAutoResize = 0 /\ (f.found # NoLink <=> x \in DOMAIN S)
  BY <1>1, <1>3 DEF Found, Becomes
<1>6. CASE x \notin DOMAIN S
  <2>1. r = StageNew(acc, f.dict, x, v)
    BY <1>4, <1>5, <1>6 DEF StageFound
  <2>2. x \in Members
    BY DEF x
  <2>3. Stage(r, With(S, x, v), DOMAIN With(S, x, v))
    BY <1>5, <2>1, <2>2, StageNewIs
  <2>4. W = With(S, x, v)
    BY <1>6 DEF Met
  <2> HIDE DEF W
  <2>5. QED
    BY <2>3, <2>4
<1>7. CASE x \in DOMAIN S
  <2> DEFINE t == zunionInterAggregate(S[x], v, aggregate)
  <2>1. r = [dict |-> f.dict, score |-> [S EXCEPT ![x] = t]]
    BY <1>1, <1>4, <1>5, <1>7 DEF StageFound
  <2>2. W = [S EXCEPT ![x] = t] /\ DOMAIN W = DOMAIN S
    <3> HIDE DEF t
    <3>1. Met(S, x, v, aggregate) = t
      BY <1>7 DEF Met, t
    <3>2. QED
      BY <1>7, <3>1 DEF With
  <2> HIDE DEF W, t
  <2>3. r = [dict |-> f.dict, score |-> W]
    BY <2>1, <2>2
  <2>4. DOMAIN r = {"dict", "score"} /\ r.score = W /\ r.dict = f.dict
    BY <2>3
  <2>5. QED
    BY <1>1, <1>5, <2>2, <2>4 DEF Stage
<1>8. QED
  BY <1>6, <1>7

\* The union of two maps, whose common members have the aggregate.
UnionMap(A, B, aggregate) ==
    [x \in DOMAIN A \cup DOMAIN B |->
        IF x \in DOMAIN A \cap DOMAIN B THEN zunionInterAggregate(A[x], B[x], aggregate)
        ELSE IF x \in DOMAIN A THEN A[x] ELSE B[x]]

\* The weighted scores of a map.
Valued(m, aggregate) == [x \in DOMAIN m |-> zuiWeightedScore(m[x], aggregate)]

\* With one more member of the second.
LEMMA UnionMore ==
    ASSUME NEW A, NEW B, NEW C, DOMAIN B \subseteq DOMAIN C, \A y \in DOMAIN B : B[y] = C[y],
           NEW x, x \in DOMAIN C, x \notin DOMAIN B, NEW aggregate, NEW E, E = With(B, x, C[x])
    PROVE  LET U == UnionMap(A, B, aggregate)
           IN  With(U, x, Met(U, x, C[x], aggregate)) = UnionMap(A, E, aggregate)
<1> DEFINE U == UnionMap(A, B, aggregate)
           V == UnionMap(A, E, aggregate)
           t == Met(U, x, C[x], aggregate)
<1>1. DOMAIN E = DOMAIN B \cup {x} /\ E[x] = C[x] /\ \A y \in DOMAIN B : E[y] = B[y]
  BY DEF With
<1>2. DOMAIN U = DOMAIN A \cup DOMAIN B /\ DOMAIN V = DOMAIN A \cup DOMAIN E
  BY DEF UnionMap
<1>3. \A y \in DOMAIN U : U[y] = IF y \in DOMAIN A \cap DOMAIN B THEN zunionInterAggregate(A[y], B[y], aggregate)
                                 ELSE IF y \in DOMAIN A THEN A[y] ELSE B[y]
  BY DEF UnionMap
<1>4. \A y \in DOMAIN V : V[y] = IF y \in DOMAIN A \cap DOMAIN E THEN zunionInterAggregate(A[y], E[y], aggregate)
                                 ELSE IF y \in DOMAIN A THEN A[y] ELSE E[y]
  BY DEF UnionMap
<1>5. V = [y \in DOMAIN V |-> V[y]]
  BY DEF UnionMap
<1> HIDE DEF U, V
<1>6. V[x] = t
  <2>1. CASE x \in DOMAIN A
    <3>1. U[x] = A[x] /\ x \in DOMAIN U
      BY <1>2, <1>3, <2>1
    <3>2. t = zunionInterAggregate(A[x], C[x], aggregate)
      BY <3>1 DEF Met
    <3>3. QED
      BY <1>1, <1>2, <1>4, <2>1, <3>2
  <2>2. CASE x \notin DOMAIN A
    <3>1. x \notin DOMAIN U
      BY <1>2, <2>2
    <3>2. t = C[x]
      BY <3>1 DEF Met
    <3>3. QED
      BY <1>1, <1>2, <1>4, <2>2, <3>2
  <2>3. QED
    BY <2>1, <2>2
<1>7. \A y \in DOMAIN V : y # x => y \in DOMAIN U /\ V[y] = U[y]
  BY <1>1, <1>2, <1>3, <1>4
<1>8. DOMAIN V = DOMAIN U \cup {x}
  BY <1>1, <1>2
<1> HIDE DEF t
<1>9. With(U, x, t) = V
  <2> DEFINE W == With(U, x, t)
  <2>1. DOMAIN W = DOMAIN V /\ W = [y \in DOMAIN W |-> W[y]]
    BY <1>8 DEF With
  <2>2. \A y \in DOMAIN V : W[y] = V[y]
    BY <1>6, <1>7, <1>8 DEF With
  <2> HIDE DEF W
  <2>3. QED
    BY <1>5, <2>1, <2>2 DEF W
<1>10. QED
  BY <1>9 DEF U, V, t

\* The values of an accumulator that stages the entries of keys.
StagesAll(h, M, keys, aggregate) ==
    \A n \in 1 .. Len(keys) :
        \E e : e.ele = keys[n] /\ e.score = M[keys[n]] /\ h[n] = StageStep(h[n - 1], e, aggregate)

\* Distinct entries on top of what is there.
LEMMA StageAllIs ==
    ASSUME NEW h, NEW A, Stage(h[0], A, DOMAIN A), A = [x \in DOMAIN A |-> A[x]],
           NEW M, NEW keys \in Seq(DOMAIN M), DOMAIN M \subseteq Members, IsInjective(keys), NEW aggregate,
           StagesAll(h, M, keys, aggregate)
    PROVE  LET U == UnionMap(A, Only(Valued(M, aggregate), ToSet(keys)), aggregate)
           IN  Stage(h[Len(keys)], U, DOMAIN U)
<1> DEFINE N == Len(keys)
           V == Valued(M, aggregate)
           U(n) == UnionMap(A, Only(V, First(keys, n)), aggregate)
           P(n) == Stage(h[n], U(n), DOMAIN U(n))
           T == {n \in 0 .. N : P(n)}
<1>1. N \in Nat /\ \A i \in 1 .. N : keys[i] \in DOMAIN M
  OBVIOUS
<1>2. DOMAIN V = DOMAIN M /\ \A x \in DOMAIN M : V[x] = zuiWeightedScore(M[x], aggregate)
  BY DEF Valued
<1>3. keys \in Seq(Members) /\ First(keys, N) = ToSet(keys) /\ ToSet(keys) \subseteq DOMAIN M
  <2>1. keys \in Seq(Members)
    BY <1>1
  <2>2. QED
    BY <2>1, FirstIs
<1>4. \A n \in 0 .. N : First(keys, n) \subseteq DOMAIN M
  BY <1>1 DEF First
<1> HIDE DEF V
<1>5. 0 \in T
  <2>1. DOMAIN Only(V, First(keys, 0)) = {}
    BY DEF Only, First
  <2>2. U(0) = A
    <3> DEFINE B == Only(V, First(keys, 0))
    <3> HIDE DEF B
    <3>1. DOMAIN B = {}
      BY <2>1 DEF B
    <3>2. UnionMap(A, B, aggregate) = A
      BY <3>1 DEF UnionMap
    <3>3. QED
      BY <3>2 DEF B
  <2> HIDE DEF U
  <2>3. P(0)
    BY <2>2
  <2>4. 0 \in 0 .. N
    BY <1>1
  <2>5. QED
    BY <2>3, <2>4
<1>6. ASSUME NEW n \in 0 .. (N - 1), n \in T PROVE n + 1 \in T
  <2> DEFINE j == n + 1
             x == keys[j]
             B == Only(V, First(keys, n))
             E == Only(V, First(keys, j))
             v == zuiWeightedScore(M[x], aggregate)
             W == With(U(n), x, Met(U(n), x, V[x], aggregate))
  <2>1. /\ Only(V, First(keys, j)) = With(Only(V, First(keys, n)), x, V[x])
        /\ j \in 1 .. N /\ j \in 0 .. N /\ j - 1 = n /\ x \in Members /\ x \in ToSet(keys)
        /\ x \notin First(keys, n)
    BY <1>3, NextKey
  <2>2. x \in DOMAIN M /\ V[x] = v
    BY <1>2, <1>3, <2>1
  <2>3. Stage(h[n], U(n), DOMAIN U(n))
    BY <1>6
  <2>4. PICK e : e.ele = x /\ e.score = M[x] /\ h[j] = StageStep(h[n], e, aggregate)
    BY <2>1 DEF StagesAll
  <2>5. Stage(h[j], W, DOMAIN W)
    <3> DEFINE S == U(n)
    <3> HIDE DEF U, S, x, j, v
    <3>1. Stage(h[n], S, DOMAIN S) /\ e.ele \in Members
      BY <2>1, <2>3, <2>4 DEF S
    <3>2. LET vv == zuiWeightedScore(e.score, aggregate)
              WW == With(S, e.ele, Met(S, e.ele, vv, aggregate))
          IN  Stage(StageStep(h[n], e, aggregate), WW, DOMAIN WW)
      BY <3>1, StageStepIs
    <3>3. zuiWeightedScore(e.score, aggregate) = V[x] /\ e.ele = x
      BY <2>2, <2>4 DEF v
    <3>4. QED
      BY <2>4, <3>2, <3>3 DEF S
  <2>6. W = U(j)
    <3>1. DOMAIN B \subseteq DOMAIN V /\ (\A y \in DOMAIN B : B[y] = V[y]) /\ x \in DOMAIN V /\ x \notin DOMAIN B /\ E = With(B, x, V[x])
      <4>1. DOMAIN B = First(keys, n) /\ \A y \in First(keys, n) : B[y] = V[y]
        BY DEF Only
      <4>2. First(keys, n) \subseteq DOMAIN V
        BY <1>2, <1>4
      <4>3. QED
        BY <1>2, <2>1, <2>2, <4>1, <4>2
    <3> HIDE DEF B, E, x
    <3>2. LET UU == UnionMap(A, B, aggregate) IN With(UU, x, Met(UU, x, V[x], aggregate)) = UnionMap(A, E, aggregate)
      BY <3>1, UnionMore
    <3>3. QED
      BY <3>2 DEF B, E
  <2> HIDE DEF U, W, j
  <2>7. P(j)
    BY <2>5, <2>6
  <2>8. QED
    BY <2>1, <2>7 DEF j
<1>7. \A n \in 0 .. N : n \in T
  <2> HIDE DEF T, N
  <2>1. QED
    BY <1>1, <1>5, <1>6, UpTo
<1>8. P(N)
  <2>1. N \in 0 .. N
    BY <1>1
  <2>2. N \in T
    <3> HIDE DEF T, N
    <3>1. QED
      BY <1>7, <2>1
  <2>3. QED
    BY <2>2
<1>9. QED
  BY <1>3, <1>8 DEF V

\* The loop of a union.
StageAll(aggregate, b, s) == FoldLeft(LAMBDA acc, e : StageStep(acc, e, aggregate), b, s)

StageAllStep(aggregate, acc, x) == StageStep(acc, x, aggregate)

StageAllRun(g, aggregate, b, s) == g[0] = b /\ \A n \in 1 .. Len(s) : g[n] = StageAllStep(aggregate, g[n - 1], s[n])

\* Such a loop passes through the values of its accumulator.
LEMMA StageAllFold ==
    ASSUME NEW aggregate, NEW b, NEW S, NEW s \in Seq(S)
    PROVE  \E g : StageAllRun(g, aggregate, b, s) /\ StageAll(aggregate, b, s) = g[Len(s)]
<1> DEFINE N == Len(s)
           Eqn(it, m) == it = [V \in SUBSET (1 .. m) |->
                           IF V = {} THEN b ELSE StageAllStep(aggregate, it[V \ {Max(V)}], s[Max(V)])]
           T == {m \in 0 .. N : \E it : Eqn(it, m)}
           it == CHOOSE it : Eqn(it, N)
<1>1. N \in Nat /\ DOMAIN s = 1 .. N
  OBVIOUS
<1>2. 0 \in T
  <2>1. SUBSET (1 .. 0) = {{}}
    OBVIOUS
  <2>2. Eqn([V \in SUBSET (1 .. 0) |-> b], 0)
    BY <2>1
  <2>3. 0 \in 0 .. N /\ \E f : Eqn(f, 0)
    <3> HIDE DEF Eqn
    <3>1. QED
      BY <1>1, <2>2
  <2>4. QED
    BY <2>3
<1>3. ASSUME NEW m \in 0 .. (N - 1), m \in T PROVE m + 1 \in T
  <2>1. PICK f : Eqn(f, m)
    BY <1>3
  <2>2. m \in Nat /\ m + 1 \in 0 .. N /\ m + 1 \in Nat
    BY <1>1
  <2> DEFINE h == [V \in SUBSET (1 .. (m + 1)) |->
                     IF V = {} THEN b ELSE IF m + 1 \in V THEN StageAllStep(aggregate, f[V \ {m + 1}], s[m + 1]) ELSE f[V]]
  <2>3. f[{}] = b /\ \A V \in SUBSET (1 .. m) : V # {} => f[V] = StageAllStep(aggregate, f[V \ {Max(V)}], s[Max(V)])
    BY <2>1
  <2>4. ASSUME NEW V \in SUBSET (1 .. m) PROVE h[V] = f[V] /\ V \in SUBSET (1 .. (m + 1)) /\ m + 1 \notin V
    <3>1. V \in SUBSET (1 .. (m + 1)) /\ m + 1 \notin V
      BY <2>2
    <3>2. QED
      BY <2>3, <3>1
  <2> HIDE DEF Eqn
  <2>5. ASSUME NEW V \in SUBSET (1 .. (m + 1)), V # {}
        PROVE  h[V] = StageAllStep(aggregate, h[V \ {Max(V)}], s[Max(V)])
    <3>1. CASE m + 1 \in V
      <4>1. Max(V) = m + 1
        <5>1. V \in SUBSET Int /\ \A x \in V : m + 1 >= x
          BY <2>2
        <5>2. QED
          BY <3>1, <5>1, MaxIs
      <4>2. V \ {m + 1} \in SUBSET (1 .. m)
        BY <2>2
      <4>3. h[V \ {m + 1}] = f[V \ {m + 1}]
        BY <2>4, <4>2
      <4>4. h[V] = StageAllStep(aggregate, f[V \ {m + 1}], s[m + 1])
        BY <3>1
      <4>5. QED
        BY <4>1, <4>3, <4>4
    <3>2. CASE m + 1 \notin V
      <4>1. V \in SUBSET (1 .. m)
        BY <2>2, <3>2
      <4>2. V \ {Max(V)} \in SUBSET (1 .. m)
        BY <4>1
      <4>3. h[V] = f[V] /\ h[V \ {Max(V)}] = f[V \ {Max(V)}]
        BY <2>4, <4>1, <4>2
      <4>4. QED
        BY <2>3, <2>5, <4>1, <4>3
    <3>3. QED
      BY <3>1, <3>2
  <2>6. Eqn(h, m + 1)
    <3>1. h[{}] = b
      OBVIOUS
    <3>2. \A V \in SUBSET (1 .. (m + 1)) : h[V] = IF V = {} THEN b ELSE StageAllStep(aggregate, h[V \ {Max(V)}], s[Max(V)])
      BY <2>5, <3>1
    <3>3. h = [V \in SUBSET (1 .. (m + 1)) |-> h[V]]
      OBVIOUS
    <3> HIDE DEF h
    <3>4. QED
      BY <3>2, <3>3 DEF Eqn
  <2>7. QED
    BY <2>2, <2>6
<1>4. \A m \in 0 .. N : m \in T
  <2> HIDE DEF T, N
  <2>1. QED
    BY <1>1, <1>2, <1>3, UpTo
<1>5. \E f : Eqn(f, N)
  <2>0. N \in 0 .. N
    BY <1>1
  <2>1. N \in T
    <3> HIDE DEF T, N
    <3>1. QED
      BY <1>4, <2>0
  <2>2. QED
    BY <2>1
<1>6. Eqn(it, N)
  <2> HIDE DEF Eqn
  <2>1. QED
    BY <1>5
<1>7. StageAll(aggregate, b, s) = it[1 .. N]
  BY <1>1 DEF StageAll, FoldLeft, MapThenFoldSet, StageAllStep
<1> HIDE DEF it
<1> DEFINE g == [n \in 0 .. N |-> it[1 .. n]]
<1>8. g[0] = b
  <2>1. 1 .. 0 = {} /\ 0 \in 0 .. N
    BY <1>1
  <2>2. QED
    BY <1>6, <2>1
<1>9. ASSUME NEW n \in 1 .. N
      PROVE  g[n] = StageAllStep(aggregate, g[n - 1], s[n])
  <2>1. /\ 1 .. n \in SUBSET (1 .. N) /\ 1 .. n # {}
        /\ Max(1 .. n) = n /\ (1 .. n) \ {n} = 1 .. (n - 1)
    BY <1>1, MaxOfInitial
  <2>2. it[1 .. n] = StageAllStep(aggregate, it[(1 .. n) \ {Max(1 .. n)}], s[Max(1 .. n)])
    BY <1>6, <2>1
  <2>3. n \in 0 .. N /\ n - 1 \in 0 .. N
    BY <1>1
  <2>4. g[n] = it[1 .. n] /\ g[n - 1] = it[1 .. (n - 1)]
    BY <2>3
  <2>5. QED
    BY <2>1, <2>2, <2>4
<1>10. g[N] = it[1 .. N]
  BY <1>1
<1> HIDE DEF g
<1>11. QED
  BY <1>7, <1>8, <1>9, <1>10 DEF StageAllRun

\* What a set operation returns: the entries of a map, in some order.
EntriesOf(s, M) ==
    /\ \E keys \in Seq(Members) : IsInjective(keys) /\ ToSet(keys) = DOMAIN M /\ s = Paired(M, keys)
    /\ DOMAIN M \subseteq Members /\ \A x \in DOMAIN M : M[x] \in Int

\* The entries of a run of members.
LEMMA PairedOver ==
    ASSUME NEW m, NEW keys \in Seq(DOMAIN m), m \in [DOMAIN m -> Int], DOMAIN m \subseteq Members
    PROVE  /\ Paired(m, keys) \in Seq([ele : Members, score : Int]) /\ Len(Paired(m, keys)) = Len(keys)
           /\ \A i \in 1 .. Len(keys) : Paired(m, keys)[i].ele = keys[i] /\ Paired(m, keys)[i].score = m[keys[i]]
<1> DEFINE e == Paired(m, keys)
           R == [ele : Members, score : Int]
<1>1. PairedFacts(m, keys)
  BY PairedIs
<1>2. /\ DOMAIN e = 1 .. Len(keys) /\ Len(e) = Len(keys)
      /\ \A i \in 1 .. Len(keys) : e[i] = [ele |-> keys[i], score |-> m[keys[i]]]
      /\ \A i \in 1 .. Len(keys) : e[i].ele = keys[i] /\ e[i].score = m[keys[i]]
      /\ e = [i \in DOMAIN e |-> e[i]]
  <2>1. e = [i \in DOMAIN e |-> e[i]]
    BY DEF Paired
  <2>2. QED
    BY <1>1, <2>1 DEF PairedFacts
<1>3. \A i \in 1 .. Len(keys) : e[i] \in R
  <2> TAKE i \in 1 .. Len(keys)
  <2>1. keys[i] \in DOMAIN m
    OBVIOUS
  <2>2. keys[i] \in Members /\ m[keys[i]] \in Int
    BY <2>1
  <2>3. QED
    BY <1>2, <2>2
<1> HIDE DEF e, R
<1>4. e \in [1 .. Len(keys) -> R] /\ Len(keys) \in Nat
  BY <1>2, <1>3
<1>5. e \in Seq(R)
  BY <1>4
<1>6. QED
  BY <1>2, <1>5 DEF e, R

\* The union of two objects.
LEMMA UnionIs ==
    ASSUME NEW y, NEW a, NEW p, Good(y, a, p), NEW z, NEW b, NEW q, Good(z, b, q), NEW aggregate
    PROVE  EntriesOf(UnionOf(<<y, z>>, aggregate), UnionMap(Valued(a, aggregate), Valued(b, aggregate), aggregate))
<1> DEFINE ka == Reverse(Sorted(a))
           kb == Reverse(Sorted(b))
           ea == Paired(a, ka)
           eb == Paired(b, kb)
           A == Valued(a, aggregate)
           B == Valued(b, aggregate)
           s == ea \o eb
           b0 == Staging(zsetLength(z))
<1>1. GoodMap(a) /\ MapFacts(a) /\ GoodMap(b) /\ MapFacts(b)
  BY GoodCases
<1>2. /\ ka \in Seq(DOMAIN a) /\ ToSet(ka) = DOMAIN a /\ IsInjective(ka) /\ Len(ka) \in Nat
      /\ a \in [DOMAIN a -> Int] /\ DOMAIN a \subseteq Members
  <2>1. Sorted(a) \in Seq(DOMAIN a) /\ ToSet(Sorted(a)) = DOMAIN a /\ IsInjective(Sorted(a))
    BY <1>1 DEF MapFacts
  <2>2. ka \in Seq(DOMAIN a) /\ ToSet(ka) = DOMAIN a /\ IsInjective(ka) 
    BY <2>1, ReverseIs
  <2>3. QED
    BY <1>1, <2>2 DEF MapFacts
<1>3. /\ kb \in Seq(DOMAIN b) /\ ToSet(kb) = DOMAIN b /\ IsInjective(kb) /\ Len(kb) \in Nat
      /\ b \in [DOMAIN b -> Int] /\ DOMAIN b \subseteq Members
  <2>1. Sorted(b) \in Seq(DOMAIN b) /\ ToSet(Sorted(b)) = DOMAIN b /\ IsInjective(Sorted(b))
    BY <1>1 DEF MapFacts
  <2>2. kb \in Seq(DOMAIN b) /\ ToSet(kb) = DOMAIN b /\ IsInjective(kb)
    BY <2>1, ReverseIs
  <2>3. QED
    BY <1>1, <2>2 DEF MapFacts
<1>4. Backwards(y) = ea /\ Backwards(z) = eb
  BY BackwardsIs
<1>5. UnionOf(<<y, z>>, aggregate) = Staged(StageAll(aggregate, b0, s))
  <2>1. <<y, z>>[1] = y /\ <<y, z>>[2] = z
    OBVIOUS
  <2>2. QED
    BY <1>4, <2>1 DEF UnionOf, StageAll
<1> HIDE DEF ka, kb
<1> DEFINE R == [ele : Members, score : Int]
<1>6. /\ ea \in Seq(R) /\ Len(ea) = Len(ka)
      /\ \A i \in 1 .. Len(ka) : ea[i].ele = ka[i] /\ ea[i].score = a[ka[i]]
  BY <1>2, PairedOver
<1>7. /\ eb \in Seq(R) /\ Len(eb) = Len(kb)
      /\ \A i \in 1 .. Len(kb) : eb[i].ele = kb[i] /\ eb[i].score = b[kb[i]]
  BY <1>3, PairedOver
<1> HIDE DEF ea, eb, R
<1>8. s \in Seq(R) /\ Joined(ea, eb)
  BY <1>6, <1>7, Join
<1>9. /\ Len(s) = Len(ka) + Len(kb) /\ (\A i \in 1 .. Len(ka) : s[i] = ea[i])
      /\ \A i \in 1 .. Len(kb) : s[Len(ka) + i] = eb[i]
  BY <1>6, <1>7, <1>8 DEF Joined
<1> HIDE DEF s, b0
<1>10. PICK g : StageAllRun(g, aggregate, b0, s) /\ StageAll(aggregate, b0, s) = g[Len(s)]
  BY <1>8, StageAllFold
<1>11. g[0] = b0 /\ \A n \in 1 .. Len(s) : g[n] = StageStep(g[n - 1], s[n], aggregate)
  BY <1>10 DEF StageAllRun, StageAllStep
<1>12. DOMAIN A = DOMAIN a /\ A = [x \in DOMAIN A |-> A[x]] /\ DOMAIN B = DOMAIN b /\ B = [x \in DOMAIN B |-> B[x]]
  BY DEF Valued
<1>13. Stage(g[Len(ka)], A, DOMAIN A)
  <2> DEFINE e == [x \in {} |-> 0]
             U == UnionMap(e, Only(A, ToSet(ka)), aggregate)
             none == {}
  <2>1. DOMAIN e = {} /\ e \in [DOMAIN e -> Int] /\ e = [x \in DOMAIN e |-> e[x]]
    OBVIOUS
  <2>2. zsetLength(z) \in Nat
    BY WalkOf
  <2> HIDE DEF e
  <2>3. Stage(g[0], e, DOMAIN e)
    <3>1. Stage(b0, e, {})
      BY <2>1, <2>2, StagingIs DEF b0
    <3>2. QED
      BY <1>11, <2>1, <3>1
  <2>4. StagesAll(g, a, ka, aggregate)
    <3> SUFFICES ASSUME NEW n \in 1 .. Len(ka)
                 PROVE  \E f : f.ele = ka[n] /\ f.score = a[ka[n]] /\ g[n] = StageStep(g[n - 1], f, aggregate)
      BY DEF StagesAll
    <3>1. n \in 1 .. Len(s)
      BY <1>2, <1>3, <1>9
    <3>2. QED
      BY <1>6, <1>9, <1>11, <3>1
  <2>5. Stage(g[Len(ka)], U, DOMAIN U)
    BY <1>2, <2>1, <2>3, <2>4, StageAllIs
  <2>6. Only(A, ToSet(ka)) = A
    BY <1>2, <1>12 DEF Only
  <2>7. UnionMap(e, A, aggregate) = A
    <3> HIDE DEF A
    <3>1. QED
      BY <1>12, <2>1 DEF UnionMap
  <2>8. U = A
    BY <2>6, <2>7
  <2> HIDE DEF U
  <2>9. QED
    BY <2>5, <2>8
<1> DEFINE h == [n \in 0 .. Len(kb) |-> g[Len(ka) + n]]
           U == UnionMap(A, B, aggregate)
<1>14. Stage(h[Len(kb)], U, DOMAIN U)
  <2>1. h[0] = g[Len(ka)]
    BY <1>2, <1>3
  <2>2. StagesAll(h, b, kb, aggregate)
    <3> SUFFICES ASSUME NEW n \in 1 .. Len(kb)
                 PROVE  \E f : f.ele = kb[n] /\ f.score = b[kb[n]] /\ h[n] = StageStep(h[n - 1], f, aggregate)
      BY DEF StagesAll
    <3>1. /\ Len(ka) + n \in 1 .. Len(s) /\ n \in 0 .. Len(kb) /\ n - 1 \in 0 .. Len(kb)
          /\ (Len(ka) + n) - 1 = Len(ka) + (n - 1)
      BY <1>2, <1>3, <1>9
    <3>2. h[n] = g[Len(ka) + n] /\ h[n - 1] = g[Len(ka) + (n - 1)]
      BY <3>1
    <3>3. g[Len(ka) + n] = StageStep(g[(Len(ka) + n) - 1], s[Len(ka) + n], aggregate)
      BY <1>11, <3>1
    <3> HIDE DEF h
    <3>4. h[n] = StageStep(h[n - 1], eb[n], aggregate)
      BY <1>9, <3>1, <3>2, <3>3
    <3>5. QED
      BY <1>7, <3>4
  <2> HIDE DEF h
  <2> DEFINE W == UnionMap(A, Only(B, ToSet(kb)), aggregate)
  <2>3. Stage(h[Len(kb)], W, DOMAIN W)
    <3>1. Stage(h[0], A, DOMAIN A)
      BY <1>13, <2>1
    <3> HIDE DEF A
    <3>2. QED
      BY <1>3, <1>12, <2>2, <3>1, StageAllIs
  <2>4. Only(B, ToSet(kb)) = B
    BY <1>3, <1>12 DEF Only
  <2>5. W = U
    BY <2>4
  <2> HIDE DEF W, U
  <2>6. QED
    BY <2>3, <2>5
<1>15. h[Len(kb)] = g[Len(s)]
  BY <1>2, <1>3, <1>9
<1>16. UnionOf(<<y, z>>, aggregate) = Staged(g[Len(s)])
  BY <1>5, <1>10
<1>17. DOMAIN U = DOMAIN a \cup DOMAIN b /\ DOMAIN U \subseteq Members
  BY <1>2, <1>3, <1>12 DEF UnionMap
<1>18. \A x \in DOMAIN U : U[x] \in Int
  <2>1. \A x \in DOMAIN a : A[x] \in Int
    <3> TAKE x \in DOMAIN a
    <3>1. a[x] \in Int
      BY <1>2
    <3>2. zuiWeightedScore(a[x], aggregate) \in Int
      BY <3>1, AggregateIs
    <3>3. QED
      BY <3>2 DEF Valued
  <2>2. \A x \in DOMAIN b : B[x] \in Int
    <3> TAKE x \in DOMAIN b
    <3>1. b[x] \in Int
      BY <1>3
    <3>2. zuiWeightedScore(b[x], aggregate) \in Int
      BY <3>1, AggregateIs
    <3>3. QED
      BY <3>2 DEF Valued
  <2>3. \A u, v \in Int : zunionInterAggregate(u, v, aggregate) \in Int
    BY AggregateIs
  <2> HIDE DEF A, B
  <2>4. QED
    BY <1>12, <2>1, <2>2, <2>3 DEF UnionMap
<1> HIDE DEF U, h
<1>19. PICK keys \in Seq(Members) : IsInjective(keys) /\ ToSet(keys) = DOMAIN U /\ Staged(g[Len(s)]) = Paired(U, keys)
  BY <1>14, <1>15, StagedIs
<1>20. EntriesOf(UnionOf(<<y, z>>, aggregate), U)
  BY <1>16, <1>17, <1>18, <1>19 DEF EntriesOf
<1>21. QED
  BY <1>20 DEF U

-----------------------------------------------------------------------------
(* Intersections and differences. *)

\* The loop of an intersection.
InterAll(aggregate, b, s) == FoldLeft(LAMBDA acc, e : InterStep(acc, e, zsetScore(acc.zobj, e.ele), aggregate), b, s)

InterAllStep(aggregate, acc, x) == InterStep(acc, x, zsetScore(acc.zobj, x.ele), aggregate)

InterAllRun(g, aggregate, b, s) == g[0] = b /\ \A n \in 1 .. Len(s) : g[n] = InterAllStep(aggregate, g[n - 1], s[n])

\* Such a loop passes through the values of its accumulator.
LEMMA InterAllFold ==
    ASSUME NEW aggregate, NEW b, NEW S, NEW s \in Seq(S)
    PROVE  \E g : InterAllRun(g, aggregate, b, s) /\ InterAll(aggregate, b, s) = g[Len(s)]
<1> DEFINE N == Len(s)
           Eqn(it, m) == it = [V \in SUBSET (1 .. m) |->
                           IF V = {} THEN b ELSE InterAllStep(aggregate, it[V \ {Max(V)}], s[Max(V)])]
           T == {m \in 0 .. N : \E it : Eqn(it, m)}
           it == CHOOSE it : Eqn(it, N)
<1>1. N \in Nat /\ DOMAIN s = 1 .. N
  OBVIOUS
<1>2. 0 \in T
  <2>1. SUBSET (1 .. 0) = {{}}
    OBVIOUS
  <2>2. Eqn([V \in SUBSET (1 .. 0) |-> b], 0)
    BY <2>1
  <2>3. 0 \in 0 .. N /\ \E f : Eqn(f, 0)
    <3> HIDE DEF Eqn
    <3>1. QED
      BY <1>1, <2>2
  <2>4. QED
    BY <2>3
<1>3. ASSUME NEW m \in 0 .. (N - 1), m \in T PROVE m + 1 \in T
  <2>1. PICK f : Eqn(f, m)
    BY <1>3
  <2>2. m \in Nat /\ m + 1 \in 0 .. N /\ m + 1 \in Nat
    BY <1>1
  <2> DEFINE h == [V \in SUBSET (1 .. (m + 1)) |->
                     IF V = {} THEN b ELSE IF m + 1 \in V THEN InterAllStep(aggregate, f[V \ {m + 1}], s[m + 1]) ELSE f[V]]
  <2>3. f[{}] = b /\ \A V \in SUBSET (1 .. m) : V # {} => f[V] = InterAllStep(aggregate, f[V \ {Max(V)}], s[Max(V)])
    BY <2>1
  <2>4. ASSUME NEW V \in SUBSET (1 .. m) PROVE h[V] = f[V] /\ V \in SUBSET (1 .. (m + 1)) /\ m + 1 \notin V
    <3>1. V \in SUBSET (1 .. (m + 1)) /\ m + 1 \notin V
      BY <2>2
    <3>2. QED
      BY <2>3, <3>1
  <2> HIDE DEF Eqn
  <2>5. ASSUME NEW V \in SUBSET (1 .. (m + 1)), V # {}
        PROVE  h[V] = InterAllStep(aggregate, h[V \ {Max(V)}], s[Max(V)])
    <3>1. CASE m + 1 \in V
      <4>1. Max(V) = m + 1
        <5>1. V \in SUBSET Int /\ \A x \in V : m + 1 >= x
          BY <2>2
        <5>2. QED
          BY <3>1, <5>1, MaxIs
      <4>2. V \ {m + 1} \in SUBSET (1 .. m)
        BY <2>2
      <4>3. h[V \ {m + 1}] = f[V \ {m + 1}]
        BY <2>4, <4>2
      <4>4. h[V] = InterAllStep(aggregate, f[V \ {m + 1}], s[m + 1])
        BY <3>1
      <4>5. QED
        BY <4>1, <4>3, <4>4
    <3>2. CASE m + 1 \notin V
      <4>1. V \in SUBSET (1 .. m)
        BY <2>2, <3>2
      <4>2. V \ {Max(V)} \in SUBSET (1 .. m)
        BY <4>1
      <4>3. h[V] = f[V] /\ h[V \ {Max(V)}] = f[V \ {Max(V)}]
        BY <2>4, <4>1, <4>2
      <4>4. QED
        BY <2>3, <2>5, <4>1, <4>3
    <3>3. QED
      BY <3>1, <3>2
  <2>6. Eqn(h, m + 1)
    <3>1. h[{}] = b
      OBVIOUS
    <3>2. \A V \in SUBSET (1 .. (m + 1)) : h[V] = IF V = {} THEN b ELSE InterAllStep(aggregate, h[V \ {Max(V)}], s[Max(V)])
      BY <2>5, <3>1
    <3>3. h = [V \in SUBSET (1 .. (m + 1)) |-> h[V]]
      OBVIOUS
    <3> HIDE DEF h
    <3>4. QED
      BY <3>2, <3>3 DEF Eqn
  <2>7. QED
    BY <2>2, <2>6
<1>4. \A m \in 0 .. N : m \in T
  <2> HIDE DEF T, N
  <2>1. QED
    BY <1>1, <1>2, <1>3, UpTo
<1>5. \E f : Eqn(f, N)
  <2>0. N \in 0 .. N
    BY <1>1
  <2>1. N \in T
    <3> HIDE DEF T, N
    <3>1. QED
      BY <1>4, <2>0
  <2>2. QED
    BY <2>1
<1>6. Eqn(it, N)
  <2> HIDE DEF Eqn
  <2>1. QED
    BY <1>5
<1>7. InterAll(aggregate, b, s) = it[1 .. N]
  BY <1>1 DEF InterAll, FoldLeft, MapThenFoldSet, InterAllStep
<1> HIDE DEF it
<1> DEFINE g == [n \in 0 .. N |-> it[1 .. n]]
<1>8. g[0] = b
  <2>1. 1 .. 0 = {} /\ 0 \in 0 .. N
    BY <1>1
  <2>2. QED
    BY <1>6, <2>1
<1>9. ASSUME NEW n \in 1 .. N
      PROVE  g[n] = InterAllStep(aggregate, g[n - 1], s[n])
  <2>1. /\ 1 .. n \in SUBSET (1 .. N) /\ 1 .. n # {}
        /\ Max(1 .. n) = n /\ (1 .. n) \ {n} = 1 .. (n - 1)
    BY <1>1, MaxOfInitial
  <2>2. it[1 .. n] = InterAllStep(aggregate, it[(1 .. n) \ {Max(1 .. n)}], s[Max(1 .. n)])
    BY <1>6, <2>1
  <2>3. n \in 0 .. N /\ n - 1 \in 0 .. N
    BY <1>1
  <2>4. g[n] = it[1 .. n] /\ g[n - 1] = it[1 .. (n - 1)]
    BY <2>3
  <2>5. QED
    BY <2>1, <2>2, <2>4
<1>10. g[N] = it[1 .. N]
  BY <1>1
<1> HIDE DEF g
<1>11. QED
  BY <1>7, <1>8, <1>9, <1>10 DEF InterAllRun

\* The intersection of two maps.
InterMap(A, B, aggregate) == [x \in DOMAIN A \cap DOMAIN B |-> zunionInterAggregate(A[x], B[x], aggregate)]

\* What the loop has found: the entries of u.
Inter(acc, b, q, C, u) ==
    /\ DOMAIN acc = {"zobj", "out"} /\ Good(acc.zobj, b, q)
    /\ acc.out = Paired(C, u) /\ u \in Seq(Members) /\ IsInjective(u)

\* Scores are numbers.
Numbers(m) == \A x \in DOMAIN m : m[x] # NaN

\* C has the score of an entry that is in both sets.
InterScore(C, b, e, aggregate) ==
    e.ele \in DOMAIN b => C[e.ele] = zunionInterAggregate(zuiWeightedScore(e.score, aggregate),
                                         zuiWeightedScore(b[e.ele], aggregate), aggregate)

\* One member, looked up in the other set.
LEMMA InterStepIs ==
    ASSUME NEW acc, NEW b, NEW q, NEW C, NEW u, Inter(acc, b, q, C, u), NEW e, e.ele \in Members, e.ele \notin ToSet(u),
           Numbers(b), NEW aggregate, InterScore(C, b, e, aggregate)
    PROVE  \E v : /\ Inter(InterStep(acc, e, zsetScore(acc.zobj, e.ele), aggregate), b, q, C, v)
                  /\ ToSet(v) = ToSet(u) \cup ({e.ele} \cap DOMAIN b)
<1> DEFINE x == e.ele
           t == zsetScore(acc.zobj, x)
           y == Touch(acc.zobj, x)
           r == InterStep(acc, e, t, aggregate)
<1> SUFFICES \E v : Inter(r, b, q, C, v) /\ ToSet(v) = ToSet(u) \cup ({x} \cap DOMAIN b)
  OBVIOUS
<1>1. /\ DOMAIN acc = {"zobj", "out"} /\ Good(acc.zobj, b, q)
      /\ acc.out = Paired(C, u) /\ u \in Seq(Members) /\ IsInjective(u) /\ x \in Members /\ x \notin ToSet(u)
  BY DEF Inter
<1>2. Good(y, b, q) /\ t = IF x \in DOMAIN b THEN b[x] ELSE NaN
  BY <1>1, TouchIs
<1>3. r = IF t = NaN THEN [acc EXCEPT !.zobj = y]
          ELSE [zobj |-> y, out |-> Append(acc.out, [ele |-> x,
                  score |-> zunionInterAggregate(zuiWeightedScore(e.score, aggregate), zuiWeightedScore(t, aggregate), aggregate)])]
  BY DEF InterStep
<1> DEFINE c == zunionInterAggregate(zuiWeightedScore(e.score, aggregate), zuiWeightedScore(t, aggregate), aggregate)
<1>4. x \in DOMAIN b => c = C[x]
  BY <1>2 DEF InterScore
<1>5. r = IF t = NaN THEN [acc EXCEPT !.zobj = y] ELSE [zobj |-> y, out |-> Append(acc.out, [ele |-> x, score |-> c])]
  BY <1>3
<1>6. x \in DOMAIN b <=> t # NaN
  BY <1>2 DEF Numbers
<1> HIDE DEF x, t, y, r, c
<1>7. CASE x \notin DOMAIN b
  <2>1. r = [acc EXCEPT !.zobj = y]
    BY <1>5, <1>6, <1>7
  <2>2. DOMAIN r = {"zobj", "out"} /\ r.zobj = y /\ r.out = acc.out
    BY <1>1, <2>1
  <2>3. Inter(r, b, q, C, u)
    BY <1>1, <1>2, <2>2 DEF Inter
  <2>4. QED
    BY <1>7, <2>3
<1>8. CASE x \in DOMAIN b
  <2> DEFINE v == Append(u, x)
  <2>1. r = [zobj |-> y, out |-> Append(acc.out, [ele |-> x, score |-> C[x]])]
    BY <1>4, <1>5, <1>6, <1>8
  <2>2. Append(Paired(C, u), [ele |-> x, score |-> C[x]]) = Paired(C, v)
    BY <1>1, PairedAppend
  <2>3. DOMAIN r = {"zobj", "out"} /\ r.zobj = y /\ r.out = Append(acc.out, [ele |-> x, score |-> C[x]])
    BY <2>1
  <2>4. v \in Seq(Members) /\ IsInjective(v) /\ ToSet(v) = ToSet(u) \cup {x}
    BY <1>1, Appended
  <2> HIDE DEF v
  <2>5. Inter(r, b, q, C, v)
    BY <1>1, <1>2, <2>2, <2>3, <2>4 DEF Inter
  <2>6. QED
    BY <1>8, <2>4, <2>5
<1>9. QED
  BY <1>7, <1>8

\* The intersection of two objects.
LEMMA InterIs ==
    ASSUME NEW y, NEW a, NEW p, Good(y, a, p), NEW z, NEW b, NEW q, Good(z, b, q), Numbers(b), NEW aggregate
    PROVE  EntriesOf(InterOf(<<y, z>>, aggregate), InterMap(Valued(a, aggregate), Valued(b, aggregate), aggregate))
<1> DEFINE ka == Reverse(Sorted(a))
           ea == Paired(a, ka)
           C == InterMap(Valued(a, aggregate), Valued(b, aggregate), aggregate)
           b0 == [zobj |-> z, out |-> <<>>]
           N == Len(ka)
<1>1. /\ ka \in Seq(DOMAIN a) /\ ToSet(ka) = DOMAIN a /\ IsInjective(ka) /\ N \in Nat
      /\ a \in [DOMAIN a -> Int] /\ DOMAIN a \subseteq Members
  <2>1. GoodMap(a) /\ MapFacts(a)
    BY GoodCases
  <2>2. Sorted(a) \in Seq(DOMAIN a) /\ ToSet(Sorted(a)) = DOMAIN a /\ IsInjective(Sorted(a))
    BY <2>1 DEF MapFacts
  <2>3. ka \in Seq(DOMAIN a) /\ ToSet(ka) = DOMAIN a /\ IsInjective(ka)
    BY <2>2, ReverseIs
  <2>4. QED
    BY <2>1, <2>3 DEF MapFacts
<1>2. b \in [DOMAIN b -> Int] /\ DOMAIN b \subseteq Members
  <2>1. MapFacts(b)
    BY GoodCases
  <2>2. QED
    BY <2>1 DEF MapFacts
<1>3. Backwards(y) = ea
  BY BackwardsIs
<1>4. InterOf(<<y, z>>, aggregate) = InterAll(aggregate, b0, ea).out
  <2>1. <<y, z>>[1] = y /\ <<y, z>>[2] = z
    OBVIOUS
  <2>2. QED
    BY <1>3, <2>1 DEF InterOf, InterAll
<1> DEFINE R == [ele : Members, score : Int]
<1>5. /\ ea \in Seq(R) /\ Len(ea) = N
      /\ \A i \in 1 .. N : ea[i].ele = ka[i] /\ ea[i].score = a[ka[i]]
  <2> HIDE DEF ka
  <2>1. QED
    BY <1>1, PairedOver
<1>6. /\ DOMAIN C = DOMAIN a \cap DOMAIN b
      /\ \A x \in DOMAIN a \cap DOMAIN b :
            C[x] = zunionInterAggregate(zuiWeightedScore(a[x], aggregate), zuiWeightedScore(b[x], aggregate), aggregate)
  BY DEF InterMap, Valued
<1>7. ka \in Seq(Members)
  <2> HIDE DEF ka
  <2>1. \A i \in 1 .. Len(ka) : ka[i] \in Members
    BY <1>1
  <2>2. QED
    BY <1>1, <2>1
<1> HIDE DEF ea, R, ka, C
<1>8. PICK g : InterAllRun(g, aggregate, b0, ea) /\ InterAll(aggregate, b0, ea) = g[Len(ea)]
  <2> HIDE DEF b0
  <2>1. QED
    BY <1>5, InterAllFold
<1>9. g[0] = b0 /\ \A n \in 1 .. N : g[n] = InterStep(g[n - 1], ea[n], zsetScore(g[n - 1].zobj, ea[n].ele), aggregate)
  BY <1>5, <1>8 DEF InterAllRun, InterAllStep
<1> DEFINE P(n) == \E u : Inter(g[n], b, q, C, u) /\ ToSet(u) = First(ka, n) \cap DOMAIN b
           T == {n \in 0 .. N : P(n)}
<1>10. 0 \in T
  <2> DEFINE e == <<>>
  <2>1. e \in Seq(Members) /\ IsInjective(e) /\ ToSet(e) = {} /\ Paired(C, e) = <<>>
    BY DEF IsInjective, ToSet, Paired
  <2>2. First(ka, 0) = {}
    BY DEF First
  <2>3. DOMAIN b0 = {"zobj", "out"} /\ b0.zobj = z /\ b0.out = <<>>
    OBVIOUS
  <2> HIDE DEF e, b0
  <2>4. Inter(g[0], b, q, C, e)
    BY <1>9, <2>1, <2>3 DEF Inter
  <2>5. ToSet(e) = First(ka, 0) \cap DOMAIN b
    BY <2>1, <2>2
  <2>6. 0 \in 0 .. N
    BY <1>1
  <2>7. QED
    BY <2>4, <2>5, <2>6
<1>11. ASSUME NEW n \in 0 .. (N - 1), n \in T PROVE n + 1 \in T
  <2> DEFINE j == n + 1
             x == ka[j]
             e == ea[j]
  <2>1. /\ j \in 1 .. N /\ j \in 0 .. N /\ j - 1 = n /\ x \in Members /\ x \in ToSet(ka) /\ x \notin First(ka, n)
    BY <1>1, <1>7, NextKey
  <2>2. PICK u : Inter(g[n], b, q, C, u) /\ ToSet(u) = First(ka, n) \cap DOMAIN b
    BY <1>11
  <2>3. First(ka, j) = First(ka, n) \cup {x}
    <3>1. \A k \in 1 .. Len(ka) : First(ka, k) = First(ka, k - 1) \cup {ka[k]}
      BY <1>7, FirstIs
    <3>2. QED
      BY <2>1, <3>1
  <2>4. e.ele = x /\ e.score = a[x] /\ x \in DOMAIN a
    BY <1>1, <1>5, <2>1
  <2>5. g[j] = InterStep(g[n], e, zsetScore(g[n].zobj, e.ele), aggregate)
    BY <1>9, <2>1
  <2>6. x \in DOMAIN b => C[x] = zunionInterAggregate(zuiWeightedScore(e.score, aggregate), zuiWeightedScore(b[x], aggregate), aggregate)
    BY <1>6, <2>4
  <2> HIDE DEF j, x, e
  <2>7. e.ele \in Members /\ e.ele \notin ToSet(u)
    BY <2>1, <2>2, <2>4
  <2>8. InterScore(C, b, e, aggregate)
    BY <2>4, <2>6 DEF InterScore
  <2>9. PICK v : /\ Inter(InterStep(g[n], e, zsetScore(g[n].zobj, e.ele), aggregate), b, q, C, v)
                 /\ ToSet(v) = ToSet(u) \cup ({e.ele} \cap DOMAIN b)
    <3> DEFINE acc == g[n]
    <3>1. Inter(acc, b, q, C, u)
      BY <2>2
    <3> HIDE DEF acc
    <3>2. \E v : /\ Inter(InterStep(acc, e, zsetScore(acc.zobj, e.ele), aggregate), b, q, C, v)
                 /\ ToSet(v) = ToSet(u) \cup ({e.ele} \cap DOMAIN b)
      BY <2>7, <2>8, <3>1, InterStepIs
    <3>3. QED
      BY <3>2 DEF acc
  <2>10. Inter(g[j], b, q, C, v)
    BY <2>5, <2>9
  <2>11. ToSet(v) = First(ka, j) \cap DOMAIN b
    BY <2>2, <2>3, <2>4, <2>9
  <2>12. P(j)
    BY <2>10, <2>11
  <2>13. QED
    BY <2>1, <2>12 DEF j
<1>12. \A n \in 0 .. N : n \in T
  <2> HIDE DEF T, N
  <2>1. QED
    BY <1>1, <1>10, <1>11, UpTo
<1>13. P(N)
  <2>1. N \in 0 .. N
    BY <1>1
  <2>2. N \in T
    <3> HIDE DEF T, N
    <3>1. QED
      BY <1>12, <2>1
  <2>3. QED
    BY <2>2
<1>14. PICK u : Inter(g[N], b, q, C, u) /\ ToSet(u) = First(ka, N) \cap DOMAIN b
  BY <1>13
<1>15. First(ka, N) = DOMAIN a
  BY <1>1, <1>7, FirstIs
<1>16. u \in Seq(Members) /\ IsInjective(u) /\ ToSet(u) = DOMAIN C /\ g[N].out = Paired(C, u)
  BY <1>6, <1>14, <1>15 DEF Inter
<1>17. DOMAIN C \subseteq Members /\ \A x \in DOMAIN C : C[x] \in Int
  <2>1. \A i, k \in Int : zunionInterAggregate(i, k, aggregate) \in Int /\ zuiWeightedScore(i, aggregate) \in Int
    BY AggregateIs
  <2>2. \A x \in DOMAIN C : a[x] \in Int /\ b[x] \in Int
    BY <1>1, <1>2, <1>6
  <2>3. QED
    BY <1>1, <1>6, <2>1, <2>2
<1>18. InterOf(<<y, z>>, aggregate) = Paired(C, u)
  BY <1>4, <1>5, <1>8, <1>16
<1>19. EntriesOf(InterOf(<<y, z>>, aggregate), C)
  BY <1>16, <1>17, <1>18 DEF EntriesOf
<1>20. QED
  BY <1>19 DEF C

\* The loop that stages the first set of a difference.
NewAll(b, s) == FoldLeft(LAMBDA acc, e : StageNew(acc, acc.dict, e.ele, e.score), b, s)

NewAllStep(acc, x) == StageNew(acc, acc.dict, x.ele, x.score)

NewAllRun(g, b, s) == g[0] = b /\ \A n \in 1 .. Len(s) : g[n] = NewAllStep(g[n - 1], s[n])

\* Such a loop passes through the values of its accumulator.
LEMMA NewAllFold ==
    ASSUME NEW b, NEW S, NEW s \in Seq(S)
    PROVE  \E g : NewAllRun(g, b, s) /\ NewAll(b, s) = g[Len(s)]
<1> DEFINE N == Len(s)
           Eqn(it, m) == it = [V \in SUBSET (1 .. m) |->
                           IF V = {} THEN b ELSE NewAllStep(it[V \ {Max(V)}], s[Max(V)])]
           T == {m \in 0 .. N : \E it : Eqn(it, m)}
           it == CHOOSE it : Eqn(it, N)
<1>1. N \in Nat /\ DOMAIN s = 1 .. N
  OBVIOUS
<1>2. 0 \in T
  <2>1. SUBSET (1 .. 0) = {{}}
    OBVIOUS
  <2>2. Eqn([V \in SUBSET (1 .. 0) |-> b], 0)
    BY <2>1
  <2>3. 0 \in 0 .. N /\ \E f : Eqn(f, 0)
    <3> HIDE DEF Eqn
    <3>1. QED
      BY <1>1, <2>2
  <2>4. QED
    BY <2>3
<1>3. ASSUME NEW m \in 0 .. (N - 1), m \in T PROVE m + 1 \in T
  <2>1. PICK f : Eqn(f, m)
    BY <1>3
  <2>2. m \in Nat /\ m + 1 \in 0 .. N /\ m + 1 \in Nat
    BY <1>1
  <2> DEFINE h == [V \in SUBSET (1 .. (m + 1)) |->
                     IF V = {} THEN b ELSE IF m + 1 \in V THEN NewAllStep(f[V \ {m + 1}], s[m + 1]) ELSE f[V]]
  <2>3. f[{}] = b /\ \A V \in SUBSET (1 .. m) : V # {} => f[V] = NewAllStep(f[V \ {Max(V)}], s[Max(V)])
    BY <2>1
  <2>4. ASSUME NEW V \in SUBSET (1 .. m) PROVE h[V] = f[V] /\ V \in SUBSET (1 .. (m + 1)) /\ m + 1 \notin V
    <3>1. V \in SUBSET (1 .. (m + 1)) /\ m + 1 \notin V
      BY <2>2
    <3>2. QED
      BY <2>3, <3>1
  <2> HIDE DEF Eqn
  <2>5. ASSUME NEW V \in SUBSET (1 .. (m + 1)), V # {}
        PROVE  h[V] = NewAllStep(h[V \ {Max(V)}], s[Max(V)])
    <3>1. CASE m + 1 \in V
      <4>1. Max(V) = m + 1
        <5>1. V \in SUBSET Int /\ \A x \in V : m + 1 >= x
          BY <2>2
        <5>2. QED
          BY <3>1, <5>1, MaxIs
      <4>2. V \ {m + 1} \in SUBSET (1 .. m)
        BY <2>2
      <4>3. h[V \ {m + 1}] = f[V \ {m + 1}]
        BY <2>4, <4>2
      <4>4. h[V] = NewAllStep(f[V \ {m + 1}], s[m + 1])
        BY <3>1
      <4>5. QED
        BY <4>1, <4>3, <4>4
    <3>2. CASE m + 1 \notin V
      <4>1. V \in SUBSET (1 .. m)
        BY <2>2, <3>2
      <4>2. V \ {Max(V)} \in SUBSET (1 .. m)
        BY <4>1
      <4>3. h[V] = f[V] /\ h[V \ {Max(V)}] = f[V \ {Max(V)}]
        BY <2>4, <4>1, <4>2
      <4>4. QED
        BY <2>3, <2>5, <4>1, <4>3
    <3>3. QED
      BY <3>1, <3>2
  <2>6. Eqn(h, m + 1)
    <3>1. h[{}] = b
      OBVIOUS
    <3>2. \A V \in SUBSET (1 .. (m + 1)) : h[V] = IF V = {} THEN b ELSE NewAllStep(h[V \ {Max(V)}], s[Max(V)])
      BY <2>5, <3>1
    <3>3. h = [V \in SUBSET (1 .. (m + 1)) |-> h[V]]
      OBVIOUS
    <3> HIDE DEF h
    <3>4. QED
      BY <3>2, <3>3 DEF Eqn
  <2>7. QED
    BY <2>2, <2>6
<1>4. \A m \in 0 .. N : m \in T
  <2> HIDE DEF T, N
  <2>1. QED
    BY <1>1, <1>2, <1>3, UpTo
<1>5. \E f : Eqn(f, N)
  <2>0. N \in 0 .. N
    BY <1>1
  <2>1. N \in T
    <3> HIDE DEF T, N
    <3>1. QED
      BY <1>4, <2>0
  <2>2. QED
    BY <2>1
<1>6. Eqn(it, N)
  <2> HIDE DEF Eqn
  <2>1. QED
    BY <1>5
<1>7. NewAll(b, s) = it[1 .. N]
  BY <1>1 DEF NewAll, FoldLeft, MapThenFoldSet, NewAllStep
<1> HIDE DEF it
<1> DEFINE g == [n \in 0 .. N |-> it[1 .. n]]
<1>8. g[0] = b
  <2>1. 1 .. 0 = {} /\ 0 \in 0 .. N
    BY <1>1
  <2>2. QED
    BY <1>6, <2>1
<1>9. ASSUME NEW n \in 1 .. N
      PROVE  g[n] = NewAllStep(g[n - 1], s[n])
  <2>1. /\ 1 .. n \in SUBSET (1 .. N) /\ 1 .. n # {}
        /\ Max(1 .. n) = n /\ (1 .. n) \ {n} = 1 .. (n - 1)
    BY <1>1, MaxOfInitial
  <2>2. it[1 .. n] = NewAllStep(it[(1 .. n) \ {Max(1 .. n)}], s[Max(1 .. n)])
    BY <1>6, <2>1
  <2>3. n \in 0 .. N /\ n - 1 \in 0 .. N
    BY <1>1
  <2>4. g[n] = it[1 .. n] /\ g[n - 1] = it[1 .. (n - 1)]
    BY <2>3
  <2>5. QED
    BY <2>1, <2>2, <2>4
<1>10. g[N] = it[1 .. N]
  BY <1>1
<1> HIDE DEF g
<1>11. QED
  BY <1>7, <1>8, <1>9, <1>10 DEF NewAllRun

\* The loop that takes the others out.
UnstageAll(b, s) == FoldLeft(LAMBDA acc, e : IF dictSize(acc.dict) = 0 THEN acc ELSE UnstageStep(acc, dictFindLink(acc.dict, e.ele), e.ele), b, s)

UnstageAllStep(acc, x) == IF dictSize(acc.dict) = 0 THEN acc ELSE UnstageStep(acc, dictFindLink(acc.dict, x.ele), x.ele)

UnstageAllRun(g, b, s) == g[0] = b /\ \A n \in 1 .. Len(s) : g[n] = UnstageAllStep(g[n - 1], s[n])

\* Such a loop passes through the values of its accumulator.
LEMMA UnstageAllFold ==
    ASSUME NEW b, NEW S, NEW s \in Seq(S)
    PROVE  \E g : UnstageAllRun(g, b, s) /\ UnstageAll(b, s) = g[Len(s)]
<1> DEFINE N == Len(s)
           Eqn(it, m) == it = [V \in SUBSET (1 .. m) |->
                           IF V = {} THEN b ELSE UnstageAllStep(it[V \ {Max(V)}], s[Max(V)])]
           T == {m \in 0 .. N : \E it : Eqn(it, m)}
           it == CHOOSE it : Eqn(it, N)
<1>1. N \in Nat /\ DOMAIN s = 1 .. N
  OBVIOUS
<1>2. 0 \in T
  <2>1. SUBSET (1 .. 0) = {{}}
    OBVIOUS
  <2>2. Eqn([V \in SUBSET (1 .. 0) |-> b], 0)
    BY <2>1
  <2>3. 0 \in 0 .. N /\ \E f : Eqn(f, 0)
    <3> HIDE DEF Eqn
    <3>1. QED
      BY <1>1, <2>2
  <2>4. QED
    BY <2>3
<1>3. ASSUME NEW m \in 0 .. (N - 1), m \in T PROVE m + 1 \in T
  <2>1. PICK f : Eqn(f, m)
    BY <1>3
  <2>2. m \in Nat /\ m + 1 \in 0 .. N /\ m + 1 \in Nat
    BY <1>1
  <2> DEFINE h == [V \in SUBSET (1 .. (m + 1)) |->
                     IF V = {} THEN b ELSE IF m + 1 \in V THEN UnstageAllStep(f[V \ {m + 1}], s[m + 1]) ELSE f[V]]
  <2>3. f[{}] = b /\ \A V \in SUBSET (1 .. m) : V # {} => f[V] = UnstageAllStep(f[V \ {Max(V)}], s[Max(V)])
    BY <2>1
  <2>4. ASSUME NEW V \in SUBSET (1 .. m) PROVE h[V] = f[V] /\ V \in SUBSET (1 .. (m + 1)) /\ m + 1 \notin V
    <3>1. V \in SUBSET (1 .. (m + 1)) /\ m + 1 \notin V
      BY <2>2
    <3>2. QED
      BY <2>3, <3>1
  <2> HIDE DEF Eqn
  <2>5. ASSUME NEW V \in SUBSET (1 .. (m + 1)), V # {}
        PROVE  h[V] = UnstageAllStep(h[V \ {Max(V)}], s[Max(V)])
    <3>1. CASE m + 1 \in V
      <4>1. Max(V) = m + 1
        <5>1. V \in SUBSET Int /\ \A x \in V : m + 1 >= x
          BY <2>2
        <5>2. QED
          BY <3>1, <5>1, MaxIs
      <4>2. V \ {m + 1} \in SUBSET (1 .. m)
        BY <2>2
      <4>3. h[V \ {m + 1}] = f[V \ {m + 1}]
        BY <2>4, <4>2
      <4>4. h[V] = UnstageAllStep(f[V \ {m + 1}], s[m + 1])
        BY <3>1
      <4>5. QED
        BY <4>1, <4>3, <4>4
    <3>2. CASE m + 1 \notin V
      <4>1. V \in SUBSET (1 .. m)
        BY <2>2, <3>2
      <4>2. V \ {Max(V)} \in SUBSET (1 .. m)
        BY <4>1
      <4>3. h[V] = f[V] /\ h[V \ {Max(V)}] = f[V \ {Max(V)}]
        BY <2>4, <4>1, <4>2
      <4>4. QED
        BY <2>3, <2>5, <4>1, <4>3
    <3>3. QED
      BY <3>1, <3>2
  <2>6. Eqn(h, m + 1)
    <3>1. h[{}] = b
      OBVIOUS
    <3>2. \A V \in SUBSET (1 .. (m + 1)) : h[V] = IF V = {} THEN b ELSE UnstageAllStep(h[V \ {Max(V)}], s[Max(V)])
      BY <2>5, <3>1
    <3>3. h = [V \in SUBSET (1 .. (m + 1)) |-> h[V]]
      OBVIOUS
    <3> HIDE DEF h
    <3>4. QED
      BY <3>2, <3>3 DEF Eqn
  <2>7. QED
    BY <2>2, <2>6
<1>4. \A m \in 0 .. N : m \in T
  <2> HIDE DEF T, N
  <2>1. QED
    BY <1>1, <1>2, <1>3, UpTo
<1>5. \E f : Eqn(f, N)
  <2>0. N \in 0 .. N
    BY <1>1
  <2>1. N \in T
    <3> HIDE DEF T, N
    <3>1. QED
      BY <1>4, <2>0
  <2>2. QED
    BY <2>1
<1>6. Eqn(it, N)
  <2> HIDE DEF Eqn
  <2>1. QED
    BY <1>5
<1>7. UnstageAll(b, s) = it[1 .. N]
  BY <1>1 DEF UnstageAll, FoldLeft, MapThenFoldSet, UnstageAllStep
<1> HIDE DEF it
<1> DEFINE g == [n \in 0 .. N |-> it[1 .. n]]
<1>8. g[0] = b
  <2>1. 1 .. 0 = {} /\ 0 \in 0 .. N
    BY <1>1
  <2>2. QED
    BY <1>6, <2>1
<1>9. ASSUME NEW n \in 1 .. N
      PROVE  g[n] = UnstageAllStep(g[n - 1], s[n])
  <2>1. /\ 1 .. n \in SUBSET (1 .. N) /\ 1 .. n # {}
        /\ Max(1 .. n) = n /\ (1 .. n) \ {n} = 1 .. (n - 1)
    BY <1>1, MaxOfInitial
  <2>2. it[1 .. n] = UnstageAllStep(it[(1 .. n) \ {Max(1 .. n)}], s[Max(1 .. n)])
    BY <1>6, <2>1
  <2>3. n \in 0 .. N /\ n - 1 \in 0 .. N
    BY <1>1
  <2>4. g[n] = it[1 .. n] /\ g[n - 1] = it[1 .. (n - 1)]
    BY <2>3
  <2>5. QED
    BY <2>1, <2>2, <2>4
<1>10. g[N] = it[1 .. N]
  BY <1>1
<1> HIDE DEF g
<1>11. QED
  BY <1>7, <1>8, <1>9, <1>10 DEF UnstageAllRun

\* The first set, staged.
LEMMA NewAllIs ==
    ASSUME NEW y, NEW a, NEW p, Good(y, a, p)
    PROVE  Stage(NewAll(Staging(zsetLength(y)), Backwards(y)), a, DOMAIN a)
<1> DEFINE ka == Reverse(Sorted(a))
           ea == Paired(a, ka)
           b0 == Staging(zsetLength(y))
           N == Len(ka)
           none == [x \in {} |-> 0]
<1>1. /\ ka \in Seq(DOMAIN a) /\ ToSet(ka) = DOMAIN a /\ IsInjective(ka) /\ N \in Nat
      /\ a \in [DOMAIN a -> Int] /\ DOMAIN a \subseteq Members
  <2>1. GoodMap(a) /\ MapFacts(a)
    BY GoodCases
  <2>2. Sorted(a) \in Seq(DOMAIN a) /\ ToSet(Sorted(a)) = DOMAIN a /\ IsInjective(Sorted(a))
    BY <2>1 DEF MapFacts
  <2>3. ka \in Seq(DOMAIN a) /\ ToSet(ka) = DOMAIN a /\ IsInjective(ka)
    BY <2>2, ReverseIs
  <2>4. QED
    BY <2>1, <2>3 DEF MapFacts
<1>2. Backwards(y) = ea
  BY BackwardsIs
<1> DEFINE R == [ele : Members, score : Int]
<1>3. /\ ea \in Seq(R) /\ Len(ea) = N
      /\ \A i \in 1 .. N : ea[i].ele = ka[i] /\ ea[i].score = a[ka[i]]
  <2> HIDE DEF ka
  <2>1. QED
    BY <1>1, PairedOver
<1>4. ka \in Seq(Members)
  <2> HIDE DEF ka
  <2>1. \A i \in 1 .. Len(ka) : ka[i] \in Members
    BY <1>1
  <2>2. QED
    BY <1>1, <2>1
<1>5. Stage(b0, none, {})
  <2>1. DOMAIN none = {} /\ none \in [DOMAIN none -> Int]
    OBVIOUS
  <2>2. zsetLength(y) \in Nat
    BY WalkOf
  <2> HIDE DEF none
  <2>3. QED
    BY <2>1, <2>2, StagingIs
<1> HIDE DEF ea, R, ka, b0
<1>6. PICK g : NewAllRun(g, b0, ea) /\ NewAll(b0, ea) = g[Len(ea)]
  BY <1>3, NewAllFold
<1>7. g[0] = b0 /\ \A n \in 1 .. N : g[n] = StageNew(g[n - 1], g[n - 1].dict, ea[n].ele, ea[n].score)
  BY <1>3, <1>6 DEF NewAllRun, NewAllStep
<1> DEFINE P(n) == Stage(g[n], Only(a, First(ka, n)), First(ka, n))
           T == {n \in 0 .. N : P(n)}
<1>8. 0 \in T
  <2>1. First(ka, 0) = {} /\ Only(a, First(ka, 0)) = none
    BY DEF First, Only
  <2>2. 0 \in 0 .. N
    BY <1>1
  <2> HIDE DEF none
  <2>3. P(0)
    BY <1>5, <1>7, <2>1
  <2>4. QED
    BY <2>2, <2>3
<1>9. ASSUME NEW n \in 0 .. (N - 1), n \in T PROVE n + 1 \in T
  <2> DEFINE j == n + 1
             x == ka[j]
             e == ea[j]
             S == Only(a, First(ka, n))
             W == Only(a, First(ka, j))
             d == g[n].dict
  <2>1. /\ j \in 1 .. N /\ j \in 0 .. N /\ j - 1 = n /\ x \in Members /\ x \in ToSet(ka)
        /\ W = With(S, x, a[x])
    BY <1>4, NextKey
  <2>2. e.ele = x /\ e.score = a[x]
    BY <1>3, <2>1
  <2>3. DOMAIN S = First(ka, n) /\ DOMAIN W = First(ka, j)
    BY DEF Only
  <2>4. Stage(g[n], S, DOMAIN S)
    BY <1>9, <2>3
  <2>5. g[j] = StageNew(g[n], d, x, a[x])
    BY <1>7, <2>1, <2>2
  <2> HIDE DEF S, W, x, e, j
  <2>6. GoodDict(d, DOMAIN S) /\ d.pauseAutoResize = 0
    BY <2>4 DEF Stage
  <2> HIDE DEF d
  <2>7. Stage(StageNew(g[n], d, x, a[x]), With(S, x, a[x]), DOMAIN With(S, x, a[x]))
    BY <2>1, <2>4, <2>6, StageNewIs
  <2>8. Stage(g[j], W, DOMAIN W)
    BY <2>1, <2>5, <2>7
  <2>9. P(j)
    BY <2>3, <2>8 DEF W
  <2>10. QED
    BY <2>1, <2>9 DEF j
<1>10. \A n \in 0 .. N : n \in T
  <2> HIDE DEF T, N
  <2>1. QED
    BY <1>1, <1>8, <1>9, UpTo
<1>11. P(N)
  <2>1. N \in 0 .. N
    BY <1>1
  <2>2. N \in T
    <3> HIDE DEF T, N
    <3>1. QED
      BY <1>10, <2>1
  <2>3. QED
    BY <2>2
<1>12. First(ka, N) = DOMAIN a
  BY <1>1, <1>4, FirstIs
<1>13. Only(a, DOMAIN a) = a
  BY <1>1, OnlyAll
<1>14. QED
  BY <1>2, <1>3, <1>6, <1>11, <1>12, <1>13 DEF b0

\* One member less.
LEMMA UnstageIs ==
    ASSUME NEW acc, NEW S, NEW K, Stage(acc, S, K), NEW e, e.ele \in Members
    PROVE  Stage(UnstageAllStep(acc, e), S, K \ {e.ele})
<1> DEFINE x == e.ele
           f == dictFindLink(acc.dict, x)
           d == dictGenericDelete(f.dict, x)
           r == UnstageAllStep(acc, e)
<1>1. /\ DOMAIN acc = {"dict", "score"} /\ acc.score = S /\ K \subseteq Members
      /\ GoodDict(acc.dict, K) /\ acc.dict.pauseAutoResize = 0
  BY DEF Stage
<1>2. x \in DOMAIN Hash
  BY SortedSetAssumption
<1>3. dictSize(acc.dict) = 0 <=> K = {}
  BY <1>1, DictFinite
<1>4. Found(f, acc.dict, K, x)
  BY <1>1, <1>2, DictFindIs
<1>5. r = IF dictSize(acc.dict) = 0 THEN acc
          ELSE IF f.found = NoLink THEN [acc EXCEPT !.dict = f.dict] ELSE [acc EXCEPT !.dict = d.dict]
  BY DEF UnstageAllStep, UnstageStep
<1>6. GoodDict(f.dict, K) /\ f.dict.pauseAutoResize = 0 /\ (f.found # NoLink <=> x \in K)
  <2> HIDE DEF f
  <2>1. QED
    BY <1>1, <1>4 DEF Found, Becomes
<1>7. Deleted(d, f.dict, K, x)
  <2> HIDE DEF f, x
  <2>1. QED
    BY <1>2, <1>6, DictDeleteIs
<1> HIDE DEF r, f, x, d
<1>8. GoodDict(d.dict, K \ {x}) /\ d.dict.pauseAutoResize = 0
  BY <1>6, <1>7 DEF Deleted, Becomes
<1>9. CASE K = {}
  <2>1. r = acc /\ K \ {x} = K
    BY <1>3, <1>5, <1>9
  <2>2. QED
    BY <2>1 DEF r, x
<1>10. CASE K # {} /\ x \notin K
  <2>1. r = [acc EXCEPT !.dict = f.dict] /\ K \ {x} = K
    BY <1>3, <1>5, <1>6, <1>10
  <2>2. DOMAIN r = {"dict", "score"} /\ r.score = S /\ r.dict = f.dict
    BY <1>1, <2>1
  <2>3. Stage(r, S, K \ {x})
    BY <1>1, <1>6, <2>1, <2>2 DEF Stage
  <2>4. QED
    BY <2>3 DEF r, x
<1>11. CASE K # {} /\ x \in K
  <2>1. r = [acc EXCEPT !.dict = d.dict]
    BY <1>3, <1>5, <1>6, <1>11
  <2>2. DOMAIN r = {"dict", "score"} /\ r.score = S /\ r.dict = d.dict
    BY <1>1, <2>1
  <2>3. Stage(r, S, K \ {x})
    BY <1>1, <1>8, <2>2 DEF Stage
  <2>4. QED
    BY <2>3 DEF r, x
<1>12. QED
  BY <1>9, <1>10, <1>11

\* The difference of two objects.
LEMMA DiffIs ==
    ASSUME NEW y, NEW a, NEW p, Good(y, a, p), NEW z, NEW b, NEW q, Good(z, b, q)
    PROVE  EntriesOf(DiffOf(y, z), Only(a, DOMAIN a \ DOMAIN b))
<1> DEFINE kb == Reverse(Sorted(b))
           eb == Paired(b, kb)
           b0 == NewAll(Staging(zsetLength(y)), Backwards(y))
           N == Len(kb)
<1>1. /\ kb \in Seq(DOMAIN b) /\ ToSet(kb) = DOMAIN b /\ N \in Nat
      /\ b \in [DOMAIN b -> Int] /\ DOMAIN b \subseteq Members
  <2>1. GoodMap(b) /\ MapFacts(b)
    BY GoodCases
  <2>2. Sorted(b) \in Seq(DOMAIN b) /\ ToSet(Sorted(b)) = DOMAIN b
    BY <2>1 DEF MapFacts
  <2>3. kb \in Seq(DOMAIN b) /\ ToSet(kb) = DOMAIN b
    BY <2>2, ReverseIs
  <2>4. QED
    BY <2>1, <2>3 DEF MapFacts
<1>2. a \in [DOMAIN a -> Int] /\ DOMAIN a \subseteq Members
  <2>1. MapFacts(a)
    BY GoodCases
  <2>2. QED
    BY <2>1 DEF MapFacts
<1>3. Backwards(z) = eb
  BY BackwardsIs
<1>4. Stage(b0, a, DOMAIN a)
  BY NewAllIs
<1>5. DiffOf(y, z) = Staged(UnstageAll(b0, eb))
  BY <1>3 DEF DiffOf, UnstageAll, NewAll
<1> DEFINE R == [ele : Members, score : Int]
<1>6. eb \in Seq(R) /\ Len(eb) = N /\ \A i \in 1 .. N : eb[i].ele = kb[i] /\ eb[i].score = b[kb[i]]
  <2> HIDE DEF kb
  <2>1. QED
    BY <1>1, PairedOver
<1>7. kb \in Seq(Members)
  <2> HIDE DEF kb
  <2>1. \A i \in 1 .. Len(kb) : kb[i] \in Members
    BY <1>1
  <2>2. QED
    BY <1>1, <2>1
<1> HIDE DEF eb, R, kb, b0
<1>8. PICK g : UnstageAllRun(g, b0, eb) /\ UnstageAll(b0, eb) = g[Len(eb)]
  BY <1>6, UnstageAllFold
<1>9. g[0] = b0 /\ \A n \in 1 .. N : g[n] = UnstageAllStep(g[n - 1], eb[n])
  BY <1>6, <1>8 DEF UnstageAllRun
<1> DEFINE P(n) == Stage(g[n], a, DOMAIN a \ First(kb, n))
           T == {n \in 0 .. N : P(n)}
<1>10. 0 \in T
  <2>1. First(kb, 0) = {}
    BY DEF First
  <2>2. 0 \in 0 .. N
    BY <1>1
  <2>3. DOMAIN a \ First(kb, 0) = DOMAIN a
    BY <2>1
  <2>4. P(0)
    BY <1>4, <1>9, <2>3
  <2>5. QED
    BY <2>2, <2>4
<1>11. ASSUME NEW n \in 0 .. (N - 1), n \in T PROVE n + 1 \in T
  <2> DEFINE j == n + 1
             x == kb[j]
             K == DOMAIN a \ First(kb, n)
             e == eb[j]
  <2>1. j \in 1 .. N /\ j \in 0 .. N /\ j - 1 = n /\ x \in Members
    BY <1>7, NextKey
  <2>2. First(kb, j) = First(kb, n) \cup {x}
    <3>1. \A k \in 1 .. Len(kb) : First(kb, k) = First(kb, k - 1) \cup {kb[k]}
      BY <1>7, FirstIs
    <3>2. QED
      BY <2>1, <3>1
  <2>3. e.ele = x /\ g[j] = UnstageAllStep(g[n], e)
    BY <1>6, <1>9, <2>1
  <2>4. Stage(g[n], a, K)
    BY <1>11
  <2>5. DOMAIN a \ First(kb, j) = K \ {x}
    BY <2>2
  <2> HIDE DEF j, x, K, e
  <2>6. Stage(UnstageAllStep(g[n], e), a, K \ {e.ele})
    BY <2>1, <2>3, <2>4, UnstageIs
  <2>7. P(j)
    BY <2>3, <2>5, <2>6
  <2>8. QED
    BY <2>1, <2>7 DEF j
<1>12. \A n \in 0 .. N : n \in T
  <2> HIDE DEF T, N
  <2>1. QED
    BY <1>1, <1>10, <1>11, UpTo
<1>13. P(N)
  <2>1. N \in 0 .. N
    BY <1>1
  <2>2. N \in T
    <3> HIDE DEF T, N
    <3>1. QED
      BY <1>12, <2>1
  <2>3. QED
    BY <2>2
<1> DEFINE K == DOMAIN a \ DOMAIN b
           M == Only(a, K)
<1>14. Stage(g[N], a, K)
  <2>1. First(kb, N) = DOMAIN b
    BY <1>1, <1>7, FirstIs
  <2>2. QED
    BY <1>13, <2>1
<1>15. PICK keys \in Seq(Members) : IsInjective(keys) /\ ToSet(keys) = K /\ Staged(g[N]) = Paired(a, keys)
  <2> HIDE DEF K
  <2>1. QED
    BY <1>14, StagedIs
<1>16. Paired(M, keys) = Paired(a, keys)
  <2>1. \A i \in 1 .. Len(keys) : keys[i] \in K
    <3> HIDE DEF K
    <3>1. \A i \in 1 .. Len(keys) : keys[i] \in ToSet(keys)
      BY <1>15 DEF ToSet
    <3>2. QED
      BY <1>15, <3>1
  <2> HIDE DEF K
  <2>2. keys \in Seq(K)
    BY <1>15, <2>1
  <2>3. QED
    BY <2>2, PairedOnly
<1>17. DOMAIN M = K /\ K \subseteq Members /\ \A x \in K : M[x] \in Int
  BY <1>2 DEF Only
<1>18. DiffOf(y, z) = Staged(g[N])
  BY <1>5, <1>6, <1>8
<1> HIDE DEF M
<1>19. EntriesOf(DiffOf(y, z), M)
  BY <1>15, <1>16, <1>17, <1>18 DEF EntriesOf
<1>20. QED
  BY <1>19 DEF M

\* The order of the sets does not matter to a union or an intersection.
LEMMA MapsCommute ==
    ASSUME NEW A, NEW B, \A x \in DOMAIN A : A[x] \in Int, \A x \in DOMAIN B : B[x] \in Int, NEW aggregate
    PROVE  UnionMap(A, B, aggregate) = UnionMap(B, A, aggregate) /\ InterMap(A, B, aggregate) = InterMap(B, A, aggregate)
<1>1. \A x \in DOMAIN A \cap DOMAIN B : zunionInterAggregate(A[x], B[x], aggregate) = zunionInterAggregate(B[x], A[x], aggregate)
  <2> TAKE x \in DOMAIN A \cap DOMAIN B
  <2>1. A[x] \in Int /\ B[x] \in Int
    OBVIOUS
  <2>2. QED
    BY <2>1, AggregateIs
<1>2. QED
  BY <1>1 DEF UnionMap, InterMap

\* Weighted scores.
LEMMA ValuedIs ==
    ASSUME NEW m, GoodMap(m), NEW aggregate
    PROVE  /\ DOMAIN Valued(m, aggregate) = DOMAIN m /\ \A x \in DOMAIN m : Valued(m, aggregate)[x] \in Int
           /\ \A x \in DOMAIN m : Valued(m, aggregate)[x] = IF aggregate = "count" THEN 1 ELSE m[x]
<1>1. m \in [DOMAIN m -> Int]
  BY MapIs DEF MapFacts
<1>2. QED
  BY <1>1 DEF Valued, zuiWeightedScore

\* What is promised of the three operations.
LEMMA MergedIs ==
    ASSUME NEW a, NEW b, NEW aggregate
    PROVE  /\ Merged("union", a, b, aggregate) = UnionMap(Valued(a, aggregate), Valued(b, aggregate), aggregate)
           /\ Merged("inter", a, b, aggregate) = InterMap(Valued(a, aggregate), Valued(b, aggregate), aggregate)
           /\ Merged("diff", a, b, aggregate) = Only(a, DOMAIN a \ DOMAIN b)
<1> DEFINE A == Valued(a, aggregate)
           B == Valued(b, aggregate)
<1>1. /\ DOMAIN A = DOMAIN a /\ DOMAIN B = DOMAIN b
      /\ \A x \in DOMAIN a : A[x] = IF aggregate = "count" THEN 1 ELSE a[x]
      /\ \A x \in DOMAIN b : B[x] = IF aggregate = "count" THEN 1 ELSE b[x]
  BY DEF Valued, zuiWeightedScore
<1> HIDE DEF A, B
<1>2. Merged("union", a, b, aggregate) = UnionMap(A, B, aggregate)
  BY <1>1 DEF Merged, UnionMap
<1>3. Merged("inter", a, b, aggregate) = InterMap(A, B, aggregate)
  BY <1>1 DEF Merged, InterMap
<1>4. Merged("diff", a, b, aggregate) = Only(a, DOMAIN a \ DOMAIN b)
  BY DEF Merged, Only
<1>5. QED
  BY <1>2, <1>3, <1>4 DEF A, B

\* The entries that a store command puts into its destination.
LEMMA SetOpIs ==
    ASSUME NEW y, NEW a, NEW p, Good(y, a, p), NEW z, NEW b, NEW q, Good(z, b, q),
           Numbers(a), Numbers(b), NEW op \in {"union", "inter", "diff"}, NEW aggregate
    PROVE  EntriesOf(SetOp(op, y, z, aggregate), Merged(op, a, b, aggregate))
<1> DEFINE A == Valued(a, aggregate)
           B == Valued(b, aggregate)
           U == UnionMap(A, B, aggregate)
           C == InterMap(A, B, aggregate)
<1>1. UnionMap(A, B, aggregate) = UnionMap(B, A, aggregate) /\ InterMap(A, B, aggregate) = InterMap(B, A, aggregate)
  <2>1. GoodMap(a) /\ GoodMap(b)
    BY DEF Good
  <2>2. (\A x \in DOMAIN A : A[x] \in Int) /\ \A x \in DOMAIN B : B[x] \in Int
    BY <2>1, ValuedIs
  <2> HIDE DEF A, B
  <2>3. QED
    BY <2>2, MapsCommute
<1>2. EntriesOf(UnionOf(<<y, z>>, aggregate), U) /\ EntriesOf(UnionOf(<<z, y>>, aggregate), U)
  <2>1. EntriesOf(UnionOf(<<y, z>>, aggregate), UnionMap(A, B, aggregate))
    BY UnionIs
  <2>2. EntriesOf(UnionOf(<<z, y>>, aggregate), UnionMap(B, A, aggregate))
    BY UnionIs
  <2> HIDE DEF A, B
  <2>3. QED
    BY <1>1, <2>1, <2>2
<1>3. EntriesOf(InterOf(<<y, z>>, aggregate), C) /\ EntriesOf(InterOf(<<z, y>>, aggregate), C)
  <2>1. EntriesOf(InterOf(<<y, z>>, aggregate), InterMap(A, B, aggregate))
    BY InterIs
  <2>2. EntriesOf(InterOf(<<z, y>>, aggregate), InterMap(B, A, aggregate))
    BY InterIs
  <2> HIDE DEF A, B
  <2>3. QED
    BY <1>1, <2>1, <2>2
<1>4. EntriesOf(DiffOf(y, z), Only(a, DOMAIN a \ DOMAIN b))
  BY DiffIs
<1>5. BySize(y, z) = <<y, z>> \/ BySize(y, z) = <<z, y>>
  BY DEF BySize
<1>6. /\ Merged("union", a, b, aggregate) = U /\ Merged("inter", a, b, aggregate) = C
      /\ Merged("diff", a, b, aggregate) = Only(a, DOMAIN a \ DOMAIN b)
  BY MergedIs
<1> HIDE DEF A, B, U, C
<1>7. CASE op = "union"
  <2>1. SetOp(op, y, z, aggregate) = UnionOf(BySize(y, z), aggregate)
    BY <1>7 DEF SetOp
  <2>2. QED
    BY <1>2, <1>5, <1>6, <1>7, <2>1
<1>8. CASE op = "inter"
  <2>1. SetOp(op, y, z, aggregate) = InterOf(BySize(y, z), aggregate)
    BY <1>8 DEF SetOp
  <2>2. QED
    BY <1>3, <1>5, <1>6, <1>8, <2>1
<1>9. CASE op = "diff"
  <2>1. SetOp(op, y, z, aggregate) = DiffOf(y, z)
    BY <1>9 DEF SetOp
  <2>2. QED
    BY <1>4, <1>6, <1>9, <2>1
<1>10. QED
  BY <1>7, <1>8, <1>9

\* The other operand is sound.
LEMMA OperandIs ==
    ASSUME NEW lp \in Operands
    PROVE  Good(Listpack(lp), Of(lp), 0) /\ Numbers(Of(lp))
<1> DEFINE N == Len(lp)
           I == (-INF) .. INF
           ord == [i \in 1 .. N |-> lp[i].ele]
           D == {lp[i].ele : i \in 1 .. N}
           m == [x \in D |-> lp[CHOOSE i \in 1 .. N : lp[i].ele = x].score]
<1>1. /\ lp \in Seq([ele : Members, score : I]) /\ N \in Nat /\ DOMAIN lp = 1 .. N
      /\ \A i \in 1 .. N : lp[i] = [ele |-> lp[i].ele, score |-> lp[i].score] /\ lp[i].ele \in Members /\ lp[i].score \in I
  <2>1. lp \in Seq([ele : Members, score : I])
    BY SortedSetAssumption
  <2> HIDE DEF I
  <2> DEFINE R == [ele : Members, score : I]
  <2>2. N \in Nat /\ DOMAIN lp = 1 .. N /\ \A i \in 1 .. N : lp[i] \in R
    <3>1. lp \in Seq(R)
      BY <2>1
    <3> HIDE DEF R
    <3>2. QED
      BY <3>1
  <2>3. \A e \in [ele : Members, score : I] : e = [ele |-> e.ele, score |-> e.score] /\ e.ele \in Members /\ e.score \in I
    OBVIOUS
  <2>4. QED
    BY <2>1, <2>2, <2>3
<1>2. \A i, j \in 1 .. N : i < j => /\ lp[i].ele # lp[j].ele
                                    /\ \/ lp[i].score < lp[j].score
                                       \/ lp[i].score = lp[j].score /\ lp[i].ele < lp[j].ele
  <2>1. \A i, j \in DOMAIN lp : i < j => /\ lp[i].ele # lp[j].ele
                                    /\ \/ lp[i].score < lp[j].score
                                       \/ lp[i].score = lp[j].score /\ lp[i].ele < lp[j].ele
    BY SortedSetAssumption
  <2>2. QED
    BY <1>1, <2>1
<1>3. \A i \in 1 .. N : lp[i].ele \in D /\ m[lp[i].ele] = lp[i].score
  <2> SUFFICES ASSUME NEW i \in 1 .. N PROVE lp[i].ele \in D /\ m[lp[i].ele] = lp[i].score
    OBVIOUS
  <2> DEFINE k == CHOOSE k \in 1 .. N : lp[k].ele = lp[i].ele
  <2>1. k \in 1 .. N /\ lp[k].ele = lp[i].ele
    OBVIOUS
  <2>2. lp[i].ele \in D /\ m[lp[i].ele] = lp[k].score
    OBVIOUS
  <2> HIDE DEF k
  <2>3. k = i
    BY <1>1, <1>2, <2>1
  <2>4. QED
    BY <2>2, <2>3
<1>4. DOMAIN m = D /\ D \subseteq Members /\ \A x \in D : m[x] \in I
  <2>1. DOMAIN m = D /\ D \subseteq Members
    BY <1>1
  <2>2. \A x \in D : \E i \in 1 .. N : x = lp[i].ele
    OBVIOUS
  <2> HIDE DEF m, I
  <2>3. QED
    BY <1>1, <1>3, <2>1, <2>2
<1>5. /\ ord \in Seq(D) /\ Len(ord) = N /\ DOMAIN ord = 1 .. N /\ (\A i \in 1 .. N : ord[i] = lp[i].ele) 
      /\ ToSet(ord) = D
  <2>1. ord \in [1 .. N -> D]
    OBVIOUS
  <2>2. ord \in Seq(D) /\ Len(ord) = N /\ DOMAIN ord = 1 .. N
    BY <1>1, <2>1
  <2>3. QED
    BY <2>2 DEF ToSet
<1>6. lp = [i \in DOMAIN lp |-> lp[i]] /\ m \in [D -> Int] /\ D \subseteq Nat \ {0} /\ D \subseteq Members
  <2>0. I \subseteq Int /\ m = [x \in D |-> m[x]]
    BY SortedSetAssumption
  <2>1. m = [x \in D |-> m[x]] /\ \A x \in D : m[x] \in Int
    <3> HIDE DEF m, I, D
    <3>1. QED
      BY <1>4, <2>0
  <2>2. Members \subseteq Nat \ {0}
    BY SortedSetAssumption DEF HEAD
  <2> HIDE DEF m, D
  <2>3. m \in [D -> Int]
    BY <2>1
  <2>4. D \subseteq Nat \ {0}
    BY <1>4, <2>2
  <2>5. QED
    BY <1>1, <1>4, <2>3, <2>4
<1> HIDE DEF m, ord, D
<1>7. lp = Paired(m, ord)
  <2>1. \A i \in 1 .. Len(ord) : lp[i] = [ele |-> ord[i], score |-> m[ord[i]]]
    BY <1>1, <1>3, <1>5
  <2>2. QED
    BY <1>1, <1>5, <1>6, <2>1, PairedSame
<1>8. OrderOf(ord, m)
  <2>1. \A i, j \in 1 .. N : i < j => Precedes(m, ord[i], ord[j])
    BY <1>2, <1>3, <1>5 DEF Precedes
  <2>2. QED
    BY <1>4, <1>5, <1>6, <2>1 DEF OrderOf
<1>9. GoodMap(m) /\ Sorted(m) = ord
  BY <1>4, <1>6, <1>8, MapFrom
<1>10. Good(Listpack(lp), m, 0)
  BY <1>7, <1>9, GoodListpack
<1>11. Of(lp) = m
  <2>1. Of(Paired(m, ord)) = Only(m, ToSet(ord))
    BY <1>5, OfIs
  <2>2. Only(m, DOMAIN m) = m
    BY <1>4, <1>6, OnlyAll
  <2>3. QED
    BY <1>4, <1>5, <1>7, <2>1, <2>2
<1>12. \A x \in D : m[x] # NaN
  <2>1. \A s \in I : s # NaN
    BY SortedSetAssumption DEF NaN
  <2> HIDE DEF I
  <2>2. QED
    BY <1>4, <2>1
<1>13. QED
  BY <1>4, <1>10, <1>11, <1>12 DEF Numbers

-----------------------------------------------------------------------------
(* Parts of lists. *)

\* A part without elements.
LEMMA EmptySub ==
    ASSUME NEW D, NEW s \in Seq(D), NEW a \in Int, NEW b \in Int, a >= 1, b <= Len(s), a > b
    PROVE  SubSeq(s, a, b) = <<>>
<1> DEFINE t == SubSeq(s, a, b)
           e == <<>>
<1>1. t \in Seq(D) /\ Len(t) = 0
  BY SubSeqIs
<1>2. e \in Seq(D) /\ Len(e) = 0
  OBVIOUS
<1> HIDE DEF t, e
<1>3. t = e
  BY <1>1, <1>2, SameElements
<1>4. QED
  BY <1>3 DEF t, e

\* A part of a part.
LEMMA SubSub ==
    ASSUME NEW D, NEW s \in Seq(D), NEW a \in Int, NEW b \in Int, a >= 1, b <= Len(s),
           NEW c \in Int, NEW d \in Int, c >= 1, c <= d + 1, (a + d) - 1 <= b
    PROVE  SubSeq(SubSeq(s, a, b), c, d) = SubSeq(s, (a + c) - 1, (a + d) - 1)
<1> DEFINE t == SubSeq(s, a, b)
           u == SubSeq(t, c, d)
           e == (a + c) - 1
           f == (a + d) - 1
           v == SubSeq(s, e, f)
<1>0. Len(s) \in Nat
  OBVIOUS
<1>1. /\ t \in Seq(D) /\ Len(t) = (IF a <= b THEN (b - a) + 1 ELSE 0)
      /\ \A i \in 1 .. ((b - a) + 1) : t[i] = s[(a + i) - 1]
  BY SubSeqIs
<1> HIDE DEF t
<1>2. d <= Len(t)
  BY <1>0, <1>1
<1>3. /\ u \in Seq(D) /\ Len(u) = (IF c <= d THEN (d - c) + 1 ELSE 0)
      /\ \A i \in 1 .. ((d - c) + 1) : u[i] = t[(c + i) - 1]
  BY <1>1, <1>2, SubSeqIs
<1>4. e \in Int /\ f \in Int /\ e >= 1 /\ f <= Len(s)
  BY <1>0
<1>5. /\ v \in Seq(D) /\ Len(v) = (IF e <= f THEN (f - e) + 1 ELSE 0)
      /\ \A i \in 1 .. ((f - e) + 1) : v[i] = s[(e + i) - 1]
  <2> HIDE DEF e, f
  <2>1. QED
    BY <1>4, SubSeqIs
<1> HIDE DEF u, v
<1>6. Len(u) = Len(v)
  BY <1>3, <1>5
<1>7. ASSUME NEW i \in 1 .. Len(u) PROVE u[i] = v[i]
  <2>1. /\ i \in 1 .. ((d - c) + 1) /\ i \in 1 .. ((f - e) + 1) /\ (c + i) - 1 \in 1 .. ((b - a) + 1)
        /\ (a + ((c + i) - 1)) - 1 = (e + i) - 1
    BY <1>0, <1>3
  <2>2. u[i] = t[(c + i) - 1] /\ v[i] = s[(e + i) - 1]
    BY <1>3, <1>5, <2>1
  <2>3. t[(c + i) - 1] = s[(a + ((c + i) - 1)) - 1]
    BY <1>1, <2>1
  <2>4. QED
    BY <2>1, <2>2, <2>3
<1>8. u = v
  BY <1>3, <1>5, <1>6, <1>7, SameElements
<1>9. QED
  BY <1>8 DEF t, u, v

\* A part backwards.
LEMMA ReverseSub ==
    ASSUME NEW D, NEW s \in Seq(D), NEW a \in Int, NEW b \in Int, a >= 1, b <= Len(s)
    PROVE  Reverse(SubSeq(s, a, b)) = SubSeq(Reverse(s), (Len(s) - b) + 1, (Len(s) - a) + 1)
<1> DEFINE n == Len(s)
           t == SubSeq(s, a, b)
           u == Reverse(t)
           w == Reverse(s)
           e == (n - b) + 1
           f == (n - a) + 1
           v == SubSeq(w, e, f)
<1>0. n \in Nat
  OBVIOUS
<1>1. /\ t \in Seq(D) /\ Len(t) = (IF a <= b THEN (b - a) + 1 ELSE 0)
      /\ \A i \in 1 .. ((b - a) + 1) : t[i] = s[(a + i) - 1]
  BY SubSeqIs
<1>2. w \in Seq(D) /\ Len(w) = n /\ \A i \in 1 .. n : w[i] = s[(n - i) + 1]
  BY ReverseIs
<1> HIDE DEF t, w
<1>3. u \in Seq(D) /\ Len(u) = Len(t) /\ \A i \in 1 .. Len(t) : u[i] = t[(Len(t) - i) + 1]
  BY <1>1, ReverseIs
<1>4. e \in Int /\ f \in Int /\ e >= 1 /\ f <= Len(w)
  BY <1>0, <1>2
<1>5. /\ v \in Seq(D) /\ Len(v) = (IF e <= f THEN (f - e) + 1 ELSE 0)
      /\ \A i \in 1 .. ((f - e) + 1) : v[i] = w[(e + i) - 1]
  <2> HIDE DEF e, f
  <2>1. QED
    BY <1>2, <1>4, SubSeqIs
<1> HIDE DEF u, v
<1>6. Len(u) = Len(v)
  BY <1>0, <1>1, <1>3, <1>5
<1>7. ASSUME NEW i \in 1 .. Len(u) PROVE u[i] = v[i]
  <2>1. /\ i \in Int /\ i >= 1 /\ a <= b /\ Len(t) = (b - a) + 1 /\ i <= (b - a) + 1
    BY <1>0, <1>1, <1>3
  <2> DEFINE k == (Len(t) - i) + 1
             l == (e + i) - 1
  <2>2. /\ i \in 1 .. Len(t) /\ i \in 1 .. ((f - e) + 1) /\ k \in 1 .. ((b - a) + 1) /\ l \in 1 .. n
        /\ (a + k) - 1 = (n - l) + 1
    BY <1>0, <2>1
  <2>3. u[i] = t[k] /\ v[i] = w[l]
    BY <1>3, <1>5, <2>2
  <2>4. t[k] = s[(a + k) - 1] /\ w[l] = s[(n - l) + 1]
    <3> HIDE DEF k, l
    <3>1. QED
      BY <1>1, <1>2, <2>2
  <2>5. QED
    BY <2>2, <2>3, <2>4
<1>8. u = v
  BY <1>3, <1>5, <1>6, <1>7, SameElements
<1>9. QED
  BY <1>8 DEF t, u, v, w

\* Without the first n elements.
LEMMA SkipIs ==
    ASSUME NEW D, NEW s \in Seq(D), NEW n \in Nat
    PROVE  Skip(s, n) = SubSeq(s, IF n <= Len(s) THEN n + 1 ELSE Len(s) + 1, Len(s))
<1>1. Len(s) \in Nat
  OBVIOUS
<1> DEFINE q == IF n <= Len(s) THEN n + 1 ELSE Len(s) + 1
<1>2. CASE n < Len(s)
  <2>1. Skip(s, n) = SubSeq(s, n + 1, Len(s))
    BY <1>1, <1>2 DEF Skip
  <2>2. q = n + 1
    BY <1>1, <1>2
  <2> HIDE DEF q
  <2>3. Skip(s, n) = SubSeq(s, q, Len(s))
    BY <2>1, <2>2
  <2>4. QED
    BY <2>3 DEF q
<1>3. CASE n >= Len(s)
  <2> DEFINE a == Len(s) + 1
  <2>1. Skip(s, n) = <<>>
    BY <1>1, <1>3 DEF Skip
  <2>2. q = a /\ a \in Int /\ a >= 1 /\ a > Len(s)
    BY <1>1, <1>3
  <2> HIDE DEF a
  <2>3. SubSeq(s, a, Len(s)) = <<>>
    BY <1>1, <2>2, EmptySub
  <2> HIDE DEF q
  <2>4. Skip(s, n) = SubSeq(s, q, Len(s))
    BY <2>1, <2>2, <2>3
  <2>5. QED
    BY <2>4 DEF q
<1>4. n < Len(s) \/ n >= Len(s)
  BY <1>1
<1> HIDE DEF q
<1>5. QED
  BY <1>2, <1>3, <1>4

\* The same of entries.
LEMMA SkipPaired ==
    ASSUME NEW m, NEW D, NEW s \in Seq(D), NEW n \in Nat
    PROVE  Skip(Paired(m, s), n) = Paired(m, Skip(s, n)) /\ Skip(s, n) \in Seq(D)
<1> DEFINE a == IF n <= Len(s) THEN n + 1 ELSE Len(s) + 1
           P == Paired(m, s)
           R == [ele : ToSet(s), score : {m[x] : x \in ToSet(s)}]
<1>1. a \in Int /\ a >= 1 /\ Len(s) \in Nat
  OBVIOUS
<1>2. P \in Seq(R) /\ Len(P) = Len(s)
  BY PairedIs DEF PairedFacts
<1>3. Skip(s, n) = SubSeq(s, a, Len(s))
  BY SkipIs
<1>4. Skip(P, n) = SubSeq(P, a, Len(s))
  <2> HIDE DEF P, R
  <2>1. Skip(P, n) = SubSeq(P, IF n <= Len(P) THEN n + 1 ELSE Len(P) + 1, Len(P))
    BY <1>2, SkipIs
  <2>2. QED
    BY <1>2, <2>1
<1> HIDE DEF a
<1>5. SubSeq(P, a, Len(s)) = Paired(m, SubSeq(s, a, Len(s)))
  <2> DEFINE b == Len(s)
  <2>1. b \in Int /\ b <= Len(s) /\ a \in Int /\ a >= 1
    BY <1>1
  <2> HIDE DEF b, R
  <2>2. PartOf(m, s, a, b)
    BY <2>1, PairedSub
  <2>3. QED
    BY <2>2 DEF b, PartOf
<1>6. SubSeq(s, a, Len(s)) \in Seq(D)
  BY <1>1, SubSeqIs
<1>7. QED
  BY <1>3, <1>4, <1>5, <1>6

\* The first n entries.
LEMMA TakePaired ==
    ASSUME NEW m, NEW D, NEW s \in Seq(D), NEW n \in Nat
    PROVE  Take(Paired(m, s), n) = Paired(m, Take(s, n)) /\ Take(s, n) \in Seq(D)
<1> DEFINE b == IF n <= Len(s) THEN n ELSE Len(s)
           P == Paired(m, s)
           R == [ele : ToSet(s), score : {m[x] : x \in ToSet(s)}]
           one == 1
<1>1. b \in Int /\ b <= Len(s) /\ one \in Int /\ one >= 1
  OBVIOUS
<1>2. P \in Seq(R) /\ Len(P) = Len(s)
  BY PairedIs DEF PairedFacts
<1>3. Take(s, n) = SubSeq(s, one, b) /\ Take(s, n) \in Seq(D)
  BY TakeIs
<1>4. Take(P, n) = SubSeq(P, one, b)
  <2> HIDE DEF P, R
  <2>1. Take(P, n) = SubSeq(P, one, IF n <= Len(P) THEN n ELSE Len(P))
    BY <1>2, TakeIs
  <2>2. QED
    BY <1>2, <2>1
<1> HIDE DEF b, one
<1>5. SubSeq(P, one, b) = Paired(m, SubSeq(s, one, b))
  <2> HIDE DEF R
  <2>1. PartOf(m, s, one, b)
    BY <1>1, PairedSub
  <2>2. QED
    BY <2>1 DEF PartOf
<1>6. QED
  BY <1>3, <1>4, <1>5

-----------------------------------------------------------------------------
(* Ranges of a map. *)

\* What a range compares.
BoundIn(m, r, x) == IF r.lex THEN x ELSE m[x]

\* lo members are below the range, and the first hi are not above it.
MapCut(m, r, lo, hi) ==
    /\ lo \in 0 .. Len(Sorted(m)) /\ hi \in 0 .. Len(Sorted(m))
    /\ \A b \in 1 .. Len(Sorted(m)) : /\ GteMin(BoundIn(m, r, Sorted(m)[b]), r) <=> b > lo
                                      /\ LteMax(BoundIn(m, r, Sorted(m)[b]), r) <=> b <= hi
    /\ EmptyRange(r) => lo >= hi
    /\ ~EmptyRange(r) => lo <= hi

\* Range arguments.
RangeRec == [lex : BOOLEAN, min : Int, max : Int, minex : BOOLEAN, maxex : BOOLEAN]

\* A range that is meant cuts the order in two places.
LEMMA CutExists ==
    ASSUME NEW m, GoodMap(m), NEW r \in RangeRec, Meant(m, r)
    PROVE  \E lo, hi : MapCut(m, r, lo, hi)
<1> DEFINE ord == Sorted(m)
           n == Len(ord)
           V(b) == BoundIn(m, r, ord[b])
           J == {b \in 1 .. n : ~GteMin(V(b), r)}
           K == {b \in 1 .. n : LteMax(V(b), r)}
<1>1. MapFacts(m) /\ OrderOf(ord, m)
  BY MapIs DEF GoodMap
<1>2. n \in Nat /\ \A b \in 1 .. n : ord[b] \in DOMAIN m /\ ord[b] \in Int /\ m[ord[b]] \in Int
  <2>1. ord \in Seq(DOMAIN m) /\ n \in Nat /\ m \in [DOMAIN m -> Int] /\ DOMAIN m \subseteq Nat \ {0}
    BY <1>1 DEF MapFacts
  <2> HIDE DEF ord
  <2>2. \A b \in 1 .. n : ord[b] \in DOMAIN m
    BY <2>1
  <2>3. QED
    BY <2>1, <2>2
<1>3. \A i, j \in 1 .. n : i < j => Precedes(m, ord[i], ord[j])
  BY <1>1 DEF OrderOf
<1>4. r.min \in Int /\ r.max \in Int /\ r.minex \in BOOLEAN /\ r.maxex \in BOOLEAN /\ r.lex \in BOOLEAN
  BY DEF RangeRec
<1>5. \A b \in 1 .. n : V(b) \in Int
  BY <1>2 DEF BoundIn
<1>6. \A i, j \in 1 .. n : i <= j => V(i) <= V(j)
  <2> SUFFICES ASSUME NEW i \in 1 .. n, NEW j \in 1 .. n, i <= j PROVE V(i) <= V(j)
    OBVIOUS
  <2>1. CASE i = j
    BY <1>5, <2>1
  <2>2. CASE i < j
    <3>1. Precedes(m, ord[i], ord[j])
      BY <1>3, <2>2
    <3>2. r.lex => m[ord[i]] = m[ord[j]]
      BY <1>2 DEF Meant
    <3> HIDE DEF ord
    <3>3. QED
      BY <1>2, <3>1, <3>2 DEF Precedes, BoundIn
  <2>3. QED
    BY <1>2, <2>1, <2>2
<1> HIDE DEF ord
<1>7. PICK lo \in 0 .. n : J = 1 .. lo
  <2>1. J \in SUBSET (1 .. n)
    OBVIOUS
  <2>2. \A j \in J : \A i \in 1 .. j : i \in J
    <3> SUFFICES ASSUME NEW j \in J, NEW i \in 1 .. j PROVE i \in J
      OBVIOUS
    <3>1. i \in 1 .. n /\ j \in 1 .. n /\ i <= j /\ ~GteMin(V(j), r)
      BY <1>2
    <3>2. V(i) <= V(j) /\ V(i) \in Int /\ V(j) \in Int
      BY <1>5, <1>6, <3>1
    <3> HIDE DEF V
    <3>3. ~GteMin(V(i), r)
      BY <1>4, <3>1, <3>2 DEF GteMin
    <3>4. QED
      BY <3>1, <3>3
  <2> HIDE DEF J
  <2>3. QED
    BY <1>2, <2>1, <2>2, DownClosed
<1>8. PICK hi \in 0 .. n : K = 1 .. hi
  <2>1. K \in SUBSET (1 .. n)
    OBVIOUS
  <2>2. \A j \in K : \A i \in 1 .. j : i \in K
    <3> SUFFICES ASSUME NEW j \in K, NEW i \in 1 .. j PROVE i \in K
      OBVIOUS
    <3>1. i \in 1 .. n /\ j \in 1 .. n /\ i <= j /\ LteMax(V(j), r)
      BY <1>2
    <3>2. V(i) <= V(j) /\ V(i) \in Int /\ V(j) \in Int
      BY <1>5, <1>6, <3>1
    <3> HIDE DEF V
    <3>3. LteMax(V(i), r)
      BY <1>4, <3>1, <3>2 DEF LteMax
    <3>4. QED
      BY <3>1, <3>3
  <2> HIDE DEF K
  <2>3. QED
    BY <1>2, <2>1, <2>2, DownClosed
<1>9. \A b \in 1 .. n : (GteMin(V(b), r) <=> b > lo) /\ (LteMax(V(b), r) <=> b <= hi)
  <2> TAKE b \in 1 .. n
  <2>1. (b \in J <=> ~GteMin(V(b), r)) /\ (b \in K <=> LteMax(V(b), r))
    OBVIOUS
  <2>2. (b \in 1 .. lo <=> b <= lo) /\ (b \in 1 .. hi <=> b <= hi)
    BY <1>2
  <2> HIDE DEF J, K, V
  <2>3. QED
    BY <1>2, <1>7, <1>8, <2>1, <2>2
<1> HIDE DEF J, K, V
<1>10. EmptyRange(r) => lo >= hi
  <2> SUFFICES ASSUME lo < hi PROVE ~EmptyRange(r)
    BY <1>2
  <2>1. hi \in 1 .. n
    BY <1>2
  <2>2. GteMin(V(hi), r) /\ LteMax(V(hi), r) /\ V(hi) \in Int
    BY <1>2, <1>5, <1>9, <2>1
  <2>3. QED
    BY <1>4, <2>2 DEF GteMin, LteMax, EmptyRange
<1>11. ~EmptyRange(r) => lo <= hi
  <2> SUFFICES ASSUME hi < lo PROVE EmptyRange(r)
    BY <1>2
  <2>1. lo \in 1 .. n
    BY <1>2
  <2>2. ~GteMin(V(lo), r) /\ ~LteMax(V(lo), r) /\ V(lo) \in Int
    BY <1>2, <1>5, <1>9, <2>1
  <2>3. QED
    BY <1>4, <2>2 DEF GteMin, LteMax, EmptyRange
<1>12. MapCut(m, r, lo, hi)
  BY <1>7, <1>8, <1>9, <1>10, <1>11 DEF MapCut, ord, V
<1>13. QED
  BY <1>12

\* The members of the range are the ones between.
LEMMA CutListed ==
    ASSUME NEW m, GoodMap(m), NEW r, NEW lo, NEW hi, MapCut(m, r, lo, hi)
    PROVE  /\ ListedIn(m, r, FALSE) = SubSeq(Sorted(m), lo + 1, hi)
           /\ ListedIn(m, r, TRUE) = Reverse(SubSeq(Sorted(m), lo + 1, hi))
<1> DEFINE ord == Sorted(m)
           n == Len(ord)
           a == lo + 1
           K == {x \in DOMAIN m : InRange(m, r, x)}
<1>1. MapFacts(m)
  BY MapIs
<1>2. n \in Nat /\ ord \in Seq(DOMAIN m) /\ ToSet(ord) = DOMAIN m
  BY <1>1 DEF MapFacts
<1>3. lo \in 0 .. n /\ hi \in 0 .. n /\ a \in Int /\ a >= 1 /\ hi \in Int /\ hi <= n
  BY <1>2 DEF MapCut
<1>4. \A b \in 1 .. n : InRange(m, r, ord[b]) <=> b \in a .. hi
  <2> TAKE b \in 1 .. n
  <2>1. (GteMin(BoundIn(m, r, ord[b]), r) <=> b > lo) /\ (LteMax(BoundIn(m, r, ord[b]), r) <=> b <= hi)
    BY DEF MapCut
  <2>2. InRange(m, r, ord[b]) <=> GteMin(BoundIn(m, r, ord[b]), r) /\ LteMax(BoundIn(m, r, ord[b]), r)
    BY DEF InRange, BoundIn
  <2> HIDE DEF ord
  <2>3. QED
    BY <1>2, <1>3, <2>1, <2>2
<1> HIDE DEF ord
<1>5. K = Between(ord, a, hi)
  <2>1. \A x \in K : x \in Between(ord, a, hi)
    <3> SUFFICES ASSUME NEW x \in K PROVE x \in Between(ord, a, hi)
      OBVIOUS
    <3>1. PICK b \in 1 .. n : x = ord[b]
      BY <1>2 DEF ToSet
    <3>2. b \in a .. hi
      BY <1>4, <3>1
    <3>3. QED
      BY <3>1, <3>2 DEF Between
  <2>2. \A x \in Between(ord, a, hi) : x \in K
    <3> SUFFICES ASSUME NEW x \in Between(ord, a, hi) PROVE x \in K
      OBVIOUS
    <3>1. PICK b \in a .. hi : x = ord[b]
      BY DEF Between
    <3>2. b \in 1 .. n
      BY <1>2, <1>3
    <3>3. x \in DOMAIN m
      BY <1>2, <3>1, <3>2
    <3>4. QED
      BY <1>4, <3>1, <3>2, <3>3
  <2> HIDE DEF K
  <2>3. QED
    BY <2>1, <2>2
<1>6. Sorted(Only(m, Between(ord, a, hi))) = SubSeq(ord, a, hi)
  <2> HIDE DEF a
  <2>1. QED
    BY <1>3, SubOrder DEF ord
<1>7. ListedIn(m, r, FALSE) = Sorted(Only(m, K)) /\ ListedIn(m, r, TRUE) = Reverse(Sorted(Only(m, K)))
  BY DEF ListedIn, Listed
<1>8. QED
  BY <1>5, <1>6, <1>7 DEF ord

-----------------------------------------------------------------------------
(* Where a range starts and ends. *)

\* The first and the last of some places, 0 for none.
FirstIn(I) == IF I # {} THEN Min(I) ELSE 0
LastIn(I) == IF I # {} THEN Max(I) ELSE 0

\* They are what they are called.
LEMMA EndsOf ==
    ASSUME NEW n \in Nat, NEW I, I \subseteq 1 .. n
    PROVE  /\ FirstIn(I) \in 0 .. n /\ LastIn(I) \in 0 .. n
           /\ I = {} => FirstIn(I) = 0 /\ LastIn(I) = 0
           /\ I # {} => /\ FirstIn(I) \in I /\ \A x \in I : FirstIn(I) <= x
                        /\ LastIn(I) \in I /\ \A x \in I : x <= LastIn(I)
<1>1. CASE I = {}
  BY <1>1 DEF FirstIn, LastIn
<1>2. CASE I # {}
  <2>1. I \in SUBSET (0 .. n) /\ I \in SUBSET Int
    OBVIOUS
  <2>2. PICK a \in I : \A x \in I : a <= x
    BY <1>2, <2>1, LeastOf
  <2>3. Min(I) = a
    BY <2>1, <2>2, MinIs
  <2>4. Max(I) \in I /\ \A x \in I : Max(I) >= x
    BY <1>2, <2>1, MaxExists
  <2>5. FirstIn(I) = a /\ LastIn(I) = Max(I)
    BY <1>2, <2>3 DEF FirstIn, LastIn
  <2> DEFINE b == Max(I)
  <2>6. b \in I /\ \A x \in I : b >= x
    BY <2>4
  <2> HIDE DEF b
  <2>7. LastIn(I) = b
    BY <2>5 DEF b
  <2>8. \A x \in I : x \in 0 .. n /\ x \in Int
    BY <2>1
  <2>9. a \in 0 .. n /\ b \in 0 .. n /\ \A x \in I : x <= b
    BY <2>2, <2>6, <2>8
  <2>10. QED
    BY <1>2, <2>2, <2>5, <2>6, <2>7, <2>9
<1>3. QED
  BY <1>1, <1>2

\* The entries of a listpack that are not below a range, and not above it.
AboveMin(s, r) == {i \in 1 .. Len(s) : GteMin(LpBound(s[i], r), r)}
BelowMax(s, r) == {i \in 1 .. Len(s) : LteMax(LpBound(s[i], r), r)}

\* zzlFirstInRange and zzlLastInRange, with their parts named.
LEMMA LpEnds ==
    ASSUME NEW s, NEW r
    PROVE  /\ zzlFirstInRange(s, r) = IF ~zzlIsInRange(s, r) \/ FirstIn(AboveMin(s, r)) = 0 THEN 0
                                      ELSE IF LpInRange(s[FirstIn(AboveMin(s, r))], r)
                                           THEN FirstIn(AboveMin(s, r)) ELSE 0
           /\ zzlLastInRange(s, r) = IF ~zzlIsInRange(s, r) \/ LastIn(BelowMax(s, r)) = 0 THEN 0
                                     ELSE IF LpInRange(s[LastIn(BelowMax(s, r))], r)
                                          THEN LastIn(BelowMax(s, r)) ELSE 0
<1>1. SelectInSeq(s, LAMBDA e : GteMin(LpBound(e, r), r)) = FirstIn(AboveMin(s, r))
  BY DEF SelectInSeq, FirstIn, AboveMin
<1>2. SelectLastInSeq(s, LAMBDA e : LteMax(LpBound(e, r), r)) = LastIn(BelowMax(s, r))
  BY DEF SelectLastInSeq, LastIn, BelowMax
<1>3. QED
  BY <1>1, <1>2 DEF zzlFirstInRange, zzlLastInRange

\* The place of the first and of the last member of a range.
FirstPlace(lo, hi) == IF lo < hi THEN lo + 1 ELSE 0
LastPlace(lo, hi) == IF lo < hi THEN hi ELSE 0

\* What a listpack's entries are compared by.
LEMMA LpCut ==
    ASSUME NEW m, GoodMap(m), NEW r, NEW s, s = Paired(m, Sorted(m)), NEW n, n = Len(Sorted(m))
    PROVE  /\ n \in Nat /\ Len(s) = n /\ (n > 0 => s # <<>>)
           /\ AboveMin(s, r) \subseteq 1 .. n /\ BelowMax(s, r) \subseteq 1 .. n
           /\ \A lo, hi : MapCut(m, r, lo, hi) =>
                 /\ lo \in 0 .. n /\ hi \in 0 .. n /\ (EmptyRange(r) => lo >= hi)
                 /\ \A i \in 1 .. n : /\ (GteMin(LpBound(s[i], r), r) <=> i > lo)
                                      /\ (LteMax(LpBound(s[i], r), r) <=> i <= hi)
<1> DEFINE ord == Sorted(m)
<1>1. MapFacts(m)
  BY MapIs
<1>2. n \in Nat /\ ord \in Seq(DOMAIN m)
  BY <1>1 DEF MapFacts
<1>3. PairedFacts(m, ord)
  BY <1>2, PairedIs
<1>4. Len(s) = n /\ \A i \in 1 .. n : s[i].ele = ord[i] /\ s[i].score = m[ord[i]]
  BY <1>3 DEF PairedFacts
<1>5. \A i \in 1 .. n : LpBound(s[i], r) = BoundIn(m, r, ord[i])
  BY <1>4 DEF LpBound, BoundIn
<1>6. n > 0 => s # <<>>
  BY <1>2, <1>4
<1>7. AboveMin(s, r) \subseteq 1 .. n /\ BelowMax(s, r) \subseteq 1 .. n
  BY <1>4 DEF AboveMin, BelowMax
<1>8. ASSUME NEW lo, NEW hi, MapCut(m, r, lo, hi)
      PROVE  /\ lo \in 0 .. n /\ hi \in 0 .. n /\ (EmptyRange(r) => lo >= hi)
             /\ \A i \in 1 .. n : /\ (GteMin(LpBound(s[i], r), r) <=> i > lo)
                                  /\ (LteMax(LpBound(s[i], r), r) <=> i <= hi)
  <2>1. lo \in 0 .. n /\ hi \in 0 .. n /\ (EmptyRange(r) => lo >= hi)
    BY <1>8 DEF MapCut
  <2>2. \A i \in 1 .. n : /\ (GteMin(BoundIn(m, r, ord[i]), r) <=> i > lo)
                          /\ (LteMax(BoundIn(m, r, ord[i]), r) <=> i <= hi)
    BY <1>8 DEF MapCut
  <2>3. QED
    BY <1>5, <2>1, <2>2
<1>9. QED
  BY <1>2, <1>4, <1>6, <1>7, <1>8

\* The first and the last entry of a range in a listpack.
LEMMA LpEndsAre ==
    ASSUME NEW m, GoodMap(m), NEW r
    PROVE  /\ zzlFirstInRange(Paired(m, Sorted(m)), r) \in 0 .. Len(Sorted(m))
           /\ zzlLastInRange(Paired(m, Sorted(m)), r) \in 0 .. Len(Sorted(m))
           /\ \A lo, hi : MapCut(m, r, lo, hi) =>
                 /\ zzlFirstInRange(Paired(m, Sorted(m)), r) = FirstPlace(lo, hi)
                 /\ zzlLastInRange(Paired(m, Sorted(m)), r) = LastPlace(lo, hi)
<1> DEFINE s == Paired(m, Sorted(m))
           n == Len(Sorted(m))
           A == AboveMin(s, r)
           B == BelowMax(s, r)
           i == FirstIn(A)
           j == LastIn(B)
<1>0. s = Paired(m, Sorted(m)) /\ n = Len(Sorted(m))
  OBVIOUS
<1> HIDE DEF s, n
<1>1. /\ n \in Nat /\ Len(s) = n /\ (n > 0 => s # <<>>)
      /\ A \subseteq 1 .. n /\ B \subseteq 1 .. n
      /\ \A lo, hi : MapCut(m, r, lo, hi) =>
            /\ lo \in 0 .. n /\ hi \in 0 .. n /\ (EmptyRange(r) => lo >= hi)
            /\ \A k \in 1 .. n : /\ (GteMin(LpBound(s[k], r), r) <=> k > lo)
                                 /\ (LteMax(LpBound(s[k], r), r) <=> k <= hi)
  BY <1>0, LpCut
<1>2. /\ zzlFirstInRange(s, r) = IF ~zzlIsInRange(s, r) \/ i = 0 THEN 0 ELSE IF LpInRange(s[i], r) THEN i ELSE 0
      /\ zzlLastInRange(s, r) = IF ~zzlIsInRange(s, r) \/ j = 0 THEN 0 ELSE IF LpInRange(s[j], r) THEN j ELSE 0
  BY LpEnds
<1>3. /\ \A k \in 1 .. n : k \in A <=> GteMin(LpBound(s[k], r), r)
      /\ \A k \in 1 .. n : k \in B <=> LteMax(LpBound(s[k], r), r)
  BY <1>1 DEF AboveMin, BelowMax
<1> HIDE DEF A, B
<1>4. i \in 0 .. n /\ (A = {} => i = 0) /\ (A # {} => i \in A /\ \A x \in A : i <= x)
  BY <1>1, EndsOf
<1>5. j \in 0 .. n /\ (B = {} => j = 0) /\ (B # {} => j \in B /\ \A x \in B : x <= j)
  BY <1>1, EndsOf
<1> HIDE DEF i, j
<1>6. zzlFirstInRange(s, r) \in 0 .. n /\ zzlLastInRange(s, r) \in 0 .. n
  BY <1>1, <1>2, <1>4, <1>5
<1>7. ASSUME NEW lo, NEW hi, MapCut(m, r, lo, hi)
      PROVE  zzlFirstInRange(s, r) = FirstPlace(lo, hi) /\ zzlLastInRange(s, r) = LastPlace(lo, hi)
  <2>1. /\ lo \in 0 .. n /\ hi \in 0 .. n /\ (EmptyRange(r) => lo >= hi)
        /\ \A k \in 1 .. n : /\ (GteMin(LpBound(s[k], r), r) <=> k > lo)
                             /\ (LteMax(LpBound(s[k], r), r) <=> k <= hi)
    BY <1>1, <1>7
  <2>2. \A k \in 1 .. n : (k \in A <=> k > lo) /\ (k \in B <=> k <= hi)
    BY <1>3, <2>1
  <2>3. \A k \in 1 .. n : LpInRange(s[k], r) <=> k > lo /\ k <= hi
    BY <2>1 DEF LpInRange
  <2>4. CASE lo < hi
    <3>1. n > 0 /\ n \in 1 .. n /\ 1 \in 1 .. n /\ lo + 1 \in 1 .. n /\ hi \in 1 .. n /\ n > lo /\ 1 <= hi
      BY <1>1, <2>1, <2>4
    <3>2. ~EmptyRange(r)
      BY <1>1, <2>1, <2>4
    <3>3. zzlIsInRange(s, r)
      BY <1>1, <2>1, <3>1, <3>2 DEF zzlIsInRange
    <3>4. lo + 1 \in A /\ hi \in B
      BY <1>1, <2>1, <2>2, <3>1
    <3>5. i \in A /\ i <= lo + 1 /\ j \in B /\ hi <= j
      BY <1>4, <1>5, <3>4
    <3>6. i \in 1 .. n /\ j \in 1 .. n
      BY <1>1, <3>5
    <3>7. i > lo /\ j <= hi
      BY <2>2, <3>5, <3>6
    <3>8. i = lo + 1 /\ j = hi
      BY <1>1, <2>1, <3>5, <3>6, <3>7
    <3>9. LpInRange(s[i], r) /\ LpInRange(s[j], r)
      BY <1>1, <2>1, <2>3, <2>4, <3>6, <3>8
    <3>10. QED
      BY <1>1, <1>2, <2>1, <2>4, <3>3, <3>6, <3>8, <3>9 DEF FirstPlace, LastPlace
  <2>5. CASE ~(lo < hi)
    <3>1. \A k \in 1 .. n : ~LpInRange(s[k], r)
      BY <1>1, <2>1, <2>3, <2>5
    <3>2. (i = 0 \/ i \in 1 .. n) /\ (j = 0 \/ j \in 1 .. n)
      BY <1>1, <1>4, <1>5
    <3>3. zzlFirstInRange(s, r) = 0 /\ zzlLastInRange(s, r) = 0
      BY <1>2, <3>1, <3>2
    <3>4. QED
      BY <2>5, <3>3 DEF FirstPlace, LastPlace
  <2>6. QED
    BY <2>4, <2>5
<1>8. QED
  BY <1>6, <1>7 DEF s, n

\* The cuts of a map are those of its skiplist.
LEMMA CutOfList ==
    ASSUME NEW z, NEW m, NEW p, IsSkiplist(z, m, p), NEW r, NEW lo, NEW hi, MapCut(m, r, lo, hi)
    PROVE  RangeCut(z.zsl, Sorted(m), r, lo, hi)
<1>1. z.zsl.score = m
  BY DEF IsSkiplist
<1>2. \A x : Bound(z.zsl, r, x) = BoundIn(m, r, x)
  BY <1>1 DEF Bound, BoundIn
<1>3. QED
  BY <1>2 DEF MapCut, RangeCut


\* The run of entries from place i on that are not above a range.
RunUp(w, r, i) == RunFrom(w, i, LAMBDA e : LteMax(LpBound(e, r), r))

\* It ends at the first one that is not.
RunUpTo(m, s, r, i, b) ==
    /\ RunUp(Paired(m, s), r, i) = Paired(m, SubSeq(s, i, b)) /\ b \in (i - 1) .. Len(s)
    /\ \A j \in i .. b : LteMax(BoundIn(m, r, s[j]), r)
    /\ b < Len(s) => ~LteMax(BoundIn(m, r, s[b + 1]), r)

\* It does.
LEMMA RunUpIs ==
    ASSUME NEW m, NEW D, NEW s \in Seq(D), NEW r, NEW i \in 1 .. Len(s)
    PROVE  \E b : RunUpTo(m, s, r, i, b)
<1> DEFINE w == Paired(m, s)
           n == Len(s)
           R == [ele : ToSet(s), score : {m[x] : x \in ToSet(s)}]
           I == {k \in i .. Len(w) : ~LteMax(LpBound(w[k], r), r)}
<1>1. PairedFacts(m, s)
  BY PairedIs
<1>2. Len(w) = n /\ n \in Nat /\ DOMAIN w = 1 .. n /\ w \in Seq(R)
  BY <1>1 DEF PairedFacts
<1>3. \A k \in 1 .. n : LpBound(w[k], r) = BoundIn(m, r, s[k])
  BY <1>1 DEF PairedFacts, LpBound, BoundIn
<1> HIDE DEF w, R
<1>4. I \subseteq 1 .. n /\ I \subseteq i .. n /\ i \in DOMAIN w
  BY <1>2
<1>5. \A k \in i .. n : k \in I <=> ~LteMax(BoundIn(m, r, s[k]), r)
  BY <1>2, <1>3
<1>6. RunUp(w, r, i) = SubSeq(w, i, IF FirstIn(I) = 0 THEN Len(w) ELSE FirstIn(I) - 1)
  BY <1>4 DEF RunUp, RunFrom, SelectInSubSeq, FirstIn
<1> HIDE DEF I, n
<1>7. I # {} => FirstIn(I) \in I
  BY <1>2, <1>4, EndsOf
<1>8. FirstIn(I) = (IF I # {} THEN Min(I) ELSE 0) /\ (I # {} => FirstIn(I) # 0)
  BY <1>2, <1>4, <1>7 DEF FirstIn
<1>9. RunUp(w, r, i) = RunIn(w, i, I)
  BY <1>4, <1>6, <1>8 DEF RunIn
<1>10. PICK b \in (i - 1) .. Len(w) :
          /\ RunIn(w, i, I) = SubSeq(w, i, b) /\ \A k \in i .. b : k \notin I
          /\ b < Len(w) => b + 1 \in I
  <2>1. i \in 1 .. Len(w) /\ I \subseteq i .. Len(w)
    BY <1>2, <1>4 DEF n
  <2>2. QED
    BY <1>2, <2>1, RunInIs
<1>11. i \in Int /\ i >= 1 /\ b \in Int /\ b <= Len(s) /\ b \in (i - 1) .. n
  BY <1>2, <1>10 DEF n
<1>12. PartOf(m, s, i, b)
  BY <1>11, PairedSub
<1>13. RunUp(w, r, i) = Paired(m, SubSeq(s, i, b))
  BY <1>9, <1>10, <1>12 DEF PartOf, w
<1>14. \A k \in i .. b : LteMax(BoundIn(m, r, s[k]), r)
  <2>1. \A k \in i .. b : k \in i .. n
    BY <1>2, <1>11
  <2>2. QED
    BY <1>5, <1>10, <2>1
<1>15. b < n => ~LteMax(BoundIn(m, r, s[b + 1]), r)
  <2>1. b < n => b + 1 \in i .. n
    BY <1>2, <1>11
  <2>2. QED
    BY <1>2, <1>5, <1>10, <2>1
<1>16. QED
  BY <1>11, <1>13, <1>14, <1>15 DEF RunUpTo, w, n


\* The run of entries from place i on that are not below a range.
RunDown(w, r, i) == RunFrom(w, i, LAMBDA e : GteMin(LpBound(e, r), r))

\* It ends at the first one that is not.
RunDownTo(m, s, r, i, b) ==
    /\ RunDown(Paired(m, s), r, i) = Paired(m, SubSeq(s, i, b)) /\ b \in (i - 1) .. Len(s)
    /\ \A j \in i .. b : GteMin(BoundIn(m, r, s[j]), r)
    /\ b < Len(s) => ~GteMin(BoundIn(m, r, s[b + 1]), r)

\* It does.
LEMMA RunDownIs ==
    ASSUME NEW m, NEW D, NEW s \in Seq(D), NEW r, NEW i \in 1 .. Len(s)
    PROVE  \E b : RunDownTo(m, s, r, i, b)
<1> DEFINE w == Paired(m, s)
           n == Len(s)
           R == [ele : ToSet(s), score : {m[x] : x \in ToSet(s)}]
           I == {k \in i .. Len(w) : ~GteMin(LpBound(w[k], r), r)}
<1>1. PairedFacts(m, s)
  BY PairedIs
<1>2. Len(w) = n /\ n \in Nat /\ DOMAIN w = 1 .. n /\ w \in Seq(R)
  BY <1>1 DEF PairedFacts
<1>3. \A k \in 1 .. n : LpBound(w[k], r) = BoundIn(m, r, s[k])
  BY <1>1 DEF PairedFacts, LpBound, BoundIn
<1> HIDE DEF w, R
<1>4. I \subseteq 1 .. n /\ I \subseteq i .. n /\ i \in DOMAIN w
  BY <1>2
<1>5. \A k \in i .. n : k \in I <=> ~GteMin(BoundIn(m, r, s[k]), r)
  BY <1>2, <1>3
<1>6. RunDown(w, r, i) = SubSeq(w, i, IF FirstIn(I) = 0 THEN Len(w) ELSE FirstIn(I) - 1)
  BY <1>4 DEF RunDown, RunFrom, SelectInSubSeq, FirstIn
<1> HIDE DEF I, n
<1>7. I # {} => FirstIn(I) \in I
  BY <1>2, <1>4, EndsOf
<1>8. FirstIn(I) = (IF I # {} THEN Min(I) ELSE 0) /\ (I # {} => FirstIn(I) # 0)
  BY <1>2, <1>4, <1>7 DEF FirstIn
<1>9. RunDown(w, r, i) = RunIn(w, i, I)
  BY <1>4, <1>6, <1>8 DEF RunIn
<1>10. PICK b \in (i - 1) .. Len(w) :
          /\ RunIn(w, i, I) = SubSeq(w, i, b) /\ \A k \in i .. b : k \notin I
          /\ b < Len(w) => b + 1 \in I
  <2>1. i \in 1 .. Len(w) /\ I \subseteq i .. Len(w)
    BY <1>2, <1>4 DEF n
  <2>2. QED
    BY <1>2, <2>1, RunInIs
<1>11. i \in Int /\ i >= 1 /\ b \in Int /\ b <= Len(s) /\ b \in (i - 1) .. n
  BY <1>2, <1>10 DEF n
<1>12. PartOf(m, s, i, b)
  BY <1>11, PairedSub
<1>13. RunDown(w, r, i) = Paired(m, SubSeq(s, i, b))
  BY <1>9, <1>10, <1>12 DEF PartOf, w
<1>14. \A k \in i .. b : GteMin(BoundIn(m, r, s[k]), r)
  <2>1. \A k \in i .. b : k \in i .. n
    BY <1>2, <1>11
  <2>2. QED
    BY <1>5, <1>10, <2>1
<1>15. b < n => ~GteMin(BoundIn(m, r, s[b + 1]), r)
  <2>1. b < n => b + 1 \in i .. n
    BY <1>2, <1>11
  <2>2. QED
    BY <1>2, <1>5, <1>10, <2>1
<1>16. QED
  BY <1>11, <1>13, <1>14, <1>15 DEF RunDownTo, w, n

-----------------------------------------------------------------------------
(* Nodes of a range. *)

\* No entries.
LEMMA EmptyPaired ==
    ASSUME NEW m
    PROVE  Paired(m, <<>>) = <<>>
BY DEF Paired

\* The place of the node at an offset of a range, 0 for none.
NthPlace(lo, hi, k) ==
    IF k >= 0 THEN IF (lo + k) + 1 <= hi THEN (lo + k) + 1 ELSE 0
    ELSE IF (hi + k) + 1 > lo THEN (hi + k) + 1 ELSE 0

\* A node that was found by its rank, or none.
AtRank(ord, q) == q.rank \in 0 .. Len(ord) /\ q.node = BackNode(ord, q.rank)

\* The answers of zslNthInRange.
LEMMA NthNode ==
    ASSUME NEW z, NEW m, NEW p, IsSkiplist(z, m, p), GoodMap(m), NEW r, NEW k \in Int
    PROVE  /\ AtRank(Sorted(m), zslNthInRange(z.zsl, r, k))
           /\ \A lo, hi : MapCut(m, r, lo, hi) => zslNthInRange(z.zsl, r, k).rank = NthPlace(lo, hi, k)
<1> DEFINE ord == Sorted(m)
           l == z.zsl
           q == zslNthInRange(z.zsl, r, k)
<1>1. GoodList(l, ord)
  BY DEF IsSkiplist
<1>2. MapFacts(m)
  BY MapIs
<1>3. Len(ord) \in Nat
  BY <1>2 DEF MapFacts
<1>4. AtRank(ord, q)
  <2>1. OnList(ord, q)
    <3> HIDE DEF l, ord
    <3>1. OnList(ord, zslNthInRange(l, r, k))
      BY <1>1, NthOnList
    <3>2. QED
      BY <3>1 DEF l
  <2> HIDE DEF q, ord
  <2>2. CASE q = Nowhere
    BY <1>3, <2>2 DEF AtRank, BackNode, Nowhere
  <2>3. ASSUME NEW a \in 1 .. Len(ord), q = PosAt(ord, a) PROVE AtRank(ord, q)
    <3>1. q.rank = a /\ q.node = ord[a] /\ a # 0
      BY <1>3, <2>3 DEF PosAt, NodeAt
    <3>2. QED
      BY <1>3, <3>1 DEF AtRank, BackNode
  <2>4. QED
    BY <2>1, <2>2, <2>3 DEF OnList
<1>5. ASSUME NEW lo, NEW hi, MapCut(m, r, lo, hi) PROVE q.rank = NthPlace(lo, hi, k)
  <2>1. RangeCut(l, ord, r, lo, hi)
    BY <1>5, CutOfList
  <2>2. q = NthOf(ord, lo, hi, k)
    <3> HIDE DEF l, ord
    <3>1. zslNthInRange(l, r, k) = NthOf(ord, lo, hi, k)
      BY <1>1, <2>1, NthIs
    <3>2. QED
      BY <3>1 DEF l
  <2>3. \A a : PosAt(ord, a).rank = a
    BY DEF PosAt
  <2>4. Nowhere.rank = 0
    BY DEF Nowhere
  <2> HIDE DEF q, ord
  <2>5. QED
    BY <2>2, <2>3, <2>4 DEF NthOf, NthPlace
<1>6. QED
  BY <1>4, <1>5

\* Where CollectRange starts.
StartPlace(z, r) ==
    IF z.encoding = "listpack" THEN zzlFirstInRange(z.lp, r)
    ELSE PlaceOf(Walk(z), zslNthInRange(z.zsl, r, 0).node)

\* At the first member of the range.
LEMMA StartPlaceIs ==
    ASSUME NEW z, NEW m, NEW p, Good(z, m, p), NEW r
    PROVE  /\ StartPlace(z, r) \in 0 .. Len(Sorted(m))
           /\ \A lo, hi : MapCut(m, r, lo, hi) => StartPlace(z, r) = FirstPlace(lo, hi)
<1> DEFINE ord == Sorted(m)
<1>1. GoodMap(m) /\ MapFacts(m) /\ (IsListpack(z, m, p) \/ IsSkiplist(z, m, p))
  BY GoodCases
<1>2. CASE IsListpack(z, m, p)
  <2>1. z.encoding = "listpack" /\ z.lp = Paired(m, ord)
    BY <1>2 DEF IsListpack
  <2>2. StartPlace(z, r) = zzlFirstInRange(Paired(m, ord), r)
    BY <2>1 DEF StartPlace
  <2>3. QED
    BY <1>1, <2>2, LpEndsAre
<1>3. CASE IsSkiplist(z, m, p)
  <2> DEFINE zero == 0
             q == zslNthInRange(z.zsl, r, zero)
             a == q.rank
  <2>1. zero \in Int
    OBVIOUS
  <2>2. /\ AtRank(ord, q) /\ \A lo, hi : MapCut(m, r, lo, hi) => q.rank = NthPlace(lo, hi, zero)
    <3> HIDE DEF zero
    <3>1. QED
      BY <1>1, <1>3, <2>1, NthNode
  <2>3. z.encoding # "listpack" /\ Walk(z) = Paired(m, ord)
    BY <1>3, WalkOf DEF IsSkiplist
  <2>4. StartPlace(z, r) = PlaceOf(Paired(m, ord), q.node)
    BY <2>3 DEF StartPlace
  <2>5. ord \in Seq(DOMAIN m) /\ Len(ord) \in Nat /\ DOMAIN m \subseteq Nat \ {0}
    BY <1>1 DEF MapFacts
  <2>6. a \in 0 .. Len(ord) /\ q.node = BackNode(ord, a)
    BY <2>2 DEF AtRank
  <2> HIDE DEF q, a, ord
  <2> DEFINE x == q.node
  <2>7. PlaceOf(Paired(m, ord), x) = PlaceIn(ord, x)
    <3> HIDE DEF x
    <3>1. QED
      BY <2>5, FindIs
  <2>8. PlaceIn(ord, x) = a
    <3>1. CASE a = 0
      <4>1. x = NIL
        BY <2>6, <3>1 DEF BackNode
      <4>2. x \notin DOMAIN m
        BY <2>5, <4>1 DEF NIL
      <4> HIDE DEF x
      <4>3. PlaceIn(ord, x) = 0
        BY <1>1, <4>2, PlaceOfMember DEF ord
      <4>4. QED
        BY <3>1, <4>3
    <3>2. CASE a # 0
      <4>1. x = ord[a] /\ a \in 1 .. Len(ord)
        BY <2>5, <2>6, <3>2 DEF BackNode
      <4>2. PlaceIn(ord, ord[a]) = a
        BY <1>1, <4>1, PlaceOfMember DEF ord
      <4>3. QED
        BY <4>1, <4>2
    <3>3. QED
      BY <3>1, <3>2
  <2>9. StartPlace(z, r) = a
    BY <2>4, <2>7, <2>8
  <2>10. ASSUME NEW lo, NEW hi, MapCut(m, r, lo, hi) PROVE a = FirstPlace(lo, hi)
    <3>1. a = NthPlace(lo, hi, zero)
      BY <2>2, <2>10 DEF a
    <3>2. lo \in Int /\ hi \in Int
      BY <2>5, <2>10 DEF MapCut, ord
    <3>3. QED
      BY <3>1, <3>2 DEF NthPlace, FirstPlace
  <2>11. QED
    BY <2>6, <2>9, <2>10 DEF ord
<1>4. QED
  BY <1>1, <1>2, <1>3

\* What is collected of a range: entries of members, those of the range if it is meant.
CollectsRange(w, m, r, keys) ==
    /\ keys \in Seq(DOMAIN m) /\ w = Paired(m, keys)
    /\ Meant(m, r) => keys = ListedIn(m, r, FALSE)

\* rl_collect_range returns them.
LEMMA CollectRangeIs ==
    ASSUME NEW z, NEW m, NEW p, Good(z, m, p), NEW r \in RangeRec
    PROVE  \E keys : CollectsRange(CollectRange(z, r), m, r, keys)
<1> DEFINE ord == Sorted(m)
           n == Len(ord)
           f == StartPlace(z, r)
<1>1. GoodMap(m) /\ MapFacts(m)
  BY GoodCases
<1>2. ord \in Seq(DOMAIN m) /\ n \in Nat
  BY <1>1 DEF MapFacts
<1>3. f \in 0 .. n /\ \A lo, hi : MapCut(m, r, lo, hi) => f = FirstPlace(lo, hi)
  BY StartPlaceIs
<1>4. CollectRange(z, r) = RunUp(Paired(m, ord), r, f)
  <2>1. Walk(z) = Paired(m, ord)
    BY WalkOf
  <2>2. CollectRange(z, r) = RunUp(Walk(z), r, f)
    BY DEF CollectRange, RunUp, StartPlace
  <2>3. QED
    BY <2>1, <2>2
<1>5. Meant(m, r) => \E lo, hi : MapCut(m, r, lo, hi) /\ ListedIn(m, r, FALSE) = SubSeq(ord, lo + 1, hi)
  <2>1. SUFFICES ASSUME Meant(m, r) PROVE \E lo, hi : MapCut(m, r, lo, hi) /\ ListedIn(m, r, FALSE) = SubSeq(ord, lo + 1, hi)
    OBVIOUS
  <2>2. PICK lo, hi : MapCut(m, r, lo, hi)
    BY <1>1, <2>1, CutExists
  <2>3. ListedIn(m, r, FALSE) = SubSeq(ord, lo + 1, hi)
    BY <1>1, <2>2, CutListed
  <2>4. QED
    BY <2>2, <2>3
<1> HIDE DEF f, ord
<1>6. CASE f = 0
  <2>1. PairedFacts(m, ord)
    BY <1>2, PairedIs
  <2>2. CollectRange(z, r) = <<>>
    BY <1>2, <1>4, <1>6, <2>1 DEF RunUp, RunFrom, PairedFacts
  <2>3. Meant(m, r) => ListedIn(m, r, FALSE) = <<>>
    <3>1. SUFFICES ASSUME Meant(m, r) PROVE ListedIn(m, r, FALSE) = <<>>
      OBVIOUS
    <3>2. PICK lo, hi : MapCut(m, r, lo, hi) /\ ListedIn(m, r, FALSE) = SubSeq(ord, lo + 1, hi)
      BY <1>5, <3>1
    <3>3. lo \in 0 .. n /\ hi \in 0 .. n
      BY <3>2 DEF MapCut, ord
    <3>4. ~(lo < hi)
      <4>1. f = FirstPlace(lo, hi)
        BY <1>3, <3>2
      <4>2. QED
        BY <1>2, <1>6, <3>3, <4>1 DEF FirstPlace
    <3> DEFINE a == lo + 1
    <3>5. a \in Int /\ hi \in Int /\ a >= 1 /\ hi <= Len(ord) /\ a > hi
      BY <1>2, <3>3, <3>4
    <3> HIDE DEF a
    <3>6. SubSeq(ord, a, hi) = <<>>
      BY <1>2, <3>5, EmptySub
    <3>7. QED
      BY <3>2, <3>6 DEF a
  <2>4. Paired(m, <<>>) = <<>> /\ <<>> \in Seq(DOMAIN m)
    BY EmptyPaired
  <2>5. CollectsRange(CollectRange(z, r), m, r, <<>>)
    BY <2>2, <2>3, <2>4 DEF CollectsRange
  <2>6. QED
    BY <2>5
<1>7. CASE f # 0
  <2>1. f \in 1 .. Len(ord)
    BY <1>2, <1>3, <1>7
  <2>2. PICK b : RunUpTo(m, ord, r, f, b)
    BY <1>2, <2>1, RunUpIs
  <2>3. /\ RunUp(Paired(m, ord), r, f) = Paired(m, SubSeq(ord, f, b)) /\ b \in (f - 1) .. n
        /\ \A j \in f .. b : LteMax(BoundIn(m, r, ord[j]), r)
        /\ b < n => ~LteMax(BoundIn(m, r, ord[b + 1]), r)
    BY <2>2 DEF RunUpTo
  <2>4. f \in Int /\ b \in Int /\ f >= 1 /\ b <= Len(ord)
    BY <1>2, <2>1, <2>3
  <2>5. SubSeq(ord, f, b) \in Seq(DOMAIN m)
    BY <1>2, <2>4, SubSeqIs
  <2>6. Meant(m, r) => ListedIn(m, r, FALSE) = SubSeq(ord, f, b)
    <3>1. SUFFICES ASSUME Meant(m, r) PROVE ListedIn(m, r, FALSE) = SubSeq(ord, f, b)
      OBVIOUS
    <3>2. PICK lo, hi : MapCut(m, r, lo, hi) /\ ListedIn(m, r, FALSE) = SubSeq(ord, lo + 1, hi)
      BY <1>5, <3>1
    <3>3. lo \in 0 .. n /\ hi \in 0 .. n
      BY <3>2 DEF MapCut, ord
    <3>4. lo < hi /\ f = lo + 1
      <4>1. f = FirstPlace(lo, hi)
        BY <1>3, <3>2
      <4>2. QED
        BY <1>7, <4>1 DEF FirstPlace
    <3>5. \A j \in 1 .. n : LteMax(BoundIn(m, r, ord[j]), r) <=> j <= hi
      BY <3>2 DEF MapCut, ord
    <3>6. b <= hi
      <4>1. b >= f => b \in f .. b /\ b \in 1 .. n
        BY <1>2, <2>1, <2>3
      <4>2. QED
        BY <1>2, <2>3, <2>4, <3>3, <3>4, <3>5, <4>1
    <3>7. b >= hi
      <4>1. b < n => b + 1 \in 1 .. n
        BY <1>2, <2>1, <2>3
      <4>2. QED
        BY <1>2, <2>3, <2>4, <3>3, <3>5, <4>1
    <3>8. b = hi
      BY <1>2, <2>4, <3>3, <3>6, <3>7
    <3>9. QED
      BY <3>2, <3>4, <3>8
  <2>7. CollectsRange(CollectRange(z, r), m, r, SubSeq(ord, f, b))
    BY <1>4, <2>3, <2>5, <2>6 DEF CollectsRange
  <2>8. QED
    BY <2>7
<1>8. QED
  BY <1>6, <1>7

\* zcount counts the members of the range.
LEMMA ZcountIs ==
    ASSUME NEW z, NEW m, NEW p, Good(z, m, p), NEW r \in RangeRec, Meant(m, r)
    PROVE  zcount(z, r) = Len(ListedIn(m, r, FALSE))
<1> DEFINE ord == Sorted(m)
           n == Len(ord)
<1>1. GoodMap(m) /\ MapFacts(m) /\ (IsListpack(z, m, p) \/ IsSkiplist(z, m, p))
  BY GoodCases
<1>2. ord \in Seq(DOMAIN m) /\ n \in Nat /\ DOMAIN m \subseteq Nat \ {0}
  BY <1>1 DEF MapFacts
<1>3. CASE IsListpack(z, m, p)
  <2>1. zcount(z, r) = Len(CollectRange(z, r))
    BY <1>3 DEF IsListpack, zcount
  <2>2. PICK keys : CollectsRange(CollectRange(z, r), m, r, keys)
    BY CollectRangeIs
  <2>3. keys \in Seq(DOMAIN m) /\ CollectRange(z, r) = Paired(m, keys) /\ keys = ListedIn(m, r, FALSE)
    BY <2>2 DEF CollectsRange
  <2>4. PairedFacts(m, keys)
    BY <2>3, PairedIs
  <2>5. QED
    BY <2>1, <2>3, <2>4 DEF PairedFacts
<1>4. CASE IsSkiplist(z, m, p)
  <2> DEFINE zero == 0
             mone == -1
             first == zslNthInRange(z.zsl, r, zero)
             last == zslNthInRange(z.zsl, r, mone)
  <2>1. zero \in Int /\ mone \in Int
    OBVIOUS
  <2>2. PICK lo, hi : MapCut(m, r, lo, hi)
    BY <1>1, CutExists
  <2>3. lo \in 0 .. n /\ hi \in 0 .. n
    BY <2>2 DEF MapCut
  <2>4. /\ AtRank(ord, first) /\ \A c, d : MapCut(m, r, c, d) => first.rank = NthPlace(c, d, zero)
    <3> HIDE DEF zero
    <3>1. QED
      BY <1>1, <1>4, <2>1, NthNode
  <2>5. /\ AtRank(ord, last) /\ \A c, d : MapCut(m, r, c, d) => last.rank = NthPlace(c, d, mone)
    <3> HIDE DEF mone
    <3>1. QED
      BY <1>1, <1>4, <2>1, NthNode
  <2>6. z.encoding # "listpack" /\ z.zsl.length = n
    BY <1>4 DEF IsSkiplist, GoodList, GoodParts
  <2>7. zcount(z, r) = IF first.node = NIL THEN 0
                       ELSE z.zsl.length - (first.rank - 1) - (IF last.node = NIL THEN 0 ELSE z.zsl.length - last.rank)
    BY <2>6 DEF zcount
  <2>8. /\ first.rank = NthPlace(lo, hi, zero) /\ first.node = BackNode(ord, first.rank)
        /\ last.rank = NthPlace(lo, hi, mone) /\ last.node = BackNode(ord, last.rank)
    BY <2>2, <2>4, <2>5 DEF AtRank
  <2>9. first.rank = FirstPlace(lo, hi) /\ last.rank = LastPlace(lo, hi)
    <3> HIDE DEF first, last
    <3>1. QED
      BY <1>2, <2>3, <2>8 DEF NthPlace, FirstPlace, LastPlace
  <2> DEFINE a == lo + 1
             t == SubSeq(ord, a, hi)
  <2>10. ListedIn(m, r, FALSE) = t
    BY <1>1, <2>2, CutListed
  <2>11. a \in Int /\ hi \in Int /\ a >= 1 /\ hi <= Len(ord)
    BY <1>2, <2>3
  <2>12. Len(t) = IF a <= hi THEN (hi - a) + 1 ELSE 0
    <3> HIDE DEF a, ord
    <3>1. QED
      BY <1>2, <2>11, SubSeqIs
  <2> HIDE DEF t, first, last, ord
  <2>13. CASE lo < hi
    <3>1. lo + 1 \in 1 .. n /\ hi \in 1 .. n /\ lo + 1 # 0 /\ hi # 0
      BY <1>2, <2>3, <2>13
    <3>2. first.rank = lo + 1 /\ last.rank = hi
      BY <2>9, <2>13 DEF FirstPlace, LastPlace
    <3>3. first.node = ord[lo + 1] /\ last.node = ord[hi]
      BY <2>8, <3>1, <3>2 DEF BackNode
    <3>4. ord[lo + 1] \in DOMAIN m /\ ord[hi] \in DOMAIN m
      BY <1>2, <3>1
    <3>5. first.node # NIL /\ last.node # NIL
      BY <1>2, <3>3, <3>4 DEF NIL
    <3>6. zcount(z, r) = n - ((lo + 1) - 1) - (n - hi)
      BY <2>6, <2>7, <3>2, <3>5
    <3>7. Len(t) = hi - lo
      BY <1>2, <2>3, <2>12, <2>13
    <3>8. n - ((lo + 1) - 1) - (n - hi) = hi - lo
      <4> HIDE DEF n
      <4>1. QED
        BY <1>2, <2>3
    <3>9. QED
      BY <2>10, <3>6, <3>7, <3>8
  <2>14. CASE ~(lo < hi)
    <3>1. first.node = NIL
      BY <2>8, <2>9, <2>14 DEF FirstPlace, BackNode
    <3>2. Len(t) = 0
      BY <1>2, <2>3, <2>12, <2>14
    <3>3. QED
      BY <2>7, <2>10, <3>1, <3>2
  <2>15. QED
    BY <2>13, <2>14
<1>5. QED
  BY <1>1, <1>3, <1>4

-----------------------------------------------------------------------------
(* Ranges with an offset and a limit. *)

\* w has the entries of L from place a on.
SuffixOf(m, L, w, a) == a \in 1 .. (Len(L) + 1) /\ w = Paired(m, SubSeq(L, a, Len(L)))

\* For the places c + 1 .. d, the walk starts offset places after c, or after d.
StartsRight(c, d, offset, a) ==
    (c + offset < d => a = (c + offset) + 1) /\ (c + offset >= d => a > d)

\* The walk forward.
LEMMA ForwardStart ==
    ASSUME NEW z, NEW m, NEW p, Good(z, m, p), NEW r, NEW offset \in Nat, NEW reverse, reverse = FALSE
    PROVE  \E a : /\ SuffixOf(m, Sorted(m), RangeStart(z, r, offset, reverse), a)
                  /\ \A lo, hi : MapCut(m, r, lo, hi) => StartsRight(lo, hi, offset, a)
<1> DEFINE ord == Sorted(m)
           n == Len(ord)
           w == RangeStart(z, r, offset, reverse)
<1>1. GoodMap(m) /\ MapFacts(m) /\ (IsListpack(z, m, p) \/ IsSkiplist(z, m, p))
  BY GoodCases
<1>2. ord \in Seq(DOMAIN m) /\ n \in Nat
  BY <1>1 DEF MapFacts
<1>3. \A lo, hi : MapCut(m, r, lo, hi) => lo \in 0 .. n /\ hi \in 0 .. n
  BY DEF MapCut
<1>4. CASE IsListpack(z, m, p)
  <2> DEFINE f == zzlFirstInRange(Paired(m, ord), r)
             k == (f - 1) + offset
             a == IF f = 0 THEN n + 1 ELSE IF k <= n THEN k + 1 ELSE n + 1
  <2>1. f \in 0 .. n /\ \A lo, hi : MapCut(m, r, lo, hi) => f = FirstPlace(lo, hi)
    BY <1>1, LpEndsAre
  <2>2. z.encoding # "skiplist" /\ z.lp = Paired(m, ord)
    BY <1>4 DEF IsListpack
  <2>3. w = IF f = 0 THEN <<>> ELSE Skip(Paired(m, ord), (f - 1) + offset)
    BY <2>2 DEF RangeStart
  <2> HIDE DEF f, w, ord
  <2>4. a \in 1 .. (n + 1)
    BY <1>2, <2>1
  <2>5. w = Paired(m, SubSeq(ord, a, n))
    <3>1. CASE f = 0
      <4> DEFINE e == n + 1
      <4>1. a = e /\ e \in Int /\ e >= 1 /\ e > n /\ n \in Int /\ n <= Len(ord)
        BY <1>2, <3>1
      <4> HIDE DEF e, a
      <4>2. SubSeq(ord, e, n) = <<>>
        <5> HIDE DEF n
        <5>1. QED
          BY <1>2, <4>1, EmptySub
      <4>3. QED
        BY <2>3, <3>1, <4>1, <4>2, EmptyPaired
    <3>2. CASE f # 0
      <4>1. k \in Nat
        BY <1>2, <2>1, <3>2
      <4>2. w = Skip(Paired(m, ord), k)
        BY <2>3, <3>2
      <4> HIDE DEF k
      <4>3. Skip(Paired(m, ord), k) = Paired(m, Skip(ord, k))
        BY <1>2, <4>1, SkipPaired
      <4>4. Skip(ord, k) = SubSeq(ord, IF k <= Len(ord) THEN k + 1 ELSE Len(ord) + 1, Len(ord))
        BY <1>2, <4>1, SkipIs
      <4>5. a = IF k <= Len(ord) THEN k + 1 ELSE Len(ord) + 1
        BY <3>2
      <4> HIDE DEF a
      <4>6. QED
        BY <4>2, <4>3, <4>4, <4>5
    <3>3. QED
      BY <3>1, <3>2
  <2>6. ASSUME NEW lo, NEW hi, MapCut(m, r, lo, hi) PROVE StartsRight(lo, hi, offset, a)
    <3>1. lo \in 0 .. n /\ hi \in 0 .. n /\ f = FirstPlace(lo, hi)
      BY <1>3, <2>1, <2>6
    <3> HIDE DEF n
    <3>2. CASE lo < hi
      <4>1. f = lo + 1 /\ f # 0 /\ k = lo + offset
        BY <1>2, <3>1, <3>2 DEF FirstPlace
      <4>2. QED
        BY <1>2, <3>1, <3>2, <4>1 DEF StartsRight
    <3>3. CASE ~(lo < hi)
      <4>1. f = 0
        BY <3>1, <3>3 DEF FirstPlace
      <4>2. QED
        BY <1>2, <3>1, <3>3, <4>1 DEF StartsRight
    <3>4. QED
      BY <3>2, <3>3
  <2> HIDE DEF a
  <2>7. QED
    BY <2>4, <2>5, <2>6 DEF SuffixOf, w, ord
<1>5. CASE IsSkiplist(z, m, p)
  <2> DEFINE l == z.zsl
             q == zslNthInRange(l, r, offset)
             g == q.rank
             a == IF g = 0 THEN n + 1 ELSE g
  <2>1. AtRank(ord, q) /\ \A lo, hi : MapCut(m, r, lo, hi) => q.rank = NthPlace(lo, hi, offset)
    <3>1. offset \in Int
      OBVIOUS
    <3>2. QED
      BY <1>1, <1>5, <3>1, NthNode
  <2>2. z.encoding = "skiplist" /\ GoodList(l, ord) /\ l.score = m
    BY <1>5 DEF IsSkiplist
  <2>3. w = Along(l, q.node, reverse)
    BY <2>2 DEF RangeStart
  <2>4. g \in 0 .. n /\ q.node = BackNode(ord, g)
    BY <2>1 DEF AtRank
  <2> HIDE DEF w, ord, l, q, g
  <2>5. a \in 1 .. (n + 1) /\ q.node = NodeAt(ord, a)
    BY <1>2, <2>4 DEF BackNode, NodeAt
  <2> HIDE DEF a
  <2>6. Along(l, NodeAt(ord, a), reverse) = Paired(l.score, SubSeq(ord, a, Len(ord)))
    BY <2>2, <2>5, AlongForward
  <2>7. ASSUME NEW lo, NEW hi, MapCut(m, r, lo, hi) PROVE StartsRight(lo, hi, offset, a)
    <3>1. lo \in 0 .. n /\ hi \in 0 .. n /\ g = NthPlace(lo, hi, offset)
      BY <1>3, <2>1, <2>7 DEF g
    <3> HIDE DEF n
    <3>2. QED
      BY <1>2, <3>1 DEF StartsRight, NthPlace, a
  <2>8. QED
    BY <2>2, <2>3, <2>5, <2>6, <2>7 DEF SuffixOf, w, ord
<1>6. QED
  BY <1>1, <1>4, <1>5

\* The walk backward.
LEMMA BackwardStart ==
    ASSUME NEW z, NEW m, NEW p, Good(z, m, p), NEW r, NEW offset \in Nat, NEW reverse, reverse = TRUE
    PROVE  \E a : /\ SuffixOf(m, Reverse(Sorted(m)), RangeStart(z, r, offset, reverse), a)
                  /\ \A lo, hi : MapCut(m, r, lo, hi) =>
                        StartsRight(Len(Sorted(m)) - hi, Len(Sorted(m)) - lo, offset, a)
<1> DEFINE ord == Sorted(m)
           n == Len(ord)
           L == Reverse(ord)
           w == RangeStart(z, r, offset, reverse)
           one == 1
<1>1. GoodMap(m) /\ MapFacts(m) /\ (IsListpack(z, m, p) \/ IsSkiplist(z, m, p))
  BY GoodCases
<1>2. ord \in Seq(DOMAIN m) /\ n \in Nat /\ one \in Int /\ one >= 1
  BY <1>1 DEF MapFacts
<1>3. \A lo, hi : MapCut(m, r, lo, hi) => lo \in 0 .. n /\ hi \in 0 .. n
  BY DEF MapCut
<1>4. L \in Seq(DOMAIN m) /\ Len(L) = n
  <2> HIDE DEF ord
  <2>1. QED
    BY <1>2, ReverseIs
\* The first b members backwards.
<1>5. ASSUME NEW b \in 0 .. n PROVE Reverse(SubSeq(ord, one, b)) = SubSeq(L, (n - b) + 1, n)
  <2>1. b \in Int /\ b <= Len(ord) /\ (Len(ord) - one) + 1 = n
    BY <1>2
  <2> HIDE DEF ord, one
  <2>2. Reverse(SubSeq(ord, one, b)) = SubSeq(Reverse(ord), (Len(ord) - b) + 1, (Len(ord) - one) + 1)
    BY <1>2, <2>1, ReverseSub
  <2>3. QED
    BY <2>1, <2>2
<1>6. CASE IsListpack(z, m, p)
  <2> DEFINE b == zzlLastInRange(Paired(m, ord), r)
             e == IF offset <= b THEN offset + 1 ELSE b + 1
             g == (n - b) + 1
             a == (g + e) - 1
             t == SubSeq(L, g, n)
  <2>1. b \in 0 .. n /\ \A lo, hi : MapCut(m, r, lo, hi) => b = LastPlace(lo, hi)
    BY <1>1, LpEndsAre
  <2>2. z.encoding # "skiplist" /\ z.lp = Paired(m, ord)
    BY <1>6 DEF IsListpack
  <2>3. w = Skip(Reverse(Take(Paired(m, ord), b)), offset)
    BY <2>2 DEF RangeStart
  <2> HIDE DEF b, w, ord, L
  <2>4. a \in 1 .. (n + 1) /\ g \in Int /\ g >= 1 /\ n \in Int /\ n <= Len(L) /\ b \in Nat /\ b <= Len(ord)
    BY <1>2, <1>4, <2>1
  <2>5. Take(Paired(m, ord), b) = Paired(m, SubSeq(ord, one, b))
    <3>1. Take(Paired(m, ord), b) = Paired(m, Take(ord, b))
      BY <1>2, <2>4, TakePaired
    <3>2. Take(ord, b) = SubSeq(ord, 1, IF b <= Len(ord) THEN b ELSE Len(ord))
      BY <1>2, <2>4, TakeIs
    <3>3. QED
      BY <2>4, <3>1, <3>2
  <2>6. Reverse(Take(Paired(m, ord), b)) = Paired(m, t)
    <3> DEFINE s == SubSeq(ord, one, b)
    <3>1. s \in Seq(DOMAIN m)
      <4> HIDE DEF one
      <4>1. QED
        BY <1>2, <2>4, SubSeqIs
    <3>2. Reverse(s) = t
      BY <1>5, <2>1
    <3> HIDE DEF s, t
    <3>3. Reverse(Paired(m, s)) = Paired(m, Reverse(s))
      BY <3>1, PairedReverse
    <3>4. QED
      BY <2>5, <3>2, <3>3 DEF s
  <2>7. t \in Seq(DOMAIN m) /\ Len(t) = b
    <3>1. t \in Seq(DOMAIN m) /\ Len(t) = IF g <= n THEN (n - g) + 1 ELSE 0
      <4> HIDE DEF g, n
      <4>1. QED
        BY <1>4, <2>4, SubSeqIs
    <3> HIDE DEF t
    <3>2. QED
      BY <1>2, <2>1, <3>1
  <2>8. w = Paired(m, SubSeq(t, e, b))
    <3> HIDE DEF t, g
    <3>1. Skip(Paired(m, t), offset) = Paired(m, Skip(t, offset))
      BY <2>7, SkipPaired
    <3>2. Skip(t, offset) = SubSeq(t, IF offset <= Len(t) THEN offset + 1 ELSE Len(t) + 1, Len(t))
      BY <2>7, SkipIs
    <3>3. QED
      BY <2>3, <2>6, <2>7, <3>1, <3>2
  <2>9. SubSeq(t, e, b) = SubSeq(L, a, n)
    <3>1. e \in Int /\ b \in Int /\ e >= 1 /\ e <= b + 1 /\ (g + b) - 1 <= n /\ (g + b) - 1 = n
      BY <1>2, <2>1
    <3> HIDE DEF e, g, n
    <3>2. SubSeq(SubSeq(L, g, n), e, b) = SubSeq(L, (g + e) - 1, (g + b) - 1)
      BY <1>4, <2>4, <3>1, SubSub
    <3>3. QED
      BY <3>1, <3>2
  <2>10. ASSUME NEW lo, NEW hi, MapCut(m, r, lo, hi) PROVE StartsRight(n - hi, n - lo, offset, a)
    <3>1. lo \in 0 .. n /\ hi \in 0 .. n /\ b = LastPlace(lo, hi)
      BY <1>3, <2>1, <2>10
    <3> HIDE DEF n
    <3>2. QED
      BY <1>2, <3>1 DEF StartsRight, LastPlace
  <2> HIDE DEF a
  <2>11. QED
    BY <1>4, <2>4, <2>8, <2>9, <2>10 DEF SuffixOf, w, ord, L
<1>7. CASE IsSkiplist(z, m, p)
  <2> DEFINE l == z.zsl
             k == -offset - 1
             q == zslNthInRange(l, r, k)
             g == q.rank
             a == (n - g) + 1
  <2>1. AtRank(ord, q) /\ \A lo, hi : MapCut(m, r, lo, hi) => q.rank = NthPlace(lo, hi, k)
    <3>1. k \in Int
      OBVIOUS
    <3> HIDE DEF k
    <3>2. QED
      BY <1>1, <1>7, <3>1, NthNode
  <2>2. z.encoding = "skiplist" /\ GoodList(l, ord) /\ l.score = m
    BY <1>7 DEF IsSkiplist
  <2>3. w = Along(l, q.node, reverse)
    BY <2>2 DEF RangeStart
  <2>4. g \in 0 .. n /\ q.node = BackNode(ord, g)
    BY <2>1 DEF AtRank
  <2> HIDE DEF w, ord, l, q, g, L
  <2>5. a \in 1 .. (n + 1)
    BY <1>2, <2>4
  <2>6. Along(l, BackNode(ord, g), reverse) = Paired(l.score, Reverse(SubSeq(ord, 1, g)))
    BY <2>2, <2>4, AlongBackward
  <2>7. Reverse(SubSeq(ord, 1, g)) = SubSeq(L, a, n)
    BY <1>5, <2>4
  <2>8. ASSUME NEW lo, NEW hi, MapCut(m, r, lo, hi) PROVE StartsRight(n - hi, n - lo, offset, a)
    <3>1. lo \in 0 .. n /\ hi \in 0 .. n /\ g = NthPlace(lo, hi, k)
      BY <1>3, <2>1, <2>8 DEF g
    <3> HIDE DEF n
    <3>2. QED
      BY <1>2, <3>1 DEF StartsRight, NthPlace
  <2> HIDE DEF a
  <2>9. QED
    BY <1>4, <2>2, <2>3, <2>4, <2>5, <2>6, <2>7, <2>8 DEF SuffixOf, w, ord, L
<1>8. QED
  BY <1>1, <1>6, <1>7


\* The places of L up to d, and no others, satisfy the condition of the run.
RunUpEnds(m, r, L, d) == d \in 0 .. Len(L) /\ \A j \in 1 .. Len(L) : LteMax(BoundIn(m, r, L[j]), r) <=> j <= d

EndOfRunUp(m, r, L, a, e) ==
    /\ e \in (a - 1) .. Len(L)
    /\ \A d : RunUpEnds(m, r, L, d) => e = IF a <= d THEN d ELSE a - 1

\* A run along a part of L up to its end.
LEMMA RunUpAlong ==
    ASSUME NEW m, NEW D, NEW L \in Seq(D), NEW r, NEW w, NEW a, SuffixOf(m, L, w, a)
    PROVE  \E e : RunUp(w, r, 1) = Paired(m, SubSeq(L, a, e)) /\ EndOfRunUp(m, r, L, a, e)
<1> DEFINE n == Len(L)
           t == SubSeq(L, a, n)
<1>1. n \in Nat /\ a \in 1 .. (n + 1) /\ w = Paired(m, t)
  BY DEF SuffixOf
<1>2. a \in Int /\ a >= 1 /\ n \in Int /\ n <= Len(L)
  BY <1>1
<1>3. /\ t \in Seq(D) /\ Len(t) = (IF a <= n THEN (n - a) + 1 ELSE 0)
      /\ \A i \in 1 .. ((n - a) + 1) : t[i] = L[(a + i) - 1]
  BY <1>2, SubSeqIs
<1>4. PairedFacts(m, t)
  <2> HIDE DEF t
  <2>1. QED
    BY <1>3, PairedIs
<1>5. DOMAIN w = 1 .. Len(t)
  BY <1>1, <1>4 DEF PairedFacts
<1> HIDE DEF t, n
<1>6. CASE a = n + 1
  <2>1. Len(t) = 0
    BY <1>1, <1>3, <1>6
  <2>2. RunUp(w, r, 1) = <<>>
    BY <1>5, <2>1 DEF RunUp, RunFrom
  <2>3. t = <<>>
    BY <1>2, <1>6, EmptySub DEF t, n
  <2>4. Paired(m, t) = <<>>
    BY <2>3, EmptyPaired
  <2>5. EndOfRunUp(m, r, L, a, n)
    <3>1. n \in (a - 1) .. n
      BY <1>1, <1>6
    <3>2. \A d : d \in 0 .. n => n = IF a <= d THEN d ELSE a - 1
      BY <1>1, <1>6
    <3>3. QED
      BY <3>1, <3>2 DEF EndOfRunUp, RunUpEnds, n
  <2>6. QED
    BY <2>2, <2>4, <2>5 DEF t
<1>7. CASE a # n + 1
  <2> DEFINE one == 1
  <2>1. Len(t) = (n - a) + 1 /\ one \in 1 .. Len(t)
    BY <1>1, <1>3, <1>7
  <2>2. PICK b : RunUpTo(m, t, r, one, b)
    <3> HIDE DEF one
    <3>1. QED
      BY <1>3, <2>1, RunUpIs
  <2>3. /\ RunUp(w, r, 1) = Paired(m, SubSeq(t, 1, b)) /\ b \in 0 .. Len(t)
        /\ \A j \in 1 .. b : LteMax(BoundIn(m, r, t[j]), r)
        /\ b < Len(t) => ~LteMax(BoundIn(m, r, t[b + 1]), r)
    BY <1>1, <2>2 DEF RunUpTo
  <2> DEFINE e == (a + b) - 1
  <2>4. e \in (a - 1) .. n /\ b \in Int /\ one \in Int /\ one >= 1 /\ one <= b + 1 /\ (a + b) - 1 <= n /\ (a + one) - 1 = a
    BY <1>1, <2>1, <2>3
  <2>5. SubSeq(t, 1, b) = SubSeq(L, a, e)
    <3> HIDE DEF one
    <3>1. SubSeq(SubSeq(L, a, n), one, b) = SubSeq(L, (a + one) - 1, (a + b) - 1)
      BY <1>2, <2>4, SubSub
    <3>2. QED
      BY <2>4, <3>1 DEF t, one
  <2>6. ASSUME NEW d, RunUpEnds(m, r, L, d) PROVE e = IF a <= d THEN d ELSE a - 1
    <3>1. d \in 0 .. n /\ \A j \in 1 .. n : LteMax(BoundIn(m, r, L[j]), r) <=> j <= d
      BY <2>6 DEF RunUpEnds, n
    <3>2. b > 0 => e <= d
      <4>1. SUFFICES ASSUME b > 0 PROVE e <= d
        OBVIOUS
      <4>2. b \in 1 .. b /\ b \in 1 .. ((n - a) + 1) /\ e \in 1 .. n
        BY <1>1, <2>1, <2>3, <4>1
      <4>3. t[b] = L[e] /\ LteMax(BoundIn(m, r, t[b]), r)
        BY <1>3, <2>3, <4>2
      <4>4. QED
        BY <3>1, <4>2, <4>3
    <3>3. b < Len(t) => e + 1 > d
      <4>1. SUFFICES ASSUME b < Len(t) PROVE e + 1 > d
        OBVIOUS
      <4>2. b + 1 \in 1 .. ((n - a) + 1) /\ e + 1 \in 1 .. n /\ (a + (b + 1)) - 1 = e + 1
        BY <1>1, <2>1, <2>3, <4>1
      <4>3. t[b + 1] = L[e + 1] /\ ~LteMax(BoundIn(m, r, t[b + 1]), r)
        BY <1>3, <2>3, <4>1, <4>2
      <4>4. ~(e + 1 <= d)
        BY <3>1, <4>2, <4>3
      <4>5. QED
        BY <1>1, <3>1, <4>2, <4>4
    <3>4. QED
      BY <1>1, <2>1, <2>3, <3>1, <3>2, <3>3
  <2> HIDE DEF e
  <2>7. EndOfRunUp(m, r, L, a, e)
    BY <2>4, <2>6 DEF EndOfRunUp, n
  <2>8. QED
    BY <2>3, <2>5, <2>7
<1>8. QED
  BY <1>6, <1>7


\* The places of L up to d, and no others, satisfy the condition of the run.
RunDownEnds(m, r, L, d) == d \in 0 .. Len(L) /\ \A j \in 1 .. Len(L) : GteMin(BoundIn(m, r, L[j]), r) <=> j <= d

EndOfRunDown(m, r, L, a, e) ==
    /\ e \in (a - 1) .. Len(L)
    /\ \A d : RunDownEnds(m, r, L, d) => e = IF a <= d THEN d ELSE a - 1

\* A run along a part of L up to its end.
LEMMA RunDownAlong ==
    ASSUME NEW m, NEW D, NEW L \in Seq(D), NEW r, NEW w, NEW a, SuffixOf(m, L, w, a)
    PROVE  \E e : RunDown(w, r, 1) = Paired(m, SubSeq(L, a, e)) /\ EndOfRunDown(m, r, L, a, e)
<1> DEFINE n == Len(L)
           t == SubSeq(L, a, n)
<1>1. n \in Nat /\ a \in 1 .. (n + 1) /\ w = Paired(m, t)
  BY DEF SuffixOf
<1>2. a \in Int /\ a >= 1 /\ n \in Int /\ n <= Len(L)
  BY <1>1
<1>3. /\ t \in Seq(D) /\ Len(t) = (IF a <= n THEN (n - a) + 1 ELSE 0)
      /\ \A i \in 1 .. ((n - a) + 1) : t[i] = L[(a + i) - 1]
  BY <1>2, SubSeqIs
<1>4. PairedFacts(m, t)
  <2> HIDE DEF t
  <2>1. QED
    BY <1>3, PairedIs
<1>5. DOMAIN w = 1 .. Len(t)
  BY <1>1, <1>4 DEF PairedFacts
<1> HIDE DEF t, n
<1>6. CASE a = n + 1
  <2>1. Len(t) = 0
    BY <1>1, <1>3, <1>6
  <2>2. RunDown(w, r, 1) = <<>>
    BY <1>5, <2>1 DEF RunDown, RunFrom
  <2>3. t = <<>>
    BY <1>2, <1>6, EmptySub DEF t, n
  <2>4. Paired(m, t) = <<>>
    BY <2>3, EmptyPaired
  <2>5. EndOfRunDown(m, r, L, a, n)
    <3>1. n \in (a - 1) .. n
      BY <1>1, <1>6
    <3>2. \A d : d \in 0 .. n => n = IF a <= d THEN d ELSE a - 1
      BY <1>1, <1>6
    <3>3. QED
      BY <3>1, <3>2 DEF EndOfRunDown, RunDownEnds, n
  <2>6. QED
    BY <2>2, <2>4, <2>5 DEF t
<1>7. CASE a # n + 1
  <2> DEFINE one == 1
  <2>1. Len(t) = (n - a) + 1 /\ one \in 1 .. Len(t)
    BY <1>1, <1>3, <1>7
  <2>2. PICK b : RunDownTo(m, t, r, one, b)
    <3> HIDE DEF one
    <3>1. QED
      BY <1>3, <2>1, RunDownIs
  <2>3. /\ RunDown(w, r, 1) = Paired(m, SubSeq(t, 1, b)) /\ b \in 0 .. Len(t)
        /\ \A j \in 1 .. b : GteMin(BoundIn(m, r, t[j]), r)
        /\ b < Len(t) => ~GteMin(BoundIn(m, r, t[b + 1]), r)
    BY <1>1, <2>2 DEF RunDownTo
  <2> DEFINE e == (a + b) - 1
  <2>4. e \in (a - 1) .. n /\ b \in Int /\ one \in Int /\ one >= 1 /\ one <= b + 1 /\ (a + b) - 1 <= n /\ (a + one) - 1 = a
    BY <1>1, <2>1, <2>3
  <2>5. SubSeq(t, 1, b) = SubSeq(L, a, e)
    <3> HIDE DEF one
    <3>1. SubSeq(SubSeq(L, a, n), one, b) = SubSeq(L, (a + one) - 1, (a + b) - 1)
      BY <1>2, <2>4, SubSub
    <3>2. QED
      BY <2>4, <3>1 DEF t, one
  <2>6. ASSUME NEW d, RunDownEnds(m, r, L, d) PROVE e = IF a <= d THEN d ELSE a - 1
    <3>1. d \in 0 .. n /\ \A j \in 1 .. n : GteMin(BoundIn(m, r, L[j]), r) <=> j <= d
      BY <2>6 DEF RunDownEnds, n
    <3>2. b > 0 => e <= d
      <4>1. SUFFICES ASSUME b > 0 PROVE e <= d
        OBVIOUS
      <4>2. b \in 1 .. b /\ b \in 1 .. ((n - a) + 1) /\ e \in 1 .. n
        BY <1>1, <2>1, <2>3, <4>1
      <4>3. t[b] = L[e] /\ GteMin(BoundIn(m, r, t[b]), r)
        BY <1>3, <2>3, <4>2
      <4>4. QED
        BY <3>1, <4>2, <4>3
    <3>3. b < Len(t) => e + 1 > d
      <4>1. SUFFICES ASSUME b < Len(t) PROVE e + 1 > d
        OBVIOUS
      <4>2. b + 1 \in 1 .. ((n - a) + 1) /\ e + 1 \in 1 .. n /\ (a + (b + 1)) - 1 = e + 1
        BY <1>1, <2>1, <2>3, <4>1
      <4>3. t[b + 1] = L[e + 1] /\ ~GteMin(BoundIn(m, r, t[b + 1]), r)
        BY <1>3, <2>3, <4>1, <4>2
      <4>4. ~(e + 1 <= d)
        BY <3>1, <4>2, <4>3
      <4>5. QED
        BY <1>1, <3>1, <4>2, <4>4
    <3>4. QED
      BY <1>1, <2>1, <2>3, <3>1, <3>2, <3>3
  <2> HIDE DEF e
  <2>7. EndOfRunDown(m, r, L, a, e)
    BY <2>4, <2>6 DEF EndOfRunDown, n
  <2>8. QED
    BY <2>3, <2>5, <2>7
<1>8. QED
  BY <1>6, <1>7


\* A part of L without its first members.
LEMMA SkippedPart ==
    ASSUME NEW D, NEW L \in Seq(D), NEW c \in 0 .. Len(L), NEW d \in 0 .. Len(L), NEW offset \in Nat,
           NEW a \in 1 .. (Len(L) + 1), StartsRight(c, d, offset, a), NEW e, e = IF a <= d THEN d ELSE a - 1
    PROVE  Skip(SubSeq(L, c + 1, d), offset) = SubSeq(L, a, e)
<1> DEFINE n == Len(L)
           g == c + 1
           t == SubSeq(L, g, d)
<1>1. n \in Nat /\ c \in 0 .. n /\ d \in 0 .. n /\ g \in Int /\ g >= 1 /\ d \in Int /\ d <= Len(L)
  OBVIOUS
<1>2. t \in Seq(D) /\ Len(t) = IF g <= d THEN (d - g) + 1 ELSE 0
  <2> HIDE DEF g
  <2>1. QED
    BY <1>1, SubSeqIs
<1>3. Skip(t, offset) = SubSeq(t, IF offset <= Len(t) THEN offset + 1 ELSE Len(t) + 1, Len(t))
  <2> HIDE DEF t
  <2>1. QED
    BY <1>2, SkipIs
<1>4. CASE c + offset < d
  <2> DEFINE f == offset + 1
             k == Len(t)
  <2>1. a = (c + offset) + 1 /\ e = d
    BY <1>1, <1>4 DEF StartsRight
  <2>2. k = d - c /\ offset <= k
    <3> HIDE DEF t
    <3>1. QED
      BY <1>1, <1>2, <1>4
  <2>3. Skip(t, offset) = SubSeq(t, f, k)
    <3> HIDE DEF t
    <3>1. QED
      BY <1>3, <2>2
  <2>4. f \in Int /\ k \in Int /\ f >= 1 /\ f <= k + 1 /\ (g + k) - 1 <= d /\ (g + k) - 1 = d /\ (g + f) - 1 = a
    BY <1>1, <1>4, <2>1, <2>2
  <2> HIDE DEF f, k, g
  <2>5. SubSeq(SubSeq(L, g, d), f, k) = SubSeq(L, (g + f) - 1, (g + k) - 1)
    BY <1>1, <2>4, SubSub
  <2>6. Skip(t, offset) = SubSeq(L, a, e)
    BY <2>1, <2>3, <2>4, <2>5
  <2>7. QED
    BY <2>6 DEF g
<1>5. CASE ~(c + offset < d)
  <2>1. a > d /\ e = a - 1 /\ a \in Int /\ a >= 1 /\ e \in Int /\ e <= Len(L) /\ a > e
    BY <1>1, <1>5 DEF StartsRight
  <2>2. SubSeq(L, a, e) = <<>>
    BY <2>1, EmptySub
  <2>3. offset >= Len(t)
    <3> HIDE DEF t
    <3>1. QED
      BY <1>1, <1>2, <1>5
  <2>4. Skip(t, offset) = <<>>
    BY <2>3 DEF Skip
  <2>5. QED
    BY <2>2, <2>4
<1>6. QED
  BY <1>4, <1>5

\* The walk of rl_zrange_byscore and rl_zrange_bylex before its limit.
WalkRange(z, r, offset, reverse) ==
    RunFrom(RangeStart(z, r, offset, reverse), 1,
            LAMBDA e : IF reverse THEN GteMin(LpBound(e, r), r) ELSE LteMax(LpBound(e, r), r))

WalksTo(w, m, r, offset, listed, keys) ==
    keys \in Seq(DOMAIN m) /\ w = Paired(m, keys) /\ (Meant(m, r) => keys = Skip(listed, offset))

\* Its parts.
LEMMA WalkRangeParts ==
    ASSUME NEW z, NEW r, NEW offset, NEW limit
    PROVE  /\ WalkRange(z, r, offset, FALSE) = RunUp(RangeStart(z, r, offset, FALSE), r, 1)
           /\ WalkRange(z, r, offset, TRUE) = RunDown(RangeStart(z, r, offset, TRUE), r, 1)
           /\ \A reverse \in BOOLEAN :
                 zrangebyscore(z, r, offset, limit, reverse)
                     = IF offset < 0 \/ (offset > 0 /\ offset >= zsetLength(z)) THEN <<>>
                       ELSE IF limit < 0 THEN WalkRange(z, r, offset, reverse)
                            ELSE Take(WalkRange(z, r, offset, reverse), limit)
<1>1. WalkRange(z, r, offset, FALSE) = RunUp(RangeStart(z, r, offset, FALSE), r, 1)
  BY DEF WalkRange, RunUp
<1>2. WalkRange(z, r, offset, TRUE) = RunDown(RangeStart(z, r, offset, TRUE), r, 1)
  BY DEF WalkRange, RunDown
<1>3. ASSUME NEW reverse \in BOOLEAN
      PROVE  zrangebyscore(z, r, offset, limit, reverse)
                 = IF offset < 0 \/ (offset > 0 /\ offset >= zsetLength(z)) THEN <<>>
                   ELSE IF limit < 0 THEN WalkRange(z, r, offset, reverse)
                        ELSE Take(WalkRange(z, r, offset, reverse), limit)
  BY DEF zrangebyscore, WalkRange
<1>4. QED
  BY <1>1, <1>2, <1>3

\* Forward.
LEMMA WalkForward ==
    ASSUME NEW z, NEW m, NEW p, Good(z, m, p), NEW r \in RangeRec, NEW offset \in Nat
    PROVE  \E keys : WalksTo(WalkRange(z, r, offset, FALSE), m, r, offset, ListedIn(m, r, FALSE), keys)
<1> DEFINE L == Sorted(m)
           n == Len(L)
           rev == FALSE
           w == RangeStart(z, r, offset, rev)
<1>1. GoodMap(m) /\ MapFacts(m)
  BY GoodCases
<1>2. L \in Seq(DOMAIN m) /\ n \in Nat
  BY <1>1 DEF MapFacts
<1>3. PICK a : SuffixOf(m, L, w, a) /\ \A lo, hi : MapCut(m, r, lo, hi) => StartsRight(lo, hi, offset, a)
  <2>1. rev = FALSE
    OBVIOUS
  <2> HIDE DEF rev
  <2>2. QED
    BY <2>1, ForwardStart
<1> HIDE DEF w, L
<1>4. PICK e : RunUp(w, r, 1) = Paired(m, SubSeq(L, a, e)) /\ EndOfRunUp(m, r, L, a, e)
  BY <1>2, <1>3, RunUpAlong
<1>5. a \in 1 .. (n + 1) /\ e \in (a - 1) .. n
  BY <1>3, <1>4 DEF SuffixOf, EndOfRunUp
<1>6. a \in Int /\ e \in Int /\ a >= 1 /\ e <= Len(L)
  BY <1>2, <1>5
<1>7. SubSeq(L, a, e) \in Seq(DOMAIN m)
  BY <1>2, <1>6, SubSeqIs
<1>8. Meant(m, r) => SubSeq(L, a, e) = Skip(ListedIn(m, r, FALSE), offset)
  <2>1. SUFFICES ASSUME Meant(m, r) PROVE SubSeq(L, a, e) = Skip(ListedIn(m, r, FALSE), offset)
    OBVIOUS
  <2>2. PICK lo, hi : MapCut(m, r, lo, hi)
    BY <1>1, <2>1, CutExists
  <2>3. ListedIn(m, r, FALSE) = SubSeq(L, lo + 1, hi)
    BY <1>1, <2>2, CutListed DEF L
  <2>4. lo \in 0 .. Len(L) /\ hi \in 0 .. Len(L) /\ RunUpEnds(m, r, L, hi)
    BY <2>2 DEF MapCut, RunUpEnds, L
  <2>5. StartsRight(lo, hi, offset, a) /\ e = IF a <= hi THEN hi ELSE a - 1
    BY <1>3, <1>4, <2>2, <2>4 DEF EndOfRunUp
  <2>6. a \in 1 .. (Len(L) + 1)
    BY <1>5
  <2>7. Skip(SubSeq(L, lo + 1, hi), offset) = SubSeq(L, a, e)
    <3> HIDE DEF n
    <3>1. QED
      BY <1>2, <2>4, <2>5, <2>6, SkippedPart
  <2>8. QED
    BY <2>3, <2>7
<1>9. WalkRange(z, r, offset, FALSE) = RunUp(w, r, 1)
  BY WalkRangeParts DEF w
<1>10. WalksTo(WalkRange(z, r, offset, FALSE), m, r, offset, ListedIn(m, r, FALSE), SubSeq(L, a, e))
  BY <1>4, <1>7, <1>8, <1>9 DEF WalksTo
<1>11. QED
  BY <1>10

\* Backward.
LEMMA WalkBackward ==
    ASSUME NEW z, NEW m, NEW p, Good(z, m, p), NEW r \in RangeRec, NEW offset \in Nat
    PROVE  \E keys : WalksTo(WalkRange(z, r, offset, TRUE), m, r, offset, ListedIn(m, r, TRUE), keys)
<1> DEFINE ord == Sorted(m)
           n == Len(ord)
           L == Reverse(ord)
           rev == TRUE
           w == RangeStart(z, r, offset, rev)
<1>1. GoodMap(m) /\ MapFacts(m)
  BY GoodCases
<1>2. ord \in Seq(DOMAIN m) /\ n \in Nat
  BY <1>1 DEF MapFacts
<1>3. L \in Seq(DOMAIN m) /\ Len(L) = n /\ \A i \in 1 .. n : L[i] = ord[(n - i) + 1]
  <2> HIDE DEF ord
  <2>1. QED
    BY <1>2, ReverseIs
<1>4. PICK a : /\ SuffixOf(m, L, w, a)
               /\ \A lo, hi : MapCut(m, r, lo, hi) => StartsRight(n - hi, n - lo, offset, a)
  <2>1. rev = TRUE
    OBVIOUS
  <2> HIDE DEF rev
  <2>2. QED
    BY <2>1, BackwardStart
<1> HIDE DEF w, L, ord
<1>5. PICK e : RunDown(w, r, 1) = Paired(m, SubSeq(L, a, e)) /\ EndOfRunDown(m, r, L, a, e)
  BY <1>3, <1>4, RunDownAlong
<1>6. a \in 1 .. (n + 1) /\ e \in (a - 1) .. n
  BY <1>3, <1>4, <1>5 DEF SuffixOf, EndOfRunDown
<1>7. a \in Int /\ e \in Int /\ a >= 1 /\ e <= Len(L)
  BY <1>2, <1>3, <1>6
<1>8. SubSeq(L, a, e) \in Seq(DOMAIN m)
  BY <1>3, <1>7, SubSeqIs
<1>9. Meant(m, r) => SubSeq(L, a, e) = Skip(ListedIn(m, r, TRUE), offset)
  <2>1. SUFFICES ASSUME Meant(m, r) PROVE SubSeq(L, a, e) = Skip(ListedIn(m, r, TRUE), offset)
    OBVIOUS
  <2>2. PICK lo, hi : MapCut(m, r, lo, hi)
    BY <1>1, <2>1, CutExists
  <2> DEFINE f == lo + 1
             c == n - hi
             d == n - lo
  <2>3. ListedIn(m, r, TRUE) = Reverse(SubSeq(ord, f, hi))
    BY <1>1, <2>2, CutListed DEF ord
  <2>4. lo \in 0 .. n /\ hi \in 0 .. n /\ \A b \in 1 .. n : GteMin(BoundIn(m, r, ord[b]), r) <=> b > lo
    BY <2>2 DEF MapCut, ord
  <2>5. f \in Int /\ hi \in Int /\ f >= 1 /\ hi <= Len(ord) /\ (n - f) + 1 = d
    BY <1>2, <2>4
  <2>6. Reverse(SubSeq(ord, f, hi)) = SubSeq(L, c + 1, d)
    <3> HIDE DEF f
    <3>1. Reverse(SubSeq(ord, f, hi)) = SubSeq(Reverse(ord), (Len(ord) - hi) + 1, (Len(ord) - f) + 1)
      BY <1>2, <2>5, ReverseSub
    <3>2. QED
      BY <2>5, <3>1 DEF L
  <2>7. c \in 0 .. Len(L) /\ d \in 0 .. Len(L)
    BY <1>2, <1>3, <2>4
  <2>8. RunDownEnds(m, r, L, d)
    <3>1. ASSUME NEW j \in 1 .. n PROVE GteMin(BoundIn(m, r, L[j]), r) <=> j <= d
      <4>1. (n - j) + 1 \in 1 .. n
        BY <1>2
      <4>2. GteMin(BoundIn(m, r, L[j]), r) <=> (n - j) + 1 > lo
        BY <1>3, <2>4, <4>1
      <4>3. QED
        BY <1>2, <2>4, <4>2
    <3>2. QED
      BY <1>3, <2>7, <3>1 DEF RunDownEnds
  <2>9. StartsRight(c, d, offset, a)
    BY <1>4, <2>2
  <2>10. a \in 1 .. (Len(L) + 1)
    BY <1>3, <1>6
  <2> HIDE DEF c, d
  <2>11. e = IF a <= d THEN d ELSE a - 1
    BY <1>5, <2>8 DEF EndOfRunDown
  <2>12. Skip(SubSeq(L, c + 1, d), offset) = SubSeq(L, a, e)
    BY <1>3, <2>7, <2>9, <2>10, <2>11, SkippedPart
  <2>13. QED
    BY <2>3, <2>6, <2>12
<1>10. WalkRange(z, r, offset, TRUE) = RunDown(w, r, 1)
  BY WalkRangeParts DEF w
<1>11. WalksTo(WalkRange(z, r, offset, TRUE), m, r, offset, ListedIn(m, r, TRUE), SubSeq(L, a, e))
  BY <1>5, <1>8, <1>9, <1>10 DEF WalksTo
<1>12. QED
  BY <1>11

\* What a range query returns: entries of members, those of the range if it is meant.
RangesTo(w, m, r, offset, limit, reverse, keys) ==
    /\ keys \in Seq(DOMAIN m) /\ w = Paired(m, keys)
    /\ Meant(m, r) => keys = Limited(ListedIn(m, r, reverse), offset, limit)

\* zrangebyscore, zrangebylex and their reverse forms.
LEMMA ZrangebyscoreIs ==
    ASSUME NEW z, NEW m, NEW p, Good(z, m, p), NEW r \in RangeRec, NEW offset \in Int, NEW limit \in Int,
           NEW reverse \in BOOLEAN
    PROVE  \E keys : RangesTo(zrangebyscore(z, r, offset, limit, reverse), m, r, offset, limit, reverse, keys)
<1> DEFINE w == zrangebyscore(z, r, offset, limit, reverse)
           v == WalkRange(z, r, offset, reverse)
           n == Len(Sorted(m))
<1>1. w = IF offset < 0 \/ (offset > 0 /\ offset >= zsetLength(z)) THEN <<>>
          ELSE IF limit < 0 THEN v ELSE Take(v, limit)
  BY WalkRangeParts
<1>2. GoodMap(m) /\ MapFacts(m)
  BY GoodCases
<1>3. Paired(m, <<>>) = <<>> /\ <<>> \in Seq(DOMAIN m)
  BY EmptyPaired
<1>4. CASE offset < 0
  <2>1. w = <<>> /\ Limited(ListedIn(m, r, reverse), offset, limit) = <<>>
    BY <1>1, <1>4 DEF Limited
  <2>2. RangesTo(w, m, r, offset, limit, reverse, <<>>)
    BY <1>3, <2>1 DEF RangesTo
  <2>3. QED
    BY <2>2
<1>5. CASE ~(offset < 0)
  <2>1. offset \in Nat
    BY <1>5
  <2>2. PICK keys : WalksTo(v, m, r, offset, ListedIn(m, r, reverse), keys)
    <3>1. CASE reverse = TRUE
      <4>1. \E keys : WalksTo(WalkRange(z, r, offset, TRUE), m, r, offset, ListedIn(m, r, TRUE), keys)
        BY <2>1, WalkBackward
      <4>2. QED
        BY <3>1, <4>1
    <3>2. CASE reverse = FALSE
      <4>1. \E keys : WalksTo(WalkRange(z, r, offset, FALSE), m, r, offset, ListedIn(m, r, FALSE), keys)
        BY <2>1, WalkForward
      <4>2. QED
        BY <3>2, <4>1
    <3>3. QED
      BY <3>1, <3>2
  <2>3. keys \in Seq(DOMAIN m) /\ v = Paired(m, keys) /\ (Meant(m, r) => keys = Skip(ListedIn(m, r, reverse), offset))
    BY <2>2 DEF WalksTo
  <2>4. Limited(ListedIn(m, r, reverse), offset, limit)
            = IF limit < 0 THEN Skip(ListedIn(m, r, reverse), offset)
              ELSE Take(Skip(ListedIn(m, r, reverse), offset), limit)
    BY <1>5 DEF Limited
  <2> HIDE DEF v, w
  <2>5. CASE offset > 0 /\ offset >= zsetLength(z)
    <3>1. w = <<>>
      BY <1>1, <2>5
    <3>2. Meant(m, r) => Limited(ListedIn(m, r, reverse), offset, limit) = <<>>
      <4>1. SUFFICES ASSUME Meant(m, r) PROVE Limited(ListedIn(m, r, reverse), offset, limit) = <<>>
        OBVIOUS
      <4>2. zsetLength(z) = n /\ n \in Nat /\ Sorted(m) \in Seq(DOMAIN m)
        BY <1>2, WalkOf DEF MapFacts
      <4>3. PICK lo, hi : MapCut(m, r, lo, hi)
        BY <1>2, <4>1, CutExists
      <4> DEFINE f == lo + 1
                 t == SubSeq(Sorted(m), f, hi)
      <4>4. lo \in 0 .. n /\ hi \in 0 .. n
        BY <4>3 DEF MapCut
      <4>5. f \in Int /\ hi \in Int /\ f >= 1 /\ hi <= Len(Sorted(m))
        BY <4>2, <4>4
      <4>6. t \in Seq(DOMAIN m) /\ Len(t) = IF f <= hi THEN (hi - f) + 1 ELSE 0
        <5> HIDE DEF f
        <5>1. QED
          BY <4>2, <4>5, SubSeqIs
      <4>7. Len(t) <= n /\ Len(t) \in Nat
        <5> HIDE DEF t, n
        <5>1. QED
          BY <4>2, <4>4, <4>6
      <4>8. ListedIn(m, r, reverse) = t \/ ListedIn(m, r, reverse) = Reverse(t)
        <5>1. ListedIn(m, r, FALSE) = t /\ ListedIn(m, r, TRUE) = Reverse(t)
          BY <1>2, <4>3, CutListed
        <5>2. QED
          BY <5>1
      <4> HIDE DEF t
      <4>9. Len(Reverse(t)) = Len(t)
        BY <4>6, ReverseIs
      <4>10. Len(ListedIn(m, r, reverse)) <= offset
        BY <2>5, <4>2, <4>7, <4>8, <4>9
      <4>11. Skip(ListedIn(m, r, reverse), offset) = <<>>
        BY <4>10 DEF Skip
      <4>12. CASE limit < 0
        BY <2>4, <4>11, <4>12
      <4>13. CASE ~(limit < 0)
        <5> DEFINE E == <<>>
        <5>1. E \in Seq(DOMAIN m) /\ limit \in Nat /\ Len(E) = 0
          BY <4>13
        <5>2. Take(E, limit) = <<>>
          <6> HIDE DEF E
          <6>1. Take(E, limit) \in Seq(DOMAIN m) /\ Len(Take(E, limit)) = IF limit <= Len(E) THEN limit ELSE Len(E)
            BY <5>1, TakeIs
          <6> DEFINE g == Take(E, limit)
          <6>2. g \in Seq(DOMAIN m) /\ Len(g) = 0
            BY <5>1, <6>1
          <6> HIDE DEF g
          <6>3. g = <<>>
            BY <6>2
          <6>4. QED
            BY <6>3 DEF g
        <5>3. QED
          BY <2>4, <4>11, <4>13, <5>2
      <4>14. QED
        BY <4>12, <4>13
    <3>3. RangesTo(w, m, r, offset, limit, reverse, <<>>)
      BY <1>3, <3>1, <3>2 DEF RangesTo
    <3>4. QED
      BY <3>3 DEF w
  <2>6. CASE ~(offset > 0 /\ offset >= zsetLength(z)) /\ limit < 0
    <3>1. w = v
      BY <1>1, <1>5, <2>6
    <3>2. RangesTo(w, m, r, offset, limit, reverse, keys)
      BY <2>3, <2>4, <2>6, <3>1 DEF RangesTo
    <3>3. QED
      BY <3>2 DEF w
  <2>7. CASE ~(offset > 0 /\ offset >= zsetLength(z)) /\ ~(limit < 0)
    <3>1. w = Take(v, limit) /\ limit \in Nat
      BY <1>1, <1>5, <2>7
    <3>2. Take(Paired(m, keys), limit) = Paired(m, Take(keys, limit)) /\ Take(keys, limit) \in Seq(DOMAIN m)
      BY <2>3, <3>1, TakePaired
    <3>3. RangesTo(w, m, r, offset, limit, reverse, Take(keys, limit))
      BY <2>3, <2>4, <2>7, <3>1, <3>2 DEF RangesTo
    <3>4. QED
      BY <3>3 DEF w
  <2>8. QED
    BY <2>5, <2>6, <2>7
<1>6. QED
  BY <1>4, <1>5

-----------------------------------------------------------------------------
(* Ranks. *)

\* A bound of a rank range, from the end when it is negative, and the places between two.
FromEnd(n, i) == IF i < 0 THEN n + i ELSE i
PlacesOf(n, span) == {i \in 0 .. (n - 1) : FromEnd(n, span[1]) <= i /\ i <= FromEnd(n, span[2])}

\* What the sanitized bounds of a range are.
Bounds(n, b) ==
    /\ b[1] \in Nat /\ b[2] \in Int /\ b[1] <= n /\ b[2] < n
    /\ b[2] < b[1] => b[1] = 0 /\ b[2] = -1

\* Sanitize gives the places of the range.
LEMMA SanitizeIs ==
    ASSUME NEW n \in Nat, NEW span \in Int \X Int
    PROVE  /\ Bounds(n, Sanitize(n, span[1], span[2]))
           /\ PlacesOf(n, span) = Sanitize(n, span[1], span[2])[1] .. Sanitize(n, span[1], span[2])[2]
<1> DEFINE s == FromEnd(n, span[1])
           e == FromEnd(n, span[2])
           lo == Max({0, s})
           hi == Min({e, n - 1})
           b == Sanitize(n, span[1], span[2])
           zero == 0
           last == n - 1
<1>1. s \in Int /\ e \in Int /\ zero \in Int /\ last \in Int
  BY DEF FromEnd
<1>2. lo = IF 0 >= s THEN 0 ELSE s
  <2> HIDE DEF s, zero
  <2>1. Max({zero, s}) = IF zero >= s THEN zero ELSE s
    BY <1>1, OfTwo
  <2>2. QED
    BY <2>1 DEF zero
<1>3. hi = IF e <= n - 1 THEN e ELSE n - 1
  <2> HIDE DEF e, last
  <2>1. Min({e, last}) = IF e <= last THEN e ELSE last
    BY <1>1, OfTwo
  <2>2. QED
    BY <2>1 DEF last
<1>4. b = IF lo > e \/ lo >= n THEN <<0, -1>> ELSE <<lo, hi>>
  BY DEF Sanitize, FromEnd
<1>5. PlacesOf(n, span) = {i \in 0 .. (n - 1) : s <= i /\ i <= e}
  BY DEF PlacesOf
<1> HIDE DEF s, e, lo, hi, b
<1>6. CASE lo > e \/ lo >= n
  <2>1. b[1] = 0 /\ b[2] = -1
    BY <1>4, <1>6
  <2>2. PlacesOf(n, span) = {}
    BY <1>1, <1>2, <1>5, <1>6
  <2>3. b[1] .. b[2] = {}
    BY <2>1
  <2>4. QED
    BY <2>1, <2>2, <2>3 DEF Bounds, b
<1>7. CASE ~(lo > e \/ lo >= n)
  <2>1. b[1] = lo /\ b[2] = hi
    BY <1>4, <1>7
  <2>2. lo \in Nat /\ hi \in Int /\ lo <= hi /\ hi < n /\ lo <= n
    BY <1>1, <1>2, <1>3, <1>7
  <2>3. PlacesOf(n, span) = lo .. hi
    <3>1. \A i \in 0 .. (n - 1) : s <= i /\ i <= e <=> i \in lo .. hi
      BY <1>1, <1>2, <1>3, <1>7
    <3>2. \A i \in lo .. hi : i \in 0 .. (n - 1)
      BY <2>2
    <3>3. QED
      BY <1>5, <3>1, <3>2
  <2>4. QED
    BY <2>1, <2>2, <2>3 DEF Bounds, b
<1>8. QED
  BY <1>6, <1>7

\* The members at some places of a list.
LEMMA ListedAtIs ==
    ASSUME NEW m, GoodMap(m), NEW n, n = Len(Sorted(m)), NEW span, NEW b, Bounds(n, b),
           PlacesOf(n, span) = b[1] .. b[2], NEW reverse \in BOOLEAN
    PROVE  ListedAt(m, span, reverse) = SubSeq(Listed(m, reverse), b[1] + 1, b[2] + 1)
<1> DEFINE ord == Sorted(m)
           L == Listed(m, reverse)
           lo == b[1]
           hi == b[2]
           K == {L[i + 1] : i \in lo .. hi}
<1>1. MapFacts(m)
  BY MapIs
<1>2. ord \in Seq(DOMAIN m) /\ n \in Nat /\ Cardinality(DOMAIN m) = n
  BY <1>1 DEF MapFacts
<1>3. lo \in Nat /\ hi \in Int /\ lo <= n /\ hi < n
  BY DEF Bounds
<1>4. ListedAt(m, span, reverse) = Listed(Only(m, K), reverse)
  <2>1. ListedAt(m, span, reverse) = Listed(Only(m, {L[i + 1] : i \in PlacesOf(n, span)}), reverse)
    BY <1>2 DEF ListedAt, PlacesOf, FromEnd
  <2>2. QED
    BY <2>1
<1>5. /\ Len(L) = n
      /\ \A i \in 1 .. n : L[i] = ord[IF reverse THEN (n - i) + 1 ELSE i]
  BY ListedIs
<1>6. \A i \in lo .. hi : i + 1 \in 1 .. n
  BY <1>2, <1>3
<1>7. CASE reverse = FALSE
  <2> DEFINE c == lo + 1
             d == hi + 1
  <2>1. L = ord
    BY <1>7 DEF Listed
  <2>2. c \in Int /\ d \in Int /\ c >= 1 /\ d <= Len(ord)
    BY <1>2, <1>3
  <2> HIDE DEF L, ord, lo, hi
  <2>3. K = Between(ord, c, d)
    <3>1. \A x \in K : x \in Between(ord, c, d)
      <4> SUFFICES ASSUME NEW i \in lo .. hi PROVE L[i + 1] \in Between(ord, c, d)
        OBVIOUS
      <4>1. i + 1 \in c .. d
        BY <1>3
      <4>2. QED
        BY <2>1, <4>1 DEF Between
    <3>2. \A x \in Between(ord, c, d) : x \in K
      <4> SUFFICES ASSUME NEW i \in c .. d PROVE ord[i] \in K
        BY DEF Between
      <4>1. i - 1 \in lo .. hi /\ (i - 1) + 1 = i
        BY <1>3
      <4>2. L[(i - 1) + 1] \in K
        BY <4>1
      <4>3. QED
        BY <2>1, <4>1, <4>2
    <3> HIDE DEF K
    <3>3. QED
      BY <3>1, <3>2
  <2> HIDE DEF c, d, K
  <2>4. Sorted(Only(m, Between(ord, c, d))) = SubSeq(ord, c, d)
    BY <2>2, SubOrder DEF ord
  <2>5. Listed(Only(m, K), reverse) = Sorted(Only(m, K))
    BY <1>7 DEF Listed
  <2>6. ListedAt(m, span, reverse) = SubSeq(L, c, d)
    BY <1>4, <2>1, <2>3, <2>4, <2>5
  <2>7. QED
    BY <2>6 DEF c, d, lo, hi, L
<1>8. CASE reverse = TRUE
  <2> DEFINE c == n - hi
             d == n - lo
  <2>1. L = Reverse(ord)
    BY <1>8 DEF Listed
  <2>2. \A i \in 1 .. n : L[i] = ord[(n - i) + 1]
    BY <1>5, <1>8
  <2>3. c \in Int /\ d \in Int /\ c >= 1 /\ d <= Len(ord) /\ (n - d) + 1 = lo + 1 /\ (n - c) + 1 = hi + 1
    BY <1>2, <1>3
  <2> HIDE DEF L, ord, lo, hi
  <2>4. K = Between(ord, c, d)
    <3>1. \A x \in K : x \in Between(ord, c, d)
      <4> SUFFICES ASSUME NEW i \in lo .. hi PROVE L[i + 1] \in Between(ord, c, d)
        OBVIOUS
      <4>1. n - i \in c .. d /\ (n - (i + 1)) + 1 = n - i
        BY <1>2, <1>3
      <4>2. L[i + 1] = ord[n - i]
        BY <1>6, <2>2, <4>1
      <4>3. QED
        BY <4>1, <4>2 DEF Between
    <3>2. \A x \in Between(ord, c, d) : x \in K
      <4> SUFFICES ASSUME NEW i \in c .. d PROVE ord[i] \in K
        BY DEF Between
      <4>1. n - i \in lo .. hi /\ (n - ((n - i) + 1)) + 1 = i
        BY <1>2, <1>3
      <4>2. L[(n - i) + 1] \in K
        BY <4>1
      <4>3. L[(n - i) + 1] = ord[i]
        BY <1>6, <2>2, <4>1
      <4>4. QED
        BY <4>2, <4>3
    <3> HIDE DEF K
    <3>3. QED
      BY <3>1, <3>2
  <2> HIDE DEF c, d, K
  <2>5. Sorted(Only(m, Between(ord, c, d))) = SubSeq(ord, c, d)
    BY <2>3, SubOrder DEF ord
  <2>6. Listed(Only(m, K), reverse) = Reverse(Sorted(Only(m, K)))
    BY <1>8 DEF Listed
  <2>7. Reverse(SubSeq(ord, c, d)) = SubSeq(Reverse(ord), (Len(ord) - d) + 1, (Len(ord) - c) + 1)
    BY <1>2, <2>3, ReverseSub
  <2>8. Len(ord) = n
    BY DEF ord
  <2>9. ListedAt(m, span, reverse) = SubSeq(L, lo + 1, hi + 1)
    BY <1>4, <2>1, <2>3, <2>4, <2>5, <2>6, <2>7, <2>8
  <2>10. QED
    BY <2>9 DEF lo, hi, L
<1>9. QED
  BY <1>7, <1>8

\* zslGetElementByRank of a sound object.
LEMMA ElementIs ==
    ASSUME NEW z, NEW m, NEW p, IsSkiplist(z, m, p), NEW a \in 1 .. Len(Sorted(m))
    PROVE  zslGetElementByRank(z.zsl, a) = Sorted(m)[a] /\ zslGetRankByNode(z.zsl, Sorted(m)[a]) = a
<1> DEFINE l == z.zsl
<1>1. GoodList(l, Sorted(m)) /\ l.score = m
  BY DEF IsSkiplist
<1> HIDE DEF l
<1>2. ZslSound(l)
  BY <1>1 DEF ZslSound
<1>3. a \in 1 .. Len(Sorted(l.score))
  BY <1>1
<1>4. zslGetElementByRank(l, a) = Sorted(l.score)[a] /\ zslGetRankByNode(l, Sorted(l.score)[a]) = a
  BY <1>2, <1>3, ZslRankIs
<1>5. QED
  BY <1>1, <1>4 DEF l

\* rl_collect_range by rank.
LEMMA CollectRankIs ==
    ASSUME NEW z, NEW m, NEW p, Good(z, m, p), NEW b, Bounds(Len(Sorted(m)), b)
    PROVE  /\ CollectRank(z, b[1], b[2]) = Paired(m, SubSeq(Sorted(m), b[1] + 1, b[2] + 1))
           /\ SubSeq(Sorted(m), b[1] + 1, b[2] + 1) \in Seq(DOMAIN m)
<1> DEFINE ord == Sorted(m)
           n == Len(ord)
           c == b[1] + 1
           d == b[2] + 1
<1>1. GoodMap(m) /\ MapFacts(m) /\ (IsListpack(z, m, p) \/ IsSkiplist(z, m, p)) /\ Walk(z) = Paired(m, ord)
  BY GoodCases, WalkOf
<1>2. ord \in Seq(DOMAIN m) /\ n \in Nat
  BY <1>1 DEF MapFacts
<1>3. b[1] \in Nat /\ b[2] \in Int /\ b[2] < n
  BY DEF Bounds
<1>4. c \in Int /\ d \in Int /\ c >= 1 /\ d <= Len(ord)
  BY <1>2, <1>3
<1>5. SubSeq(ord, c, d) \in Seq(DOMAIN m)
  <2> HIDE DEF c, d, ord
  <2>1. QED
    BY <1>2, <1>4, SubSeqIs
<1>6. CASE b[2] < b[1]
  <2>1. CollectRank(z, b[1], b[2]) = <<>>
    BY <1>6 DEF CollectRank
  <2>2. c > d
    BY <1>3, <1>6
  <2> HIDE DEF c, d, ord
  <2>3. SubSeq(ord, c, d) = <<>>
    BY <1>2, <1>4, <2>2, EmptySub
  <2>4. Paired(m, SubSeq(ord, c, d)) = <<>>
    BY <2>3, EmptyPaired
  <2>5. QED
    BY <1>5, <2>1, <2>4 DEF c, d, ord
<1>7. CASE ~(b[2] < b[1])
  <2> DEFINE f == IF z.encoding = "listpack" THEN b[1] + 1
                  ELSE PlaceOf(Walk(z), zslGetElementByRank(z.zsl, b[1] + 1))
  <2>1. CollectRank(z, b[1], b[2]) = SubSeq(Paired(m, ord), f, d)
    BY <1>1, <1>7 DEF CollectRank
  <2>2. f = c
    <3>1. CASE IsListpack(z, m, p)
      BY <3>1 DEF IsListpack
    <3>2. CASE IsSkiplist(z, m, p)
      <4>1. f = PlaceOf(Paired(m, ord), zslGetElementByRank(z.zsl, c))
        BY <1>1, <3>2 DEF IsSkiplist
      <4>2. c \in 1 .. Len(ord)
        BY <1>2, <1>3, <1>7
      <4> HIDE DEF c, f
      <4>3. zslGetElementByRank(z.zsl, c) = ord[c]
        BY <3>2, <4>2, ElementIs
      <4> DEFINE x == ord[c]
      <4>4. PlaceIn(ord, x) = c
        BY <1>1, <4>2, PlaceOfMember
      <4> HIDE DEF x, ord
      <4>5. PlaceOf(Paired(m, ord), x) = PlaceIn(ord, x)
        BY <1>2, FindIs
      <4>6. QED
        BY <4>1, <4>3, <4>4, <4>5 DEF x
    <3>3. QED
      BY <1>1, <3>1, <3>2
  <2> HIDE DEF c, d, f, ord
  <2>3. PartOf(m, ord, c, d)
    BY <1>2, <1>4, PairedSub
  <2>4. QED
    BY <1>5, <2>1, <2>2, <2>3 DEF PartOf, c, d, ord
<1>8. QED
  BY <1>6, <1>7

\* Where a rank range starts: an object's entries from a place on.
RankWalk(z, start, reverse) ==
    IF z.encoding = "skiplist" THEN Along(z.zsl, RankStart(z.zsl, start, reverse), reverse)
    ELSE Skip(IF reverse THEN Reverse(z.lp) ELSE z.lp, start)

\* They are.
LEMMA RankWalkIs ==
    ASSUME NEW z, NEW m, NEW p, Good(z, m, p), NEW start \in 0 .. (Len(Sorted(m)) - 1), NEW reverse \in BOOLEAN
    PROVE  RankWalk(z, start, reverse) = Paired(m, SubSeq(Listed(m, reverse), start + 1, Len(Sorted(m))))
<1> DEFINE ord == Sorted(m)
           n == Len(ord)
           L == Listed(m, reverse)
           w == RankWalk(z, start, reverse)
<1>1. GoodMap(m) /\ MapFacts(m) /\ (IsListpack(z, m, p) \/ IsSkiplist(z, m, p))
  BY GoodCases
<1>2. ord \in Seq(DOMAIN m) /\ n \in Nat /\ n > 0 /\ start \in Nat /\ start < n
  BY <1>1 DEF MapFacts
<1>3. L \in Seq(DOMAIN m) /\ Len(L) = n
  BY <1>1, ListedIs
<1>4. CASE IsListpack(z, m, p)
  <2>1. z.encoding # "skiplist" /\ z.lp = Paired(m, ord)
    BY <1>4 DEF IsListpack
  <2>2. Reverse(Paired(m, ord)) = Paired(m, Reverse(ord))
    <3> HIDE DEF ord
    <3>1. QED
      BY <1>2, PairedReverse
  <2>3. w = Skip(Paired(m, L), start)
    BY <2>1, <2>2 DEF RankWalk, Listed
  <2> HIDE DEF L, w, n
  <2>4. Skip(Paired(m, L), start) = Paired(m, Skip(L, start))
    BY <1>2, <1>3, SkipPaired
  <2>5. Skip(L, start) = SubSeq(L, IF start <= Len(L) THEN start + 1 ELSE Len(L) + 1, Len(L))
    BY <1>2, <1>3, SkipIs
  <2>6. Skip(L, start) = SubSeq(L, start + 1, n)
    BY <1>2, <1>3, <2>5
  <2>7. QED
    BY <2>3, <2>4, <2>6 DEF w, L, n
<1>5. CASE IsSkiplist(z, m, p)
  <2> DEFINE l == z.zsl
  <2>1. z.encoding = "skiplist" /\ GoodList(l, ord) /\ l.score = m /\ l.length = n
    BY <1>5 DEF IsSkiplist, GoodList, GoodParts
  <2>2. w = Along(l, RankStart(l, start, reverse), reverse)
    BY <2>1 DEF RankWalk
  <2>3. CASE reverse = FALSE
    <3> DEFINE a == start + 1
    <3>1. a \in 1 .. (Len(ord) + 1) /\ a \in 1 .. Len(ord) /\ a # 0
      BY <1>2
    <3>2. RankStart(l, start, reverse) = NodeAt(ord, a)
      <4>1. NodeAt(ord, a) = ord[a]
        <5> HIDE DEF a, ord
        <5>1. QED
          BY <1>2, <3>1 DEF NodeAt
      <4>2. CASE start > 0
        <5>1. RankStart(l, start, reverse) = zslGetElementByRank(l, a)
          BY <2>3, <4>2 DEF RankStart
        <5> HIDE DEF a
        <5>2. zslGetElementByRank(z.zsl, a) = ord[a]
          BY <1>5, <3>1, ElementIs
        <5>3. QED
          BY <4>1, <5>1, <5>2
      <4>3. CASE ~(start > 0)
        <5>1. RankStart(l, start, reverse) = l.forward[HEAD][0] /\ a = 1
          BY <1>2, <2>3, <4>3 DEF RankStart
        <5>2. NodeAt(ord, a - 1) = HEAD
          BY <5>1 DEF NodeAt
        <5> HIDE DEF l, ord, a
        <5>3. l.forward[NodeAt(ord, a - 1)][0] = NodeAt(ord, a)
          BY <2>1, <3>1, NextNode
        <5>4. QED
          BY <5>1, <5>2, <5>3
      <4>4. QED
        BY <4>2, <4>3
    <3>3. L = ord
      BY <2>3 DEF Listed
    <3> HIDE DEF a, ord, l, L, w
    <3>4. Along(l, NodeAt(ord, a), reverse) = Paired(l.score, SubSeq(ord, a, Len(ord)))
      BY <2>1, <2>3, <3>1, AlongForward
    <3>5. w = Paired(m, SubSeq(L, a, n))
      BY <2>1, <2>2, <3>2, <3>3, <3>4
    <3>6. QED
      BY <3>5 DEF w, L, a, ord
  <2>4. CASE reverse = TRUE
    <3> DEFINE a == n - start
               one == 1
    <3>1. a \in 0 .. Len(ord) /\ a \in 1 .. Len(ord) /\ a # 0
      BY <1>2
    <3>2. RankStart(l, start, reverse) = BackNode(ord, a)
      <4>1. BackNode(ord, a) = ord[a]
        BY <3>1 DEF BackNode
      <4>2. CASE start > 0
        <5>1. RankStart(l, start, reverse) = zslGetElementByRank(l, a)
          BY <2>1, <2>4, <4>2 DEF RankStart
        <5> HIDE DEF a
        <5>2. zslGetElementByRank(z.zsl, a) = ord[a]
          BY <1>5, <3>1, ElementIs
        <5>3. QED
          BY <4>1, <5>1, <5>2
      <4>3. CASE ~(start > 0)
        <5>1. RankStart(l, start, reverse) = l.tail /\ a = n
          BY <1>2, <2>4, <4>3 DEF RankStart
        <5>2. l.tail = IF n = 0 THEN NIL ELSE ord[n]
          BY <2>1 DEF GoodList, GoodParts
        <5>3. QED
          BY <1>2, <4>1, <5>1, <5>2
      <4>4. QED
        BY <4>2, <4>3
    <3>3. L = Reverse(ord)
      BY <2>4 DEF Listed
    <3>4. one \in Int /\ one >= 1 /\ a \in Int /\ a <= Len(ord) /\ (n - a) + 1 = start + 1 /\ (n - one) + 1 = n
      BY <1>2
    <3> HIDE DEF a, ord, l, L, w, one
    <3>5. Along(l, BackNode(ord, a), reverse) = Paired(l.score, Reverse(SubSeq(ord, 1, a)))
      BY <2>1, <2>4, <3>1, AlongBackward
    <3>6. Reverse(SubSeq(ord, one, a)) = SubSeq(Reverse(ord), (Len(ord) - a) + 1, (Len(ord) - one) + 1)
      BY <1>2, <3>4, ReverseSub
    <3>7. Reverse(SubSeq(ord, 1, a)) = SubSeq(L, start + 1, n)
      BY <3>3, <3>4, <3>6 DEF one
    <3>8. w = Paired(m, SubSeq(L, start + 1, n))
      BY <2>1, <2>2, <3>2, <3>5, <3>7
    <3>9. QED
      BY <3>8 DEF w, L, ord
  <2>5. QED
    BY <2>3, <2>4
<1>6. QED
  BY <1>1, <1>4, <1>5

\* zrange and zrevrange.
LEMMA ZrangebyrankIs ==
    ASSUME NEW z, NEW m, NEW p, Good(z, m, p), NEW b, Bounds(Len(Sorted(m)), b), NEW reverse \in BOOLEAN
    PROVE  /\ zrangebyrank(z, b, reverse) = Paired(m, SubSeq(Listed(m, reverse), b[1] + 1, b[2] + 1))
           /\ SubSeq(Listed(m, reverse), b[1] + 1, b[2] + 1) \in Seq(DOMAIN m)
<1> DEFINE ord == Sorted(m)
           n == Len(ord)
           L == Listed(m, reverse)
           c == b[1] + 1
           d == b[2] + 1
           k == b[2] - b[1] + 1
           one == 1
<1>1. GoodMap(m) /\ MapFacts(m)
  BY GoodCases
<1>2. n \in Nat
  BY <1>1 DEF MapFacts
<1>3. L \in Seq(DOMAIN m) /\ Len(L) = n
  BY <1>1, ListedIs
<1>4. b[1] \in Nat /\ b[2] \in Int /\ b[2] < n
  BY DEF Bounds
<1> HIDE DEF L, n
<1>5. c \in Int /\ d \in Int /\ c >= 1 /\ d <= Len(L) /\ k \in Int
  BY <1>2, <1>3, <1>4
<1>6. SubSeq(L, c, d) \in Seq(DOMAIN m)
  <2> HIDE DEF c, d
  <2>1. QED
    BY <1>3, <1>5, SubSeqIs
<1>7. CASE k <= 0
  <2>1. zrangebyrank(z, b, reverse) = <<>>
    BY <1>7 DEF zrangebyrank
  <2>2. c > d
    BY <1>4, <1>7
  <2> HIDE DEF c, d
  <2>3. SubSeq(L, c, d) = <<>>
    BY <1>3, <1>5, <2>2, EmptySub
  <2>4. Paired(m, SubSeq(L, c, d)) = <<>>
    BY <2>3, EmptyPaired
  <2>5. QED
    BY <1>6, <2>1, <2>4 DEF c, d, L
<1>8. CASE ~(k <= 0)
  <2> DEFINE w == RankWalk(z, b[1], reverse)
             t == SubSeq(L, c, n)
             start == b[1]
  <2>1. zrangebyrank(z, b, reverse) = Take(w, k)
    BY <1>8 DEF zrangebyrank, RankWalk
  <2>2. start \in 0 .. (n - 1) /\ k \in Nat
    BY <1>2, <1>4, <1>5, <1>8
  <2>3. w = Paired(m, t)
    <3>1. start \in 0 .. (Len(Sorted(m)) - 1)
      BY <2>2 DEF n
    <3> HIDE DEF start
    <3>2. RankWalk(z, start, reverse) = Paired(m, SubSeq(Listed(m, reverse), start + 1, Len(Sorted(m))))
      BY <3>1, RankWalkIs
    <3>3. QED
      BY <3>2 DEF start, L, n
  <2>4. n \in Int /\ n <= Len(L)
    BY <1>2, <1>3
  <2>5. t \in Seq(DOMAIN m) /\ Len(t) = IF c <= n THEN (n - c) + 1 ELSE 0
    <3> HIDE DEF c
    <3>1. QED
      BY <1>3, <1>5, <2>4, SubSeqIs
  <2>6. k <= Len(t)
    <3> HIDE DEF t
    <3>1. QED
      BY <1>2, <1>4, <1>8, <2>5
  <2>7. Take(Paired(m, t), k) = Paired(m, Take(t, k)) /\ Take(t, k) = SubSeq(t, 1, k)
    <3> HIDE DEF t, k
    <3>1. Take(Paired(m, t), k) = Paired(m, Take(t, k))
      BY <2>2, <2>5, TakePaired
    <3>2. Take(t, k) = SubSeq(t, 1, IF k <= Len(t) THEN k ELSE Len(t))
      BY <2>2, <2>5, TakeIs
    <3>3. QED
      BY <2>6, <3>1, <3>2
  <2>8. one \in Int /\ one >= 1 /\ one <= k + 1 /\ (c + k) - 1 <= n /\ (c + k) - 1 = d /\ (c + one) - 1 = c
    BY <1>2, <1>4, <1>8
  <2>9. SubSeq(t, 1, k) = SubSeq(L, c, d)
    <3> HIDE DEF c, d, k, one
    <3>1. SubSeq(SubSeq(L, c, n), one, k) = SubSeq(L, (c + one) - 1, (c + k) - 1)
      BY <1>3, <1>5, <2>4, <2>8, SubSub
    <3>2. QED
      BY <2>8, <3>1 DEF one
  <2> HIDE DEF c, d, t, k
  <2>10. zrangebyrank(z, b, reverse) = Paired(m, SubSeq(L, c, d))
    BY <2>1, <2>3, <2>7, <2>9
  <2>11. QED
    BY <1>6, <2>10 DEF c, d, L
<1>9. QED
  BY <1>7, <1>8

\* zrank and zrevrank.
LEMMA ZsetRankIs ==
    ASSUME NEW z, NEW m, NEW p, Good(z, m, p), NEW x \in Members, NEW reverse \in BOOLEAN
    PROVE  zsetRank(z, x, reverse) + 1 = SelectInSeq(Listed(m, reverse), LAMBDA y : y = x)
<1> DEFINE ord == Sorted(m)
           n == Len(ord)
           L == Listed(m, reverse)
           a == PlaceIn(ord, x)
           rank == IF z.encoding = "listpack" THEN zzlFind(z.lp, x)
                   ELSE IF dictFindLink(z.dict, x).found = NoLink THEN 0 ELSE zslGetRankByNode(z.zsl, x)
<1>1. GoodMap(m) /\ MapFacts(m) /\ (IsListpack(z, m, p) \/ IsSkiplist(z, m, p))
  BY GoodCases
<1>2. ord \in Seq(DOMAIN m) /\ n \in Nat /\ zsetLength(z) = n
  BY <1>1, WalkOf DEF MapFacts
<1>3. /\ x \in DOMAIN m => a \in 1 .. n /\ ord[a] = x
      /\ x \notin DOMAIN m => a = 0
  BY <1>1, PlaceOfMember
<1>4. rank = a
  <2>1. CASE IsListpack(z, m, p)
    <3>1. rank = zzlFind(Paired(m, ord), x)
      BY <2>1 DEF IsListpack
    <3> HIDE DEF ord, rank
    <3>2. zzlFind(Paired(m, ord), x) = PlaceIn(ord, x)
      BY <1>2, FindIs
    <3>3. QED
      BY <3>1, <3>2
  <2>2. CASE IsSkiplist(z, m, p)
    <3> DEFINE dd == z.dict
    <3>1. GoodDict(dd, DOMAIN m) /\ z.encoding # "listpack" /\ x \in DOMAIN Hash
      BY <2>2, SortedSetAssumption DEF IsSkiplist
    <3>2. Found(dictFindLink(dd, x), dd, DOMAIN m, x)
      <4> HIDE DEF dd
      <4>1. QED
        BY <3>1, DictFindIs
    <3>3. dictFindLink(z.dict, x).found # NoLink <=> x \in DOMAIN m
      BY <3>2 DEF Found
    <3>4. CASE x \in DOMAIN m
      <4>1. rank = zslGetRankByNode(z.zsl, x)
        BY <3>1, <3>3, <3>4
      <4>2. a \in 1 .. Len(Sorted(m)) /\ Sorted(m)[a] = x
        BY <1>3, <3>4
      <4> HIDE DEF a, rank
      <4>3. zslGetRankByNode(z.zsl, Sorted(m)[a]) = a
        BY <2>2, <4>2, ElementIs
      <4>4. QED
        BY <4>1, <4>2, <4>3
    <3>5. CASE x \notin DOMAIN m
      BY <1>3, <3>1, <3>3, <3>5
    <3>6. QED
      BY <3>4, <3>5
  <2>3. QED
    BY <1>1, <2>1, <2>2
<1>5. zsetRank(z, x, reverse) = RankFrom(n, a, reverse)
  <2>1. zsetRank(z, x, reverse) = RankFrom(zsetLength(z), rank, reverse)
    BY DEF zsetRank
  <2>2. QED
    BY <1>2, <1>4, <2>1
<1>6. SelectInSeq(L, LAMBDA y : y = x) = PlaceIn(L, x)
  BY DEF SelectInSeq, PlaceIn
<1>7. /\ L \in Seq(DOMAIN m) /\ ToSet(L) = DOMAIN m /\ IsInjective(L) /\ Len(L) = n
      /\ \A i \in 1 .. n : L[i] = ord[IF reverse THEN (n - i) + 1 ELSE i]
  BY <1>1, ListedIs
<1> HIDE DEF L
<1>8. /\ x \notin ToSet(L) => PlaceIn(L, x) = 0
      /\ \A i \in 1 .. Len(L) : IsInjective(L) /\ L[i] = x => PlaceIn(L, x) = i
  BY <1>7, PlaceInIs
<1> HIDE DEF a, ord, n
<1>9. CASE x \in DOMAIN m
  <2> DEFINE i == IF reverse THEN (n - a) + 1 ELSE a
  <2>1. a \in 1 .. n /\ ord[a] = x /\ a # 0
    BY <1>2, <1>3, <1>9
  <2>2. i \in 1 .. n /\ (IF reverse THEN (n - i) + 1 ELSE i) = a
    BY <1>2, <2>1
  <2>3. RankFrom(n, a, reverse) + 1 = i
    BY <1>2, <2>1 DEF RankFrom
  <2> HIDE DEF i
  <2>4. L[i] = x
    BY <1>7, <2>1, <2>2
  <2>5. PlaceIn(L, x) = i
    BY <1>7, <1>8, <2>2, <2>4
  <2>6. QED
    BY <1>5, <1>6, <2>3, <2>5 DEF L
<1>10. CASE x \notin DOMAIN m
  <2>1. PlaceIn(L, x) = 0
    BY <1>7, <1>8, <1>10
  <2>2. RankFrom(n, a, reverse) + 1 = 0
    BY <1>3, <1>10 DEF RankFrom
  <2>3. QED
    BY <1>5, <1>6, <2>1, <2>2 DEF L
<1>11. QED
  BY <1>9, <1>10

-----------------------------------------------------------------------------
(* The inductive invariant. *)

\* z holds the map m within its limits, and every reply was exact.
Inductive(z, m, e) ==
    /\ \E p \in 0 .. PAUSES : Good(z, m, p)
    /\ Compact(z, m) /\ m \in [DOMAIN m -> Scores] /\ e = TRUE

IInv == Inductive(zobj, want, exact)

\* An object that a command leaves.
Leaves(z, m) == Compact(z, m) /\ \E p \in 0 .. PAUSES : Good(z, m, p)

\* A command that leaves a sound object and replies what it should keeps the invariant.
LEMMA BoundedIs ==
    ASSUME NEW z, NEW m, Leaves(z, m), Bounded(z)
    PROVE  Inductive(z, m, TRUE)
<1> DEFINE ord == Sorted(m)
<1>1. PICK p \in 0 .. PAUSES : Good(z, m, p)
  BY DEF Leaves
<1>2. GoodMap(m) /\ MapFacts(m) /\ Walk(z) = Paired(m, ord)
  BY <1>1, GoodCases, WalkOf
<1>3. ord \in Seq(DOMAIN m) /\ ToSet(ord) = DOMAIN m /\ m \in [DOMAIN m -> Int] /\ Len(ord) \in Nat
  BY <1>2 DEF MapFacts
<1>4. PairedFacts(m, ord)
  BY <1>3, PairedIs
<1>5. \A i \in 1 .. Len(ord) : m[ord[i]] \in Scores
  BY <1>2, <1>4 DEF Bounded, PairedFacts
<1> HIDE DEF ord
<1>6. \A x \in DOMAIN m : \E i \in 1 .. Len(ord) : x = ord[i]
  BY <1>3 DEF ToSet
<1>7. \A x \in DOMAIN m : m[x] \in Scores
  BY <1>5, <1>6
<1>8. m \in [DOMAIN m -> Scores]
  BY <1>3, <1>7
<1>9. QED
  BY <1>1, <1>8 DEF Inductive, Leaves

\* The facts of the invariant that the steps use.
LEMMA Held ==
    ASSUME IInv
    PROVE  /\ \E p : p \in 0 .. PAUSES /\ p \in Nat /\ Good(zobj, want, p) /\ zobj.dict.pauseAutoResize = p
           /\ Compact(zobj, want) /\ GoodMap(want) /\ MapFacts(want)
           /\ Walk(zobj) = Paired(want, Sorted(want)) /\ zsetLength(zobj) = Len(Sorted(want))
           /\ Numbers(want) /\ want \in [DOMAIN want -> Scores] /\ zsetLength(zobj) \in Nat
<1>1. PICK p \in 0 .. PAUSES : Good(zobj, want, p)
  BY DEF IInv, Inductive
<1>2. Compact(zobj, want) /\ want \in [DOMAIN want -> Scores]
  BY DEF IInv, Inductive
<1>3. /\ GoodMap(want) /\ MapFacts(want) /\ Walk(zobj) = Paired(want, Sorted(want))
      /\ zsetLength(zobj) = Len(Sorted(want)) /\ zsetLength(zobj) \in Nat /\ zobj.dict.pauseAutoResize = p
  BY <1>1, GoodCases, WalkOf
<1>4. \A s \in Scores : s # NaN
  BY SortedSetAssumption DEF NaN
<1>5. Numbers(want)
  BY <1>2, <1>4 DEF Numbers
<1>6. p \in Nat
  OBVIOUS
<1>7. QED
  BY <1>1, <1>2, <1>3, <1>5, <1>6

\* What Adding gives.
LEMMA AddingLeaves ==
    ASSUME NEW z, NEW m, NEW p \in 0 .. PAUSES, NEW lv, Adding(z, m, p, lv)
    PROVE  Leaves(z, m)
BY DEF Adding, Leaves

\* Objects of the same encoding have the same limits.
LEMMA SameLimits ==
    ASSUME NEW z, NEW y, NEW m, Compact(z, m), y.encoding = z.encoding, NEW p \in 0 .. PAUSES, Good(y, m, p)
    PROVE  Leaves(y, m)
BY DEF Compact, Leaves

\* Heights for the members an addition may insert.
LEMMA HeightsFor ==
    ASSUME NEW z, NEW m, NEW p, Good(z, m, p), Compact(z, m), NEW eles, NEW lv \in Heights(MayCreate(z, eles))
    PROVE  Adding(z, m, p, lv) /\ \A x \in eles : lv[x] \in Levels
<1>1. lv \in [eles \cup ElesOf(z.lp) -> Levels]
  BY DEF Heights, MayCreate
<1>2. MapFacts(m) /\ (IsListpack(z, m, p) \/ IsSkiplist(z, m, p))
  BY GoodCases
<1>3. CASE z.encoding = "listpack"
  <2>1. z.lp = Paired(m, Sorted(m))
    BY <1>2, <1>3 DEF IsListpack, IsSkiplist
  <2>2. Sorted(m) \in Seq(DOMAIN m) /\ ToSet(Sorted(m)) = DOMAIN m
    BY <1>2 DEF MapFacts
  <2>3. ElesOf(Paired(m, Sorted(m))) = ToSet(Sorted(m))
    BY <2>2, OfIs
  <2>4. \A y \in DOMAIN m : lv[y] \in Levels
    BY <1>1, <2>1, <2>2, <2>3
  <2>5. QED
    BY <1>1, <2>4 DEF Adding
<1>4. CASE z.encoding # "listpack"
  BY <1>1, <1>4 DEF Adding
<1>5. QED
  BY <1>3, <1>4

-----------------------------------------------------------------------------
(* The commands. *)

\* The first state.
LEMMA InitIInv == Init => IInv
<1> SUFFICES ASSUME Init PROVE IInv
  OBVIOUS
<1> DEFINE hint == 0
           e == Of(<<>>)
           lv == 0
<1>1. hint \in Nat /\ DOMAIN e = {} /\ e \in [DOMAIN e -> Int] /\ e \in [DOMAIN e -> Scores]
  BY DEF Of
<1>2. zobj = zsetTypeCreate(hint) /\ want = e /\ exact = TRUE
  BY DEF Init
<1> DEFINE zero == 0
<1>3. zero \in 0 .. PAUSES
  BY SortedSetAssumption
<1> HIDE DEF hint, e, lv
<1>4. Adding(zsetTypeCreate(hint), e, 0, lv)
  BY <1>1, BaseIs
<1>5. Adding(zsetTypeCreate(hint), e, zero, lv)
  BY <1>4
<1> HIDE DEF zero
<1>6. Leaves(zsetTypeCreate(hint), e)
  BY <1>3, <1>5, AddingLeaves
<1>7. QED
  BY <1>1, <1>2, <1>6 DEF IInv, Inductive, Leaves

\* zadd.
LEMMA ZaddKeeps == IInv /\ Zadd => IInv'
<1> SUFFICES ASSUME IInv, Zadd PROVE IInv'
  OBVIOUS
<1>1. PICK p : p \in 0 .. PAUSES /\ Good(zobj, want, p)
  BY Held
<1>2. PICK pairs \in Adds, flags \in Flags :
         \E lv \in Heights(MayCreate(zobj, {pairs[i][2] : i \in DOMAIN pairs})) :
            Added(zadd(zobj, pairs, flags, lv), AddAll(want, pairs, flags), Updates(want, pairs, flags))
  BY DEF Zadd
<1> DEFINE eles == {pairs[i][2] : i \in DOMAIN pairs}
<1>3. PICK lv \in Heights(MayCreate(zobj, eles)) :
         Added(zadd(zobj, pairs, flags, lv), AddAll(want, pairs, flags), Updates(want, pairs, flags))
  BY <1>2
<1>4. Pairs(pairs) /\ "incr" \notin flags
  BY SortedSetAssumption DEF Pairs
<1>5. DOMAIN pairs = 1 .. Len(pairs)
  BY <1>4, PairParts
<1>6. Adding(zobj, want, p, lv) /\ \A x \in eles : lv[x] \in Levels
  <2> HIDE DEF eles
  <2>1. Compact(zobj, want)
    BY Held
  <2>2. QED
    BY <1>1, <2>1, HeightsFor
<1>7. \A i \in 1 .. Len(pairs) : lv[pairs[i][2]] \in Levels
  BY <1>5, <1>6
<1> DEFINE r == zadd(zobj, pairs, flags, lv)
           map == AddAll(want, pairs, flags)
<1>8. Zadded(r, want, p, lv, pairs, flags)
  BY <1>4, <1>6, <1>7, ZaddIs
<1>9. Become(r.zobj, map, r.added = Cardinality(DOMAIN map \ DOMAIN want) /\ r.updated = Cardinality(Updates(want, pairs, flags)))
  BY <1>3 DEF Added
<1>10. /\ Adding(r.zobj, map, p, lv) /\ r.added = Cardinality(DOMAIN map \ DOMAIN want)
       /\ r.updated = Cardinality(Updates(want, pairs, flags))
  BY <1>8 DEF Zadded
<1> DEFINE y == r.zobj
<1> HIDE DEF r, map
<1>11. Bounded(y) /\ zobj' = y /\ want' = map /\ exact' = TRUE
  BY <1>9, <1>10 DEF Become
<1>12. Leaves(y, map)
  <2> HIDE DEF y
  <2>1. Adding(y, map, p, lv)
    BY <1>10 DEF y
  <2>2. QED
    BY <1>1, <2>1, AddingLeaves
<1> HIDE DEF y
<1>13. Inductive(y, map, TRUE)
  BY <1>11, <1>12, BoundedIs
<1>14. QED
  BY <1>11, <1>13 DEF IInv

\* What an increment asks for and gets.
Increments(m, x, flags, sum, o) ==
    IF Wanted(m, x, sum, flags)
    THEN AddMap(m, x, o) = Put(m, x, sum) /\ o.out \in {"added", "updated", "same"} /\ o.score = sum
    ELSE AddMap(m, x, o) = m /\ o.out = IF sum = NaN /\ "nx" \notin flags THEN "nan" ELSE "nop"

\* They agree.
LEMMA IncrementIs ==
    ASSUME NEW m, GoodMap(m), NEW x \in Members, NEW delta \in Int, delta # NaN, NEW flags
    PROVE  Increments(m, x, flags, Sum(m, x, delta), AddOut(m, x, delta, flags \cup {"incr"}))
<1> DEFINE all == flags \cup {"incr"}
           sum == Sum(m, x, delta)
           o == AddOut(m, x, delta, all)
<1>1. /\ "incr" \in all /\ ("nx" \in all <=> "nx" \in flags) /\ ("xx" \in all <=> "xx" \in flags)
      /\ ("lt" \in all <=> "lt" \in flags) /\ ("gt" \in all <=> "gt" \in flags)
  OBVIOUS
<1>2. \A s : Put(m, x, s) = With(m, x, s)
  BY PutIs
<1> HIDE DEF all
<1>3. CASE x \notin DOMAIN m
  <2>1. sum = delta /\ sum # NaN
    BY <1>3 DEF Sum
  <2>2. CASE "xx" \in flags
    <3>1. o.out = "nop" /\ ~Wanted(m, x, sum, flags)
      BY <1>1, <1>3, <2>2 DEF AddOut, Wanted
    <3>2. AddMap(m, x, o) = m
      BY <3>1 DEF AddMap
    <3>3. QED
      BY <2>1, <3>1, <3>2 DEF Increments, all
  <2>3. CASE "xx" \notin flags
    <3>1. o.out = "added" /\ o.score = delta /\ Wanted(m, x, sum, flags)
      BY <1>1, <1>3, <2>3 DEF AddOut, Wanted
    <3>2. AddMap(m, x, o) = With(m, x, delta)
      BY <3>1 DEF AddMap
    <3>3. QED
      BY <1>2, <2>1, <3>1, <3>2 DEF Increments, all
  <2>4. QED
    BY <2>2, <2>3
<1>4. CASE x \in DOMAIN m
  <2> DEFINE cur == m[x]
  <2>1. m \in [DOMAIN m -> Int]
    BY MapIs DEF MapFacts
  <2>2. cur \in Int
    BY <1>4, <2>1
  <2> HIDE DEF cur
  <2>3. Plus(delta, cur) \in Int /\ Plus(delta, cur) = Plus(cur, delta)
    BY <2>2, PlusIs
  <2>4. sum = Plus(delta, cur) /\ sum \in Int
    BY <1>4, <2>3 DEF Sum, cur
  <2>5. o = Rescore(delta, cur, all)
    BY <1>4 DEF AddOut, cur
  <2> HIDE DEF sum, o
  <2>6. o = IF "nx" \in flags THEN [out |-> "nop", score |-> cur]
            ELSE IF sum = NaN THEN [out |-> "nan", score |-> cur]
            ELSE IF ("lt" \in flags /\ sum >= cur) \/ ("gt" \in flags /\ sum <= cur)
                 THEN [out |-> "nop", score |-> cur]
                 ELSE [out |-> IF sum # cur THEN "updated" ELSE "same", score |-> sum]
    BY <1>1, <2>4, <2>5 DEF Rescore
  <2>7. Wanted(m, x, sum, flags) <=> /\ "nx" \notin flags /\ sum # NaN
                                     /\ ("gt" \in flags => sum > cur) /\ ("lt" \in flags => sum < cur)
    BY <1>4 DEF Wanted, cur
  <2>8. CASE "nx" \in flags
    <3>1. o.out = "nop" /\ ~Wanted(m, x, sum, flags)
      BY <2>6, <2>7, <2>8
    <3>2. AddMap(m, x, o) = m
      BY <3>1 DEF AddMap
    <3>3. QED
      BY <2>8, <3>1, <3>2 DEF Increments, sum, o, all
  <2>9. CASE "nx" \notin flags /\ sum = NaN
    <3>1. o.out = "nan" /\ ~Wanted(m, x, sum, flags)
      BY <2>6, <2>7, <2>9
    <3>2. AddMap(m, x, o) = m
      BY <3>1 DEF AddMap
    <3>3. Increments(m, x, flags, sum, o)
      BY <2>9, <3>1, <3>2 DEF Increments
    <3>4. QED
      BY <3>3 DEF sum, o, all
  <2>10. CASE "nx" \notin flags /\ sum # NaN /\ (("lt" \in flags /\ sum >= cur) \/ ("gt" \in flags /\ sum <= cur))
    <3>1. o.out = "nop"
      BY <2>6, <2>10
    <3>2. ~Wanted(m, x, sum, flags)
      BY <2>2, <2>4, <2>7, <2>10
    <3>3. AddMap(m, x, o) = m
      BY <3>1 DEF AddMap
    <3>4. Increments(m, x, flags, sum, o)
      BY <2>10, <3>1, <3>2, <3>3 DEF Increments
    <3>5. QED
      BY <3>4 DEF sum, o, all
  <2>11. CASE "nx" \notin flags /\ sum # NaN /\ ~(("lt" \in flags /\ sum >= cur) \/ ("gt" \in flags /\ sum <= cur))
    <3>1. o.out = (IF sum # cur THEN "updated" ELSE "same") /\ o.score = sum
      BY <2>6, <2>11
    <3>2. Wanted(m, x, sum, flags)
      BY <2>2, <2>4, <2>7, <2>11
    <3>3. AddMap(m, x, o) = Put(m, x, sum)
      <4>1. CASE sum # cur
        BY <1>2, <3>1, <4>1 DEF AddMap
      <4>2. CASE sum = cur
        <5>1. o.out = "same"
          BY <3>1, <4>2
        <5>2. AddMap(m, x, o) = m
          BY <5>1 DEF AddMap
        <5>3. \A y \in DOMAIN m : (IF y = x THEN sum ELSE m[y]) = m[y]
          BY <4>2 DEF cur
        <5>4. DOMAIN m \cup {x} = DOMAIN m /\ m = [y \in DOMAIN m |-> m[y]]
          BY <1>4, <2>1
        <5>5. Put(m, x, sum) = [y \in DOMAIN m |-> IF y = x THEN sum ELSE m[y]]
          BY <5>4 DEF Put
        <5>6. QED
          BY <5>2, <5>3, <5>4, <5>5
      <4>3. QED
        BY <4>1, <4>2
    <3>4. Increments(m, x, flags, sum, o)
      BY <3>1, <3>2, <3>3 DEF Increments
    <3>5. QED
      BY <3>4 DEF sum, o, all
  <2>12. QED
    BY <2>8, <2>9, <2>10, <2>11
<1>5. QED
  BY <1>3, <1>4

\* zincrby.
LEMMA ZincrbyKeeps == IInv /\ Zincrby => IInv'
<1> SUFFICES ASSUME IInv, Zincrby PROVE IInv'
  OBVIOUS
<1>1. PICK p : p \in 0 .. PAUSES /\ Good(zobj, want, p)
  BY Held
<1>2. PICK delta \in Deltas, ele \in Members, flags \in Flags :
         \E lv \in Heights(MayCreate(zobj, {ele})) :
            Incremented(zadd(zobj, <<<<delta, ele>>>>, flags \cup {"incr"}, lv), ele, flags, Sum(want, ele, delta))
  BY DEF Zincrby
<1> DEFINE eles == {ele}
           all == flags \cup {"incr"}
           sum == Sum(want, ele, delta)
<1>3. PICK lv \in Heights(MayCreate(zobj, eles)) :
         Incremented(zadd(zobj, <<<<delta, ele>>>>, all, lv), ele, flags, sum)
  BY <1>2
<1>4. delta \in Int /\ delta # NaN
  BY SortedSetAssumption DEF NaN
<1>5. Compact(zobj, want) /\ GoodMap(want)
  BY Held
<1>6. Adding(zobj, want, p, lv) /\ \A x \in eles : lv[x] \in Levels
  <2> HIDE DEF eles
  <2>1. QED
    BY <1>1, <1>5, HeightsFor
<1>7. lv[ele] \in Levels
  BY <1>6
<1> DEFINE r == zadd(zobj, <<<<delta, ele>>>>, all, lv)
           o == AddOut(want, ele, delta, all)
<1>8. AddedWell(r, want, p, lv, ele, o)
  <2> HIDE DEF all
  <2>1. QED
    BY <1>4, <1>6, <1>7, ZaddOne
<1>9. Increments(want, ele, flags, sum, o)
  BY <1>4, <1>5, IncrementIs
<1> DEFINE y == r.zobj
           map == AddMap(want, ele, o)
<1>10. r.out = o.out /\ r.score = o.score /\ Adding(y, map, p, lv)
  BY <1>8 DEF AddedWell
<1>11. Incremented(r, ele, flags, sum)
  BY <1>3
<1> HIDE DEF r, o, sum, all
<1>12. Bounded(y) /\ zobj' = y /\ want' = map /\ exact' = TRUE
  <2>1. CASE Wanted(want, ele, sum, flags)
    <3>1. Become(y, Put(want, ele, sum), r.out \in {"added", "updated", "same"} /\ r.score = sum)
      BY <1>11, <2>1 DEF Incremented
    <3>2. map = Put(want, ele, sum) /\ r.out \in {"added", "updated", "same"} /\ r.score = sum
      BY <1>9, <1>10, <2>1 DEF Increments
    <3> HIDE DEF map, y
    <3>3. QED
      BY <3>1, <3>2 DEF Become
  <2>2. CASE ~Wanted(want, ele, sum, flags)
    <3>1. Become(y, want, r.out = IF sum = NaN /\ "nx" \notin flags THEN "nan" ELSE "nop")
      BY <1>11, <2>2 DEF Incremented
    <3>2. map = want /\ r.out = IF sum = NaN /\ "nx" \notin flags THEN "nan" ELSE "nop"
      BY <1>9, <1>10, <2>2 DEF Increments
    <3> HIDE DEF map, y
    <3>3. QED
      BY <3>1, <3>2 DEF Become
  <2>3. QED
    BY <2>1, <2>2
<1> HIDE DEF y, map
<1>13. Leaves(y, map)
  BY <1>1, <1>10, AddingLeaves
<1>14. Inductive(y, map, TRUE)
  BY <1>12, <1>13, BoundedIs
<1>15. QED
  BY <1>12, <1>14 DEF IInv

\* Range and ToSet are the same.
LEMMA RangeIs ==
    ASSUME NEW s
    PROVE  Range(s) = ToSet(s)
BY DEF Range, ToSet

\* zrem.
LEMMA ZremKeeps == IInv /\ Zrem => IInv'
<1> SUFFICES ASSUME IInv, Zrem PROVE IInv'
  OBVIOUS
<1>1. PICK p : p \in 0 .. PAUSES /\ p \in Nat /\ Good(zobj, want, p) /\ zobj.dict.pauseAutoResize = p
  BY Held
<1>2. PICK eles \in Removals :
         /\ Bad \in Range(eles) => zobj.dict.pauseAutoResize < PAUSES
         /\ Removed(zrem(zobj, eles), Range(RunFrom(eles, 1, LAMBDA e : e # Bad)))
  BY DEF Zrem
<1> DEFINE gone == Range(RunOfGood(eles))
           bad == Bad \in Range(eles)
           r == zrem(zobj, eles)
           map == Without(want, gone)
           y == r.zobj
<1>3. Removed(r, gone)
  BY <1>2 DEF RunOfGood
<1>4. eles \in Seq(Members \cup {Bad})
  BY SortedSetAssumption
<1>5. Removes(r, zobj.encoding, want, p, gone, bad)
  BY <1>1, <1>4, ZremIs
<1> HIDE DEF r, gone
<1>6. /\ \E q : Good(y, map, q) /\ (q = p \/ (bad /\ q = p + 1))
      /\ y.encoding = zobj.encoding
      /\ r.raised \in BOOLEAN /\ (r.raised \/ r.deleted = Cardinality(gone \cap DOMAIN want))
  BY <1>5 DEF Removes
<1>7. Become(y, map, r.raised \/ r.deleted = Cardinality(gone \cap DOMAIN want))
  BY <1>3 DEF Removed
<1>8. Bounded(y) /\ zobj' = y /\ want' = map /\ exact' = TRUE
  <2> DEFINE ok == r.raised \/ r.deleted = Cardinality(gone \cap DOMAIN want)
  <2>1. ok = TRUE /\ Become(y, map, ok)
    BY <1>6, <1>7
  <2> HIDE DEF ok, y, map
  <2>2. QED
    BY <2>1 DEF Become
<1>9. Compact(zobj, want) /\ GoodMap(want)
  BY Held
<1>10. Compact(y, map)
  <2> HIDE DEF y
  <2>1. QED
    BY <1>6, <1>9, CompactLess
<1>11. \E q \in 0 .. PAUSES : Good(y, map, q)
  <2>1. PICK q : Good(y, map, q) /\ (q = p \/ (bad /\ q = p + 1))
    BY <1>6
  <2>2. PAUSES \in Nat
    BY SortedSetAssumption
  <2>3. q \in 0 .. PAUSES
    BY <1>1, <1>2, <2>1, <2>2
  <2>4. QED
    BY <2>1, <2>3
<1> HIDE DEF y, map
<1>12. Leaves(y, map)
  BY <1>10, <1>11 DEF Leaves
<1>13. Inductive(y, map, TRUE)
  BY <1>8, <1>12, BoundedIs
<1>14. QED
  BY <1>8, <1>13 DEF IInv

\* A command whose reply is right and that leaves a sound object keeps the invariant.
LEMMA Settles ==
    ASSUME NEW y, NEW map, Become(y, map, TRUE), Leaves(y, map)
    PROVE  IInv'
<1>1. Bounded(y) /\ zobj' = y /\ want' = map /\ exact' = TRUE
  BY DEF Become
<1>2. Inductive(y, map, TRUE)
  BY <1>1, BoundedIs
<1>3. QED
  BY <1>1, <1>2 DEF IInv

\* What is taken out of a sound object leaves one.
LEMMA LessLeaves ==
    ASSUME IInv, NEW p \in 0 .. PAUSES, NEW y, NEW A, Good(y, Without(want, A), p), y.encoding = zobj.encoding
    PROVE  Leaves(y, Without(want, A))
<1>1. Compact(zobj, want) /\ GoodMap(want)
  BY Held
<1>2. Compact(y, Without(want, A))
  BY <1>1, CompactLess
<1>3. QED
  BY <1>2 DEF Leaves

\* zremrangebyrank.
LEMMA ZremrangebyrankKeeps == IInv /\ Zremrangebyrank => IInv'
<1> SUFFICES ASSUME IInv, Zremrangebyrank PROVE IInv'
  OBVIOUS
<1>1. PICK p : p \in 0 .. PAUSES /\ p \in Nat /\ Good(zobj, want, p)
  BY Held
<1>2. PICK span \in Spans :
         Become(zremrangebyrank(zobj, Sanitize(zsetLength(zobj), span[1], span[2])),
                Without(want, Range(ListedAt(want, span, FALSE))), TRUE)
  BY DEF Zremrangebyrank
<1> DEFINE n == zsetLength(zobj)
           b == Sanitize(n, span[1], span[2])
           keys == SubSeq(Sorted(want), b[1] + 1, b[2] + 1)
           gone == Range(ListedAt(want, span, FALSE))
           y == zremrangebyrank(zobj, b)
<1>3. n \in Nat /\ n = Len(Sorted(want)) /\ GoodMap(want) /\ span \in Int \X Int /\ DOMAIN want \subseteq Members
  BY Held, SortedSetAssumption DEF MapFacts
<1>4. Bounds(n, b) /\ PlacesOf(n, span) = b[1] .. b[2]
  <2> HIDE DEF n
  <2>1. QED
    BY <1>3, SanitizeIs
<1>5. ListedAt(want, span, FALSE) = keys
  <2> DEFINE rev == FALSE
  <2>1. rev \in BOOLEAN /\ Listed(want, rev) = Sorted(want)
    BY DEF Listed
  <2> HIDE DEF n, b, rev
  <2>2. ListedAt(want, span, rev) = SubSeq(Listed(want, rev), b[1] + 1, b[2] + 1)
    BY <1>3, <1>4, <2>1, ListedAtIs
  <2>3. QED
    BY <2>1, <2>2 DEF rev
<1>6. CollectRank(zobj, b[1], b[2]) = Paired(want, keys) /\ keys \in Seq(DOMAIN want)
  <2>1. Bounds(Len(Sorted(want)), b)
    BY <1>3, <1>4
  <2> HIDE DEF b
  <2>2. QED
    BY <1>1, <2>1, CollectRankIs
<1>7. gone = ToSet(keys)
  BY <1>5, RangeIs
<1>8. Become(y, Without(want, gone), TRUE)
  BY <1>2
<1>9. Good(y, Without(want, gone), p) /\ y.encoding = zobj.encoding
  <2>1. CASE b[2] < b[1]
    <3>1. y = zobj
      BY <2>1 DEF zremrangebyrank
    <3>2. keys = <<>>
      <4>1. b[1] = 0 /\ b[2] = -1
        BY <1>4, <2>1 DEF Bounds
      <4> HIDE DEF b
      <4> DEFINE i == b[1] + 1
                 j == b[2] + 1
      <4>2. Sorted(want) \in Seq(DOMAIN want)
        BY Held DEF MapFacts
      <4>3. i \in Int /\ j \in Int /\ i >= 1 /\ j <= Len(Sorted(want)) /\ i > j
        BY <1>3, <4>1
      <4> HIDE DEF i, j
      <4>4. SubSeq(Sorted(want), i, j) = <<>>
        BY <4>2, <4>3, EmptySub
      <4>5. QED
        BY <4>4 DEF i, j
    <3> HIDE DEF keys, b, gone, y
    <3>3. gone = {}
      BY <1>7, <3>2 DEF ToSet
    <3>4. Without(want, gone) = want
      BY <1>3, <3>3, WithoutNone
    <3>5. QED
      BY <1>1, <3>1, <3>4
  <2>2. CASE ~(b[2] < b[1])
    <3>1. y = Resume(DeleteAll(Pause(zobj), Paired(want, keys)))
      BY <1>6, <2>2 DEF zremrangebyrank
    <3> HIDE DEF keys, b, y, gone
    <3>2. keys \in Seq(Members)
      BY <1>3, <1>6
    <3>3. /\ Good(Resume(DeleteAll(Pause(zobj), Paired(want, keys))), Without(want, ToSet(keys)), p)
          /\ Resume(DeleteAll(Pause(zobj), Paired(want, keys))).encoding = zobj.encoding
      BY <1>1, <3>2, RemoveEntries
    <3>4. QED
      BY <1>7, <3>1, <3>3
  <2>3. QED
    BY <2>1, <2>2
<1> HIDE DEF y, gone
<1>10. Leaves(y, Without(want, gone))
  BY <1>1, <1>9, LessLeaves
<1>11. QED
  BY <1>8, <1>10, Settles

\* zremrangebyscore and zremrangebylex.
LEMMA ZremrangeKeeps == IInv /\ Zremrange => IInv'
<1> SUFFICES ASSUME IInv, Zremrange PROVE IInv'
  OBVIOUS
<1>1. PICK p : p \in 0 .. PAUSES /\ p \in Nat /\ Good(zobj, want, p)
  BY Held
<1>2. PICK r \in Ranges : RemovedRange(zremrange(zobj, r), r)
  BY DEF Zremrange
<1>3. r \in RangeRec /\ DOMAIN want \subseteq Members
  BY Held, SortedSetAssumption DEF MapFacts, RangeRec
<1>4. PICK keys : CollectsRange(CollectRange(zobj, r), want, r, keys)
  BY <1>1, <1>3, CollectRangeIs
<1> DEFINE y == zremrange(zobj, r)
           gone == ToSet(keys)
<1>5. keys \in Seq(Members) /\ y = Resume(DeleteAll(Pause(zobj), Paired(want, keys)))
  BY <1>3, <1>4 DEF CollectsRange, zremrange
<1>6. /\ Good(Resume(DeleteAll(Pause(zobj), Paired(want, keys))), Without(want, ToSet(keys)), p)
      /\ Resume(DeleteAll(Pause(zobj), Paired(want, keys))).encoding = zobj.encoding
  BY <1>1, <1>5, RemoveEntries
<1>7. Good(y, Without(want, gone), p) /\ y.encoding = zobj.encoding
  BY <1>5, <1>6
<1>8. Become(y, IF Meant(want, r) THEN Without(want, Range(ListedIn(want, r, FALSE))) ELSE Of(Walk(y)), TRUE)
  BY <1>2 DEF RemovedRange
<1> HIDE DEF y
<1>9. Of(Walk(y)) = Without(want, gone)
  <2> HIDE DEF gone
  <2>1. QED
    BY <1>7, WalkOf
<1>10. Meant(want, r) => Range(ListedIn(want, r, FALSE)) = gone
  BY <1>4, RangeIs DEF CollectsRange
<1>11. Become(y, Without(want, gone), TRUE)
  BY <1>8, <1>9, <1>10
<1> HIDE DEF gone
<1>12. Leaves(y, Without(want, gone))
  BY <1>1, <1>7, LessLeaves
<1>13. QED
  BY <1>11, <1>12, Settles

\* zpopmin and zpopmax.
LEMMA ZpopKeeps == IInv /\ Zpop => IInv'
<1> SUFFICES ASSUME IInv, Zpop PROVE IInv'
  OBVIOUS
<1>1. PICK p : p \in 0 .. PAUSES /\ p \in Nat /\ Good(zobj, want, p)
  BY Held
<1>2. PICK where \in {"min", "max"}, count \in 1 .. 2 :
         Popped(zpop(zobj, where, count), Take(Listed(want, where = "max"), count))
  BY DEF Zpop
<1> DEFINE r == zpop(zobj, where, count)
           first == Take(Listed(want, where = "max"), count)
           y == r.zobj
           gone == Range(first)
<1>3. Pops(r, zobj.encoding, want, p, first)
  <2>1. count \in Nat
    OBVIOUS
  <2>2. QED
    BY <1>1, <2>1, ZpopIs
<1> HIDE DEF r, first
<1>4. Good(y, Without(want, gone), p) /\ y.encoding = zobj.encoding /\ r.popped = first
  BY <1>3, RangeIs DEF Pops
<1>5. Become(y, Without(want, gone), r.popped = first)
  BY <1>2 DEF Popped, r, first
<1>6. Become(y, Without(want, gone), TRUE)
  <2> DEFINE ok == r.popped = first
  <2>1. ok = TRUE /\ Become(y, Without(want, gone), ok)
    BY <1>4, <1>5
  <2> HIDE DEF ok
  <2>2. QED
    BY <2>1
<1> HIDE DEF y, gone
<1>7. Leaves(y, Without(want, gone))
  BY <1>1, <1>4, LessLeaves
<1>8. QED
  BY <1>6, <1>7, Settles

\* A lookup.
LEMMA LookupKeeps == IInv /\ Lookup => IInv'
<1> SUFFICES ASSUME IInv, Lookup PROVE IInv'
  OBVIOUS
<1>1. PICK p : p \in 0 .. PAUSES /\ Good(zobj, want, p)
  BY Held
<1>2. PICK ele \in Members : Become(Touch(zobj, ele), want, TRUE)
  BY DEF Lookup
<1>3. Good(Touch(zobj, ele), want, p) /\ Touch(zobj, ele).encoding = zobj.encoding
  BY <1>1, TouchIs
<1>4. Compact(zobj, want)
  BY Held
<1> DEFINE y == Touch(zobj, ele)
<1> HIDE DEF y
<1>5. Become(y, want, TRUE) /\ Good(y, want, p) /\ y.encoding = zobj.encoding
  BY <1>2, <1>3 DEF y
<1>6. Leaves(y, want)
  BY <1>1, <1>4, <1>5, SameLimits
<1>7. QED
  BY <1>5, <1>6, Settles

\* A random pick.
LEMMA ZrandmemberKeeps == IInv /\ Zrandmember => IInv'
<1> SUFFICES ASSUME IInv, Zrandmember PROVE IInv'
  OBVIOUS
<1>1. PICK p : p \in 0 .. PAUSES /\ Good(zobj, want, p)
  BY Held
<1>2. zobj.encoding = "skiplist"
  BY DEF Zrandmember
<1>3. PICK more \in {0, 1} :
         Become([zobj EXCEPT !.dict = dictGetSomeKeys(@, zsetLength(zobj) + more)], want, TRUE)
  BY DEF Zrandmember
<1> DEFINE count == zsetLength(zobj) + more
<1>4. count \in Nat /\ Compact(zobj, want)
  BY Held
<1>5. Become([zobj EXCEPT !.dict = dictGetSomeKeys(@, count)], want, TRUE)
  BY <1>3
<1> HIDE DEF count
<1>6. /\ Good([zobj EXCEPT !.dict = dictGetSomeKeys(@, count)], want, p)
      /\ [zobj EXCEPT !.dict = dictGetSomeKeys(@, count)].encoding = "skiplist"
  BY <1>1, <1>2, <1>4, RandomIs
<1> DEFINE y == [zobj EXCEPT !.dict = dictGetSomeKeys(@, count)]
<1>7. Become(y, want, TRUE) /\ Good(y, want, p) /\ y.encoding = zobj.encoding
  BY <1>2, <1>5, <1>6
<1> HIDE DEF y
<1>8. Leaves(y, want)
  BY <1>1, <1>4, <1>7, SameLimits
<1>9. QED
  BY <1>7, <1>8, Settles

\* A set that is made again from entries of its members.
LEMMA RebuildLeaves ==
    ASSUME IInv, NEW keys \in Seq(DOMAIN want), NEW hint \in Nat, NEW lv \in Heights(ElesOf(Paired(want, keys)))
    PROVE  Leaves(Rebuild(Paired(want, keys), hint, lv), Of(Paired(want, keys)))
<1>1. DOMAIN want \subseteq Members /\ want \in [DOMAIN want -> Int]
  BY Held DEF MapFacts
<1>2. Of(Paired(want, keys)) = Only(want, ToSet(keys)) /\ ElesOf(Paired(want, keys)) = ToSet(keys)
  BY OfIs
<1>3. keys \in Seq(Members) /\ ToSet(keys) \subseteq DOMAIN want
  BY <1>1 DEF ToSet
<1>4. \A x \in ToSet(keys) : want[x] \in Int
  BY <1>1, <1>3
<1>5. \A x \in ToSet(keys) : lv[x] \in Levels
  BY <1>2 DEF Heights
<1>6. Adding(Rebuild(Paired(want, keys), hint, lv), Only(want, ToSet(keys)), 0, lv)
  BY <1>3, <1>4, <1>5, RebuildIs
<1> DEFINE y == Rebuild(Paired(want, keys), hint, lv)
           map == Of(Paired(want, keys))
           zero == 0
<1>7. Adding(y, map, zero, lv) /\ zero \in 0 .. PAUSES
  BY <1>2, <1>6, SortedSetAssumption
<1> HIDE DEF y, map, zero
<1>8. Leaves(y, map)
  BY <1>7, AddingLeaves
<1>9. QED
  BY <1>8 DEF y, map

\* zrangestore by rank.
LEMMA StoreRankKeeps ==
    ASSUME IInv, NEW reverse \in BOOLEAN, NEW span \in Spans,
           StoreRank(zrangebyrank(zobj, Sanitize(zsetLength(zobj), span[1], span[2]), reverse),
                     ListedAt(want, span, reverse))
    PROVE  IInv'
<1>1. PICK p : p \in 0 .. PAUSES /\ p \in Nat /\ Good(zobj, want, p)
  BY Held
<1> DEFINE n == zsetLength(zobj)
           b == Sanitize(n, span[1], span[2])
           keys == SubSeq(Listed(want, reverse), b[1] + 1, b[2] + 1)
           entries == zrangebyrank(zobj, b, reverse)
<1>2. n \in Nat /\ n = Len(Sorted(want)) /\ GoodMap(want) /\ span \in Int \X Int
  BY Held, SortedSetAssumption
<1>3. Bounds(n, b) /\ PlacesOf(n, span) = b[1] .. b[2]
  <2> HIDE DEF n
  <2>1. QED
    BY <1>2, SanitizeIs
<1>4. ListedAt(want, span, reverse) = keys
  <2> HIDE DEF n, b
  <2>1. QED
    BY <1>2, <1>3, ListedAtIs
<1>5. entries = Paired(want, keys) /\ keys \in Seq(DOMAIN want)
  <2>1. Bounds(Len(Sorted(want)), b)
    BY <1>2, <1>3
  <2> HIDE DEF b
  <2>2. QED
    BY <1>1, <2>1, ZrangebyrankIs
<1>6. PICK lv \in Heights(ElesOf(entries)) :
         Become(zrangestorebyrank(entries, lv), Of(Paired(want, ListedAt(want, span, reverse))), TRUE)
  BY DEF StoreRank
<1> HIDE DEF entries, keys
<1> DEFINE hint == Len(entries)
           map == Of(Paired(want, keys))
           y == Rebuild(Paired(want, keys), hint, lv)
<1>7. hint \in Nat
  BY <1>5, PairedIs DEF PairedFacts
<1>8. Become(y, map, TRUE)
  BY <1>4, <1>5, <1>6 DEF zrangestorebyrank
<1>9. lv \in Heights(ElesOf(Paired(want, keys)))
  BY <1>5, <1>6
<1> HIDE DEF hint
<1>10. Leaves(y, map)
  BY <1>5, <1>7, <1>9, RebuildLeaves
<1> HIDE DEF y, map
<1>11. QED
  BY <1>8, <1>10, Settles

\* zrangestore by score and by member.
LEMMA StoreRangeKeeps ==
    ASSUME IInv, NEW reverse \in BOOLEAN, NEW r \in Ranges, NEW offset \in Offsets,
           StoreRange(zrangebyscore(zobj, r, offset, -1, reverse), r,
                      Limited(ListedIn(want, r, reverse), offset, -1))
    PROVE  IInv'
<1>1. PICK p : p \in 0 .. PAUSES /\ p \in Nat /\ Good(zobj, want, p)
  BY Held
<1> DEFINE limit == -1
           members == Limited(ListedIn(want, r, reverse), offset, limit)
           entries == zrangebyscore(zobj, r, offset, limit, reverse)
<1>2. r \in RangeRec /\ offset \in Int /\ limit \in Int
  BY SortedSetAssumption DEF RangeRec
<1>3. StoreRange(entries, r, members)
  OBVIOUS
<1> HIDE DEF limit
<1>4. PICK keys : RangesTo(zrangebyscore(zobj, r, offset, limit, reverse), want, r, offset, limit, reverse, keys)
  BY <1>1, <1>2, ZrangebyscoreIs
<1>5. keys \in Seq(DOMAIN want) /\ entries = Paired(want, keys) /\ (Meant(want, r) => keys = members)
  BY <1>4 DEF RangesTo
<1> HIDE DEF entries, members
<1>6. PICK lv \in Heights(ElesOf(entries)) :
         Become(zrangestore(entries, lv), IF Meant(want, r) THEN Of(Paired(want, members)) ELSE Of(entries), TRUE)
  BY <1>3 DEF StoreRange
<1> DEFINE hint == 0
           map == Of(Paired(want, keys))
           y == Rebuild(Paired(want, keys), hint, lv)
<1>7. hint \in Nat
  OBVIOUS
<1>8. Become(y, map, TRUE)
  BY <1>5, <1>6 DEF zrangestore
<1>9. lv \in Heights(ElesOf(Paired(want, keys)))
  BY <1>5, <1>6
<1> HIDE DEF hint
<1>10. Leaves(y, map)
  BY <1>5, <1>7, <1>9, RebuildLeaves
<1> HIDE DEF y, map
<1>11. QED
  BY <1>8, <1>10, Settles

\* zrangestore.
LEMMA ZrangestoreKeeps == IInv /\ Zrangestore => IInv'
BY StoreRankKeeps, StoreRangeKeeps DEF Zrangestore

\* A load of the dump.
LEMMA LoadKeeps == IInv /\ Load => IInv'
<1> SUFFICES ASSUME IInv, Load PROVE IInv'
  OBVIOUS
<1>1. PICK p : p \in 0 .. PAUSES /\ Good(zobj, want, p)
  BY Held
<1>2. PICK lv \in Heights(ElesOf(Walk(zobj))) : Become(load(zobj, lv), want, TRUE)
  BY DEF Load
<1>3. ElesOf(Walk(zobj)) = DOMAIN want
  BY <1>1, WalkOf
<1>4. \A x \in DOMAIN want : lv[x] \in Levels
  BY <1>2, <1>3 DEF Heights
<1>5. Adding(load(zobj, lv), want, 0, lv)
  BY <1>1, <1>4, LoadIs
<1> DEFINE y == load(zobj, lv)
           zero == 0
<1>6. zero \in 0 .. PAUSES
  BY SortedSetAssumption
<1>7. Leaves(y, want) /\ Become(y, want, TRUE)
  <2>1. Adding(y, want, zero, lv) /\ Become(y, want, TRUE)
    BY <1>2, <1>5
  <2> HIDE DEF y, zero
  <2>2. QED
    BY <1>6, <2>1, AddingLeaves
<1> HIDE DEF y
<1>8. QED
  BY <1>7, Settles

\* The result of a set operation becomes the set.
LEMMA StoreKeeps ==
    ASSUME NEW entries, NEW map, EntriesOf(entries, map), map = Only(map, DOMAIN map), Store(entries, map)
    PROVE  IInv'
<1>1. PICK keys \in Seq(Members) : IsInjective(keys) /\ ToSet(keys) = DOMAIN map /\ entries = Paired(map, keys)
  BY DEF EntriesOf
<1>2. \A x \in ToSet(keys) : map[x] \in Int
  BY <1>1 DEF EntriesOf
<1>3. PICK lv \in Heights(ElesOf(entries)) : Become(setopstore(entries, lv), map, TRUE)
  BY DEF Store
<1>4. ElesOf(entries) = ToSet(keys)
  BY <1>1, OfIs
<1>5. \A x \in ToSet(keys) : lv[x] \in Levels
  BY <1>3, <1>4 DEF Heights
<1>6. /\ Good(setopstore(Paired(map, keys), lv), Only(map, ToSet(keys)), 0)
      /\ Compact(setopstore(Paired(map, keys), lv), Only(map, ToSet(keys)))
  BY <1>1, <1>2, <1>5, SetopstoreIs
<1>7. Only(map, ToSet(keys)) = map
  BY <1>1
<1> DEFINE y == setopstore(entries, lv)
<1>8. Good(y, map, 0) /\ Compact(y, map) /\ Become(y, map, TRUE)
  BY <1>1, <1>3, <1>6, <1>7
<1>9. 0 \in 0 .. PAUSES
  BY SortedSetAssumption
<1> HIDE DEF y
<1>10. Leaves(y, map)
  BY <1>8, <1>9 DEF Leaves
<1>11. QED
  BY <1>8, <1>10, Settles

\* What a set operation promises is a map.
LEMMA MergedMap ==
    ASSUME NEW a, NEW b, NEW op \in {"union", "inter", "diff"}, NEW aggregate
    PROVE  Merged(op, a, b, aggregate) = Only(Merged(op, a, b, aggregate), DOMAIN Merged(op, a, b, aggregate))
<1>1. CASE op = "union"
  <2>1. Merged(op, a, b, aggregate) = UnionMap(Valued(a, aggregate), Valued(b, aggregate), aggregate)
    BY <1>1, MergedIs
  <2>2. QED
    BY <2>1 DEF UnionMap, Only
<1>2. CASE op = "inter"
  <2>1. Merged(op, a, b, aggregate) = InterMap(Valued(a, aggregate), Valued(b, aggregate), aggregate)
    BY <1>2, MergedIs
  <2>2. QED
    BY <2>1 DEF InterMap, Only
<1>3. CASE op = "diff"
  <2>1. Merged(op, a, b, aggregate) = Only(a, DOMAIN a \ DOMAIN b)
    BY <1>3, MergedIs
  <2>2. QED
    BY <2>1 DEF Only
<1>4. QED
  BY <1>1, <1>2, <1>3

\* zunionstore, zinterstore and zdiffstore.
LEMMA ZsetopstoreKeeps == IInv /\ Zsetopstore => IInv'
<1> SUFFICES ASSUME IInv, Zsetopstore PROVE IInv'
  OBVIOUS
<1>1. PICK p : p \in 0 .. PAUSES /\ Good(zobj, want, p)
  BY Held
<1>2. Numbers(want)
  BY Held
<1>3. PICK lp \in Operands, aggregate \in Aggregates :
         \/ \E op \in {"union", "inter", "diff"} :
               Store(SetOp(op, zobj, Listpack(lp), aggregate), Merged(op, want, Of(lp), aggregate))
         \/ Store(SetOp("diff", Listpack(lp), zobj, aggregate), Merged("diff", Of(lp), want, aggregate))
  BY DEF Zsetopstore
<1> DEFINE z == Listpack(lp)
           other == Of(lp)
           zero == 0
<1>4. Good(z, other, zero) /\ Numbers(other)
  BY OperandIs
<1> HIDE DEF z, other, zero
<1>5. CASE \E op \in {"union", "inter", "diff"} :
              Store(SetOp(op, zobj, z, aggregate), Merged(op, want, other, aggregate))
  <2>1. PICK op \in {"union", "inter", "diff"} :
           Store(SetOp(op, zobj, z, aggregate), Merged(op, want, other, aggregate))
    BY <1>5
  <2> DEFINE entries == SetOp(op, zobj, z, aggregate)
             map == Merged(op, want, other, aggregate)
  <2>2. EntriesOf(entries, map)
    BY <1>1, <1>2, <1>4, SetOpIs
  <2>3. map = Only(map, DOMAIN map)
    BY MergedMap
  <2>4. Store(entries, map)
    BY <2>1
  <2> HIDE DEF entries, map
  <2>5. QED
    BY <2>2, <2>3, <2>4, StoreKeeps
<1>6. CASE Store(SetOp("diff", z, zobj, aggregate), Merged("diff", other, want, aggregate))
  <2> DEFINE op == "diff"
             entries == SetOp(op, z, zobj, aggregate)
             map == Merged(op, other, want, aggregate)
  <2>1. op \in {"union", "inter", "diff"} /\ Store(entries, map)
    BY <1>6
  <2> HIDE DEF op
  <2>2. EntriesOf(entries, map)
    BY <1>1, <1>2, <1>4, <2>1, SetOpIs
  <2>3. map = Only(map, DOMAIN map)
    BY <2>1, MergedMap
  <2> HIDE DEF entries, map
  <2>4. QED
    BY <2>1, <2>2, <2>3, StoreKeeps
<1>7. QED
  BY <1>3, <1>5, <1>6 DEF z, other

\* Every step.
LEMMA NextKeeps == IInv /\ [Next]_vars => IInv'
<1> SUFFICES ASSUME IInv, [Next]_vars PROVE IInv'
  OBVIOUS
<1>1. CASE UNCHANGED vars
  BY <1>1 DEF vars, IInv
<1>2. CASE Next
  BY <1>2, ZaddKeeps, ZincrbyKeeps, ZremKeeps, ZremrangebyrankKeeps, ZremrangeKeeps, ZpopKeeps,
     LookupKeeps, ZrandmemberKeeps, ZrangestoreKeeps, LoadKeeps, ZsetopstoreKeeps DEF Next
<1>3. QED
  BY <1>1, <1>2

-----------------------------------------------------------------------------
(* The theorems. *)

\* The handle's object always holds exactly the map that the commands so far should have
\* left, as a listpack within its limits or as a skiplist and a hash table in step, and
\* every command replied what it should have.
THEOREM Soundness == Spec => []IInv
<1>1. Init => IInv
  BY InitIInv
<1>2. IInv /\ [Next]_vars => IInv'
  BY NextKeeps
<1>3. QED
  BY <1>1, <1>2, PTL DEF Spec

\* The entries of a map with bounded scores.
LEMMA EntriesTyped ==
    ASSUME NEW m, NEW K, NEW S, DOMAIN m \subseteq K, m \in [DOMAIN m -> S], NEW s \in Seq(DOMAIN m)
    PROVE  Paired(m, s) \in Seq([ele : K, score : S])
<1> DEFINE R == [ele : K, score : S]
           w == Paired(m, s)
<1>1. PairedFacts(m, s)
  BY PairedIs
<1>2. DOMAIN w = 1 .. Len(s) /\ Len(w) = Len(s) /\ \A i \in 1 .. Len(s) : w[i] = [ele |-> s[i], score |-> m[s[i]]]
  BY <1>1 DEF PairedFacts
<1>3. w = [i \in 1 .. Len(s) |-> [ele |-> s[i], score |-> m[s[i]]]]
  BY DEF Paired
<1>4. \A i \in 1 .. Len(s) : [ele |-> s[i], score |-> m[s[i]]] \in R
  <2>1. \A i \in 1 .. Len(s) : s[i] \in DOMAIN m
    OBVIOUS
  <2>2. \A x \in DOMAIN m : x \in K /\ m[x] \in S
    OBVIOUS
  <2>3. QED
    BY <2>1, <2>2
<1> HIDE DEF R, w
<1>5. \A i \in 1 .. Len(s) : w[i] \in R
  BY <1>2, <1>4
<1>6. Len(s) \in Nat
  OBVIOUS
<1>7. w \in [1 .. Len(s) -> R]
  <2> DEFINE F(i) == [ele |-> s[i], score |-> m[s[i]]]
  <2>1. w = [i \in 1 .. Len(s) |-> F(i)] /\ \A i \in 1 .. Len(s) : F(i) \in R
    BY <1>3, <1>4
  <2> HIDE DEF F
  <2>2. QED
    BY <2>1
<1>8. w \in Seq(R)
  BY <1>6, <1>7
<1>9. QED
  BY <1>8 DEF w, R

\* The invariant has the types.
LEMMA IInvType == IInv => TypeOK
<1> SUFFICES ASSUME IInv PROVE TypeOK
  OBVIOUS
<1>1. PICK p : p \in 0 .. PAUSES /\ Good(zobj, want, p) /\ zobj.dict.pauseAutoResize = p
  BY Held
<1>2. Compact(zobj, want) /\ want \in [DOMAIN want -> Scores] /\ exact = TRUE
  BY DEF IInv, Inductive
<1>3. MapFacts(want) /\ (IsListpack(zobj, want, p) \/ IsSkiplist(zobj, want, p))
  BY <1>1, GoodCases
<1>4. DOMAIN want \subseteq Members /\ Sorted(want) \in Seq(DOMAIN want) /\ zset_max_listpack_entries \in Nat
  BY <1>3, SortedSetAssumption DEF MapFacts
<1>5. CASE IsListpack(zobj, want, p)
  <2>1. /\ zobj.encoding = "listpack" /\ zobj.lp = Paired(want, Sorted(want)) /\ zobj.zsl = zslCreate
    BY <1>5 DEF IsListpack
  <2>2. Len(Sorted(want)) <= zset_max_listpack_entries /\ DOMAIN want \cap LongMembers = {}
    BY <1>2, <2>1 DEF Compact
  <2>3. Len(Paired(want, Sorted(want))) = Len(Sorted(want))
    BY <1>4, PairedIs DEF PairedFacts
  <2>4. DOMAIN want \subseteq Members \ LongMembers
    BY <1>4, <2>2
  <2>5. Paired(want, Sorted(want)) \in Seq([ele : Members \ LongMembers, score : Scores])
    BY <1>2, <1>4, <2>4, EntriesTyped
  <2>6. Nodes(zobj.zsl) = {} /\ zobj.zsl.score \in [{} -> Scores]
    BY <2>1 DEF zslCreate, Nodes
  <2>7. QED
    BY <1>1, <1>2, <2>1, <2>2, <2>3, <2>5, <2>6 DEF TypeOK
<1>6. CASE IsSkiplist(zobj, want, p)
  <2>1. /\ zobj.encoding = "skiplist" /\ zobj.lp = <<>> /\ zobj.zsl.score = want
    BY <1>6 DEF IsSkiplist
  <2>2. Nodes(zobj.zsl) = DOMAIN want
    BY <2>1 DEF Nodes
  <2>3. Len(zobj.lp) = 0 /\ zobj.lp \in Seq([ele : Members \ LongMembers, score : Scores])
    BY <2>1
  <2>4. QED
    BY <1>1, <1>2, <1>4, <2>1, <2>2, <2>3 DEF TypeOK
<1>7. QED
  BY <1>3, <1>5, <1>6

\* The invariant has the linked list and the hash table.
LEMMA IInvSound == IInv => SkiplistSound /\ DictSound
<1> SUFFICES ASSUME IInv PROVE SkiplistSound /\ DictSound
  OBVIOUS
<1>1. PICK p : Good(zobj, want, p)
  BY Held
<1>2. /\ zobj.zsl.asserts = TRUE /\ LinkedAs(zobj.zsl, Sorted(zobj.zsl.score))
      /\ zobj.dict.asserts = TRUE /\ WellPlaced(zobj.dict) /\ Holds(zobj.dict, Nodes(zobj.zsl))
  BY <1>1, SoundOf
<1>3. QED
  BY <1>2 DEF SkiplistSound, DictSound

\* The invariant has what the commands promise.
LEMMA IInvExact == IInv => CommandsExact
<1> SUFFICES ASSUME IInv PROVE CommandsExact
  OBVIOUS
<1>1. PICK p : Good(zobj, want, p)
  BY Held
<1>2. Of(Walk(zobj)) = want /\ zsetLength(zobj) = Cardinality(DOMAIN want)
  BY <1>1, WalkOf
<1>3. exact = TRUE
  BY DEF IInv, Inductive
<1>4. QED
  BY <1>2, <1>3 DEF CommandsExact

\* A range by rank.
LEMMA RankQuery ==
    ASSUME IInv, NEW span \in Spans, NEW reverse \in BOOLEAN
    PROVE  zrangebyrank(zobj, Sanitize(zsetLength(zobj), span[1], span[2]), reverse)
               = Paired(want, ListedAt(want, span, reverse))
<1>1. PICK p : Good(zobj, want, p)
  BY Held
<1> DEFINE n == zsetLength(zobj)
           b == Sanitize(n, span[1], span[2])
<1>2. n \in Nat /\ n = Len(Sorted(want)) /\ GoodMap(want) /\ span \in Int \X Int
  BY Held, SortedSetAssumption
<1>3. Bounds(n, b) /\ PlacesOf(n, span) = b[1] .. b[2]
  <2> HIDE DEF n
  <2>1. QED
    BY <1>2, SanitizeIs
<1> SUFFICES zrangebyrank(zobj, b, reverse) = Paired(want, ListedAt(want, span, reverse))
  OBVIOUS
<1> HIDE DEF n, b
<1>4. ListedAt(want, span, reverse) = SubSeq(Listed(want, reverse), b[1] + 1, b[2] + 1)
  BY <1>2, <1>3, ListedAtIs
<1>5. Bounds(Len(Sorted(want)), b)
  BY <1>2, <1>3
<1>6. zrangebyrank(zobj, b, reverse) = Paired(want, SubSeq(Listed(want, reverse), b[1] + 1, b[2] + 1))
  BY <1>1, <1>5, ZrangebyrankIs
<1>7. QED
  BY <1>4, <1>6

\* A range by score or by member.
LEMMA RangeQuery ==
    ASSUME IInv, NEW r \in Ranges, Meant(want, r), NEW offset \in Offsets, NEW limit \in Int, NEW reverse \in BOOLEAN
    PROVE  zrangebyscore(zobj, r, offset, limit, reverse)
               = Paired(want, Limited(ListedIn(want, r, reverse), offset, limit))
<1>1. PICK p : Good(zobj, want, p)
  BY Held
<1>2. r \in RangeRec /\ offset \in Int
  BY SortedSetAssumption DEF RangeRec
<1>3. PICK keys : RangesTo(zrangebyscore(zobj, r, offset, limit, reverse), want, r, offset, limit, reverse, keys)
  BY <1>1, <1>2, ZrangebyscoreIs
<1>4. QED
  BY <1>3 DEF RangesTo

\* The invariant has the answers of the queries.
LEMMA IInvQueries == IInv => QueriesExact
<1> SUFFICES ASSUME IInv PROVE QueriesExact
  OBVIOUS
<1>1. PICK p : Good(zobj, want, p)
  BY Held
<1>2. \A x \in Members : zsetScore(zobj, x) = IF x \in DOMAIN want THEN want[x] ELSE NaN
  BY <1>1, TouchIs
<1>3. ASSUME NEW x \in Members, NEW reverse \in BOOLEAN
      PROVE  zsetRank(zobj, x, reverse) + 1 = SelectInSeq(Listed(want, reverse), LAMBDA y : y = x)
  BY <1>1, ZsetRankIs
<1>4. ASSUME NEW span \in Spans, NEW reverse \in BOOLEAN
      PROVE  zrangebyrank(zobj, Sanitize(zsetLength(zobj), span[1], span[2]), reverse)
                 = Paired(want, ListedAt(want, span, reverse))
  BY RankQuery
<1>5. ASSUME NEW r \in Ranges, Meant(want, r)
      PROVE  zcount(zobj, r) = Len(ListedIn(want, r, FALSE))
  <2>1. r \in RangeRec
    BY SortedSetAssumption DEF RangeRec
  <2>2. QED
    BY <1>1, <1>5, <2>1, ZcountIs
<1>6. ASSUME NEW r \in Ranges, Meant(want, r), NEW offset \in Offsets, NEW limit \in {-1, 1}, NEW reverse \in BOOLEAN
      PROVE  zrangebyscore(zobj, r, offset, limit, reverse)
                 = Paired(want, Limited(ListedIn(want, r, reverse), offset, limit))
  <2>1. limit \in Int
    OBVIOUS
  <2>2. QED
    BY <1>6, <2>1, RangeQuery
<1>7. QED
  BY <1>2, <1>3, <1>4, <1>5, <1>6 DEF QueriesExact

\* The types and limits of the object hold in every state (TypeOK).
THEOREM TypeCorrect == Spec => []TypeOK
BY Soundness, IInvType, PTL

\* After any commands the skiplist is the one its members, scores and heights call for:
\* links, spans, backward pointers, tail, length and level (SkiplistSound).
THEOREM SkiplistAlwaysSound == Spec => []SkiplistSound
BY Soundness, IInvSound, PTL

\* After any commands the hash table holds exactly the nodes of the skiplist, however far
\* a rehash has come (DictSound).
THEOREM DictAlwaysSound == Spec => []DictSound
BY Soundness, IInvSound, PTL

\* Every command leaves the members and scores, and replies, what it promises (CommandsExact).
THEOREM CommandsAlwaysExact == Spec => []CommandsExact
BY Soundness, IInvExact, PTL

\* Every query answers from the current members (QueriesExact).
THEOREM QueriesAlwaysExact == Spec => []QueriesExact
BY Soundness, IInvQueries, PTL
=============================================================================
