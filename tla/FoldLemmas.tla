---------------------------- MODULE FoldLemmas ----------------------------
(***************************************************************************)
(* Induction over data in a form the provers can use.  The library's       *)
(* induction theorems take an operator; here the induction hypothesis is a *)
(* set of naturals, and a fold is described by a function, so every lemma  *)
(* is first order.                                                         *)
(***************************************************************************)
EXTENDS Integers, Sequences, FiniteSets, SequencesExt, FiniteSetsExt, Functions,
        WellFoundedInduction, SequenceTheorems, FiniteSetTheorems, TLAPS

\* Induction on the natural numbers, for a set of them.
LEMMA NatSet ==
    ASSUME NEW S \in SUBSET Nat, 0 \in S, \A n \in S : n + 1 \in S
    PROVE  S = Nat
<1> DEFINE T == Nat \ S
<1>1. SUFFICES ASSUME T # {} PROVE FALSE
  OBVIOUS
<1>2. PICK x \in T : \A y \in T : ~(<<y, x>> \in OpToRel(<, Nat))
  <2>1. T \subseteq Nat
    OBVIOUS
  <2> HIDE DEF T
  <2>2. QED
    BY <1>1, <2>1, NatLessThanWellFounded, WFMin, Zenon
<1>3. \A y \in T : ~(y < x)
  BY <1>2 DEF OpToRel
<1>4. x # 0 /\ x - 1 \in Nat /\ x - 1 \notin T
  BY <1>3
<1>5. QED
  BY <1>4

\* The same up to a bound.
LEMMA UpTo ==
    ASSUME NEW N \in Nat, NEW S, 0 \in S,
           \A n \in 0 .. (N - 1) : n \in S => n + 1 \in S
    PROVE  \A n \in 0 .. N : n \in S
<1> DEFINE T == {n \in Nat : n <= N => n \in S}
<1>1. T \in SUBSET Nat /\ 0 \in T
  OBVIOUS
<1>2. \A n \in T : n + 1 \in T
  OBVIOUS
<1>3. T = Nat
  <2> HIDE DEF T
  <2>1. QED
    BY <1>1, <1>2, NatSet
<1>4. QED
  BY <1>3

\* Max finds the largest element, if there is one.
LEMMA MaxIs ==
    ASSUME NEW S \in SUBSET Int, NEW m \in S, \A x \in S : m >= x
    PROVE  Max(S) = m
<1>1. \E x \in S : \A y \in S : x >= y
  OBVIOUS
<1>2. Max(S) \in S /\ \A y \in S : Max(S) >= y
  BY <1>1, Zenon DEF Max
<1>3. Max(S) \in Int /\ m \in Int /\ Max(S) >= m /\ m >= Max(S)
  BY <1>2
<1>4. QED
  BY <1>3

\* A non-empty set of naturals with a bound has a largest element.
LEMMA MaxExists ==
    ASSUME NEW N \in Nat, NEW S \in SUBSET (0 .. N), S # {}
    PROVE  Max(S) \in S /\ \A x \in S : Max(S) >= x
<1>1. SUFFICES \E m \in S : \A x \in S : m >= x
  BY Zenon DEF Max
<1>2. SUFFICES ASSUME \A m \in S : \E x \in S : x > m PROVE FALSE
  OBVIOUS
<1> DEFINE T == {k \in 0 .. N : \A x \in S : x + k <= N}
<1>3. 0 \in T
  OBVIOUS
<1>4. ASSUME NEW n \in 0 .. (N - 1), n \in T PROVE n + 1 \in T
  <2>1. ASSUME NEW x \in S PROVE x + (n + 1) <= N
    <3>1. PICK y \in S : y > x
      BY <1>2
    <3>2. x \in Int /\ y \in Int /\ y + n <= N
      BY <1>4
    <3>3. QED
      BY <3>1, <3>2
  <2>2. QED
    BY <2>1
<1>5. N \in T
  <2> HIDE DEF T
  <2>1. QED
    BY <1>3, <1>4, UpTo
<1>6. PICK x \in S : TRUE
  OBVIOUS
<1>7. PICK y \in S : y > x
  BY <1>2
<1>8. y + N <= N /\ x \in 0 .. N /\ y \in 0 .. N
  BY <1>5
<1>9. QED
  BY <1>7, <1>8

\* The largest element of a part of 1 .. N, and what is left without it.
LEMMA MaxOfPart ==
    ASSUME NEW N \in Nat, NEW S \in SUBSET (1 .. N), S # {}
    PROVE  Max(S) \in 1 .. N /\ S \ {Max(S)} \in SUBSET (1 .. N)
<1>1. S \in SUBSET (0 .. N)
  OBVIOUS
<1>2. Max(S) \in S
  BY <1>1, MaxExists
<1>3. QED
  BY <1>2

\* The first n numbers, and the largest of them.
LEMMA MaxOfInitial ==
    ASSUME NEW N \in Nat, NEW n \in 1 .. N
    PROVE  /\ 1 .. n \in SUBSET (1 .. N) /\ 1 .. n # {}
           /\ Max(1 .. n) = n /\ (1 .. n) \ {n} = 1 .. (n - 1)
<1>1. 1 .. n \in SUBSET Int /\ n \in 1 .. n /\ \A x \in 1 .. n : n >= x
  OBVIOUS
<1>2. Max(1 .. n) = n
  BY <1>1, MaxIs
<1>3. 1 .. n \in SUBSET (1 .. N) /\ 1 .. n # {} /\ (1 .. n) \ {n} = 1 .. (n - 1)
  BY <1>1
<1>4. QED
  BY <1>2, <1>3

\* Induction on sequences that grow at the end, for a set of them.
LEMMA SeqSet ==
    ASSUME NEW S, NEW P \in SUBSET Seq(S), <<>> \in P,
           \A s \in P : \A x \in S : Append(s, x) \in P
    PROVE  P = Seq(S)
<1> DEFINE T == {n \in Nat : \A s \in Seq(S) : Len(s) = n => s \in P}
<1>1. 0 \in T
  <2>1. \A s \in Seq(S) : Len(s) = 0 => s = <<>>
    OBVIOUS
  <2>2. QED
    BY <2>1
<1>2. ASSUME NEW n \in T PROVE n + 1 \in T
  <2>1. ASSUME NEW s \in Seq(S), Len(s) = n + 1 PROVE s \in P
    <3>1. s # <<>>
      BY <2>1
    <3>2. PICK r \in Seq(S), x \in S : s = Append(r, x)
      BY <3>1, SequenceEmptyOrAppend
    <3>3. Len(r) = n
      BY <2>1, <3>2
    <3>4. r \in P
      BY <1>2, <3>3
    <3>5. QED
      BY <3>2, <3>4
  <2>2. QED
    BY <2>1
<1>3. T = Nat
  <2>1. T \in SUBSET Nat
    OBVIOUS
  <2> HIDE DEF T
  <2>2. QED
    BY <1>1, <1>2, <2>1, NatSet
<1>4. ASSUME NEW s \in Seq(S) PROVE s \in P
  <2>1. Len(s) \in T
    BY <1>3
  <2>2. QED
    BY <2>1
<1>5. QED
  BY <1>4

\* Concatenation is associative; named, so that a proof can cite one instance of it.
Associative(a, b, c) == (a \o b) \o c = a \o (b \o c)

\* Concatenation is associative.
LEMMA ConcatAssoc ==
    ASSUME NEW S, NEW a \in Seq(S), NEW b \in Seq(S), NEW c \in Seq(S)
    PROVE  Associative(a, b, c)
BY ConcatAssociative DEF Associative

\* The length and the elements of a concatenation.
Joined(s, t) ==
    /\ Len(s) \in Nat /\ Len(t) \in Nat /\ Len(s \o t) = Len(s) + Len(t)
    /\ \A i \in 1 .. Len(s) : (s \o t)[i] = s[i]
    /\ \A i \in 1 .. Len(t) : (s \o t)[Len(s) + i] = t[i]

\* A concatenation of sequences is one, of which Joined holds.
LEMMA Join ==
    ASSUME NEW S, NEW s \in Seq(S), NEW t \in Seq(S)
    PROVE  s \o t \in Seq(S) /\ Joined(s, t)
BY DEF Joined

\* Sequences are equal when their elements are.
LEMMA SameElements ==
    ASSUME NEW S, NEW s \in Seq(S), NEW t \in Seq(S), Len(s) = Len(t),
           \A i \in 1 .. Len(s) : s[i] = t[i]
    PROVE  s = t
BY SeqEqual

\* t in the place of s[i], ..., s[j].
Splice(s, i, j, t) == (SubSeq(s, 1, i - 1) \o t) \o SubSeq(s, j + 1, Len(s))

Spliced(new, s, i, j, t) ==
    /\ Len(new) = (Len(s) - ((j - i) + 1)) + Len(t)
    /\ \A k \in 1 .. (i - 1) : new[k] = s[k]
    /\ \A k \in 1 .. Len(t) : new[(i - 1) + k] = t[k]
    /\ \A k \in (j + 1) .. Len(s) : new[((i - 1) + Len(t)) + (k - j)] = s[k]

\* The parts that a splice keeps.
LEMMA Kept ==
    ASSUME NEW S, NEW s \in Seq(S), NEW i \in 1 .. Len(s), NEW j \in i .. Len(s)
    PROVE  /\ SubSeq(s, 1, i - 1) \in Seq(S) /\ Len(SubSeq(s, 1, i - 1)) = i - 1
           /\ \A k \in 1 .. (i - 1) : SubSeq(s, 1, i - 1)[k] = s[k]
           /\ SubSeq(s, j + 1, Len(s)) \in Seq(S) /\ Len(SubSeq(s, j + 1, Len(s))) = Len(s) - j
           /\ \A k \in 1 .. (Len(s) - j) : SubSeq(s, j + 1, Len(s))[k] = s[j + k]
<1>1. /\ SubSeq(s, 1, i - 1) \in Seq(S) /\ Len(SubSeq(s, 1, i - 1)) = i - 1
      /\ \A k \in 1 .. (i - 1) : SubSeq(s, 1, i - 1)[k] = s[k]
  OBVIOUS
<1>2. /\ SubSeq(s, j + 1, Len(s)) \in Seq(S) /\ Len(SubSeq(s, j + 1, Len(s))) = Len(s) - j
      /\ \A k \in 1 .. (Len(s) - j) : SubSeq(s, j + 1, Len(s))[k] = s[j + k]
  OBVIOUS
<1>3. QED
  BY <1>1, <1>2

\* What a splice consists of.
LEMMA SpliceElements ==
    ASSUME NEW S, NEW s \in Seq(S), NEW t \in Seq(S), NEW i \in 1 .. Len(s), NEW j \in i .. Len(s)
    PROVE  Splice(s, i, j, t) \in Seq(S) /\ Spliced(Splice(s, i, j, t), s, i, j, t)
<1> DEFINE a == SubSeq(s, 1, i - 1)
           c == SubSeq(s, j + 1, Len(s))
<1>1. /\ a \in Seq(S) /\ Len(a) = i - 1 /\ \A k \in 1 .. (i - 1) : a[k] = s[k]
      /\ c \in Seq(S) /\ Len(c) = Len(s) - j /\ \A k \in 1 .. (Len(s) - j) : c[k] = s[j + k]
  BY Kept
<1> HIDE DEF a, c
<1>2. a \o t \in Seq(S) /\ Joined(a, t)
  BY <1>1, Join, Zenon
<1>3. (a \o t) \o c \in Seq(S) /\ Joined(a \o t, c)
  BY <1>1, <1>2, Join, Zenon
<1> DEFINE new == (a \o t) \o c
<1>4. new = Splice(s, i, j, t)
  BY DEF a, c, Splice
<1>5. Len(s) \in Nat /\ Len(t) \in Nat
  OBVIOUS
<1>6. Len(a \o t) = (i - 1) + Len(t)
  BY <1>1, <1>2, <1>5 DEF Joined
<1>7. Len(new) = (Len(s) - ((j - i) + 1)) + Len(t)
  BY <1>1, <1>3, <1>5, <1>6 DEF Joined
<1>8. \A k \in 1 .. (i - 1) : new[k] = s[k]
  <2>1. SUFFICES ASSUME NEW k \in 1 .. (i - 1) PROVE new[k] = s[k]
    OBVIOUS
  <2>2. k \in 1 .. Len(a) /\ k \in 1 .. Len(a \o t)
    BY <1>1, <1>5, <1>6
  <2>3. (a \o t)[k] = a[k] /\ new[k] = (a \o t)[k]
    BY <1>2, <1>3, <2>2 DEF Joined
  <2>4. QED
    BY <1>1, <2>3
<1>9. \A k \in 1 .. Len(t) : new[(i - 1) + k] = t[k]
  <2>1. SUFFICES ASSUME NEW k \in 1 .. Len(t) PROVE new[(i - 1) + k] = t[k]
    OBVIOUS
  <2>2. (i - 1) + k \in 1 .. Len(a \o t)
    BY <1>5, <1>6
  <2>3. new[(i - 1) + k] = (a \o t)[(i - 1) + k]
    BY <1>3, <2>2 DEF Joined
  <2>4. (a \o t)[Len(a) + k] = t[k]
    BY <1>2 DEF Joined
  <2>5. QED
    BY <1>1, <2>3, <2>4
<1>10. \A k \in (j + 1) .. Len(s) : new[((i - 1) + Len(t)) + (k - j)] = s[k]
  <2>1. SUFFICES ASSUME NEW k \in (j + 1) .. Len(s) PROVE new[((i - 1) + Len(t)) + (k - j)] = s[k]
    OBVIOUS
  <2>2. k - j \in 1 .. Len(c) /\ j + (k - j) = k
    BY <1>1, <1>5
  <2>3. new[Len(a \o t) + (k - j)] = c[k - j]
    BY <1>3, <2>2 DEF Joined
  <2>4. c[k - j] = s[k]
    BY <1>1, <2>2
  <2>5. QED
    BY <1>6, <2>3, <2>4
<1> HIDE DEF new
<1>11. Spliced(new, s, i, j, t)
  BY <1>7, <1>8, <1>9, <1>10 DEF Spliced
<1>12. QED
  BY <1>3, <1>4, <1>11 DEF new

\* Putting back what was there changes nothing.
LEMMA SpliceBack ==
    ASSUME NEW S, NEW s \in Seq(S), NEW i \in 1 .. Len(s), NEW j \in i .. Len(s), NEW t \in Seq(S),
           Len(t) = (j - i) + 1, \A k \in 1 .. Len(t) : t[k] = s[(i - 1) + k]
    PROVE  Splice(s, i, j, t) = s
<1> DEFINE new == Splice(s, i, j, t)
<1>1. new \in Seq(S) /\ Spliced(new, s, i, j, t)
  BY SpliceElements
<1> HIDE DEF new
<1>2. Len(new) = Len(s) /\ Len(s) \in Nat
  BY <1>1 DEF Spliced
<1>3. ASSUME NEW k \in 1 .. Len(s) PROVE new[k] = s[k]
  <2>1. CASE k < i
    <3>1. k \in 1 .. (i - 1)
      BY <1>2, <2>1
    <3>2. QED
      BY <1>1, <3>1 DEF Spliced
  <2>2. CASE i <= k /\ k <= j
    <3>1. k - (i - 1) \in 1 .. Len(t) /\ (i - 1) + (k - (i - 1)) = k
      BY <1>2, <2>2
    <3>2. new[(i - 1) + (k - (i - 1))] = t[k - (i - 1)]
      BY <1>1, <3>1 DEF Spliced
    <3>3. QED
      BY <3>1, <3>2
  <2>3. CASE k > j
    <3> DEFINE n == Len(s)
    <3>1. n \in Nat /\ k \in 1 .. n /\ i \in 1 .. n /\ j \in i .. n
      BY <1>2
    <3> HIDE DEF n
    <3>2. k \in (j + 1) .. n /\ ((i - 1) + ((j - i) + 1)) + (k - j) = k
      BY <2>3, <3>1
    <3>3. k \in (j + 1) .. Len(s) /\ ((i - 1) + Len(t)) + (k - j) = k
      BY <3>2 DEF n
    <3>4. QED
      BY <1>1, <3>3 DEF Spliced
  <2>4. QED
    BY <1>2, <2>1, <2>2, <2>3
<1>4. new = s
  BY <1>1, <1>2, <1>3, SameElements
<1>5. QED
  BY <1>4 DEF new

-----------------------------------------------------------------------------

\* it is the function a left fold of F from b over 1 .. N computes: MapThenFoldSet's
\* iterator, with the operator given as a function.
Iterates(it, N, b, F) ==
    it = [S \in SUBSET (1 .. N) |->
            IF S = {} THEN b ELSE F[<<Max(S), it[S \ {Max(S)}]>>]]

\* The recursive equation of a fold has a solution.
LEMMA IteratorExists ==
    ASSUME NEW M \in Nat, NEW D, NEW b \in D, NEW F \in [(1 .. M) \X D -> D]
    PROVE  \E it \in [SUBSET (1 .. M) -> D] : Iterates(it, M, b, F)
<1> DEFINE T == {N \in 0 .. M : \E it \in [SUBSET (1 .. N) -> D] : Iterates(it, N, b, F)}
<1>1. 0 \in T
  <2> DEFINE it == [S \in SUBSET (1 .. 0) |-> b]
  <2>1. \A S \in SUBSET (1 .. 0) : S = {}
    OBVIOUS
  <2>2. it \in [SUBSET (1 .. 0) -> D] /\ Iterates(it, 0, b, F)
    BY <2>1 DEF Iterates
  <2>3. QED
    BY <2>2
<1>2. ASSUME NEW N \in 0 .. (M - 1), N \in T PROVE N + 1 \in T
  <2>1. PICK it \in [SUBSET (1 .. N) -> D] : Iterates(it, N, b, F)
    BY <1>2
  <2> DEFINE up == [S \in SUBSET (1 .. (N + 1)) |->
                      IF N + 1 \in S THEN F[<<N + 1, it[S \ {N + 1}]>>] ELSE it[S]]
  <2>2. \A S \in SUBSET (1 .. (N + 1)) :
            /\ S \ {N + 1} \in SUBSET (1 .. N)
            /\ N + 1 \notin S => S \in SUBSET (1 .. N)
    OBVIOUS
  <2>3. up \in [SUBSET (1 .. (N + 1)) -> D]
    <3>1. ASSUME NEW S \in SUBSET (1 .. (N + 1))
          PROVE  (IF N + 1 \in S THEN F[<<N + 1, it[S \ {N + 1}]>>] ELSE it[S]) \in D
      <4>1. N + 1 \in 1 .. M
        OBVIOUS
      <4>2. CASE N + 1 \in S
        BY <2>2, <4>1, <4>2
      <4>3. CASE N + 1 \notin S
        BY <2>2, <4>3
      <4>4. QED
        BY <4>2, <4>3
    <3>2. QED
      BY <3>1
  <2>4. ASSUME NEW S \in SUBSET (1 .. (N + 1)), S # {}
        PROVE  up[S] = F[<<Max(S), up[S \ {Max(S)}]>>]
    <3>1. CASE N + 1 \in S
      <4>1. Max(S) = N + 1
        BY <3>1, MaxIs
      <4>2. S \ {N + 1} \in SUBSET (1 .. (N + 1)) /\ N + 1 \notin S \ {N + 1}
        OBVIOUS
      <4>3. up[S \ {N + 1}] = it[S \ {N + 1}]
        BY <4>2
      <4>4. QED
        BY <3>1, <4>1, <4>3
    <3>2. CASE N + 1 \notin S
      <4>1. S \in SUBSET (1 .. N)
        BY <2>2, <3>2
      <4>2. it[S] = F[<<Max(S), it[S \ {Max(S)}]>>]
        BY <2>1, <2>4, <4>1 DEF Iterates
      <4>3. S \ {Max(S)} \in SUBSET (1 .. (N + 1)) /\ N + 1 \notin S \ {Max(S)}
        BY <3>2
      <4>4. up[S \ {Max(S)}] = it[S \ {Max(S)}] /\ up[S] = it[S]
        BY <3>2, <4>3
      <4>5. QED
        BY <4>2, <4>4
    <3>3. QED
      BY <3>1, <3>2
  <2>5. up[{}] = b
    <3>1. {} \in SUBSET (1 .. (N + 1)) /\ {} \in SUBSET (1 .. N)
      OBVIOUS
    <3>2. it[{}] = b
      BY <2>1, <3>1 DEF Iterates
    <3>3. QED
      BY <3>1, <3>2
  <2>6. Iterates(up, N + 1, b, F)
    <3> HIDE DEF up
    <3>1. \A S \in SUBSET (1 .. (N + 1)) :
             up[S] = IF S = {} THEN b ELSE F[<<Max(S), up[S \ {Max(S)}]>>]
      BY <2>4, <2>5
    <3>2. QED
      BY <2>3, <3>1 DEF Iterates
  <2>7. QED
    <3> HIDE DEF up
    <3>1. QED
      BY <2>3, <2>6
<1>3. M \in T
  <2> HIDE DEF T
  <2>1. QED
    BY <1>1, <1>2, UpTo
<1>4. QED
  BY <1>3

\* g holds the values of the accumulator: g[n] after n elements.
Accumulates(g, N, b, F, D) ==
    /\ g \in [0 .. N -> D] /\ g[0] = b
    /\ \A n \in 1 .. N : g[n] = F[<<n, g[n - 1]>>]

\* What the iterator computes for 1 .. n is the accumulator after n elements.
LEMMA AccumulatorOf ==
    ASSUME NEW N \in Nat, NEW D, NEW b \in D, NEW F \in [(1 .. N) \X D -> D],
           NEW it, it[{}] = b,
           \A n \in 1 .. N : it[1 .. (n - 1)] \in D => it[1 .. n] = F[<<n, it[1 .. (n - 1)]>>]
    PROVE  Accumulates([n \in 0 .. N |-> it[1 .. n]], N, b, F, D)
<1> DEFINE T == {n \in 0 .. N : it[1 .. n] \in D}
<1>1. 1 .. 0 = {}
  OBVIOUS
<1>2. 0 \in T
  BY <1>1
<1>3. ASSUME NEW n \in 0 .. (N - 1), n \in T PROVE n + 1 \in T
  <2>1. n + 1 \in 1 .. N /\ (n + 1) - 1 = n
    OBVIOUS
  <2>2. it[1 .. (n + 1)] = F[<<n + 1, it[1 .. n]>>]
    BY <1>3, <2>1
  <2>3. QED
    BY <1>3, <2>1, <2>2
<1>4. \A n \in 0 .. N : n \in T
  <2> HIDE DEF T
  <2>1. QED
    BY <1>2, <1>3, UpTo
<1> DEFINE g == [n \in 0 .. N |-> it[1 .. n]]
<1>5. g \in [0 .. N -> D] /\ g[0] = b
  BY <1>1, <1>4
<1>6. ASSUME NEW n \in 1 .. N PROVE g[n] = F[<<n, g[n - 1]>>]
  <2>1. n - 1 \in 0 .. N /\ n \in 0 .. N
    OBVIOUS
  <2>2. it[1 .. (n - 1)] \in D
    BY <1>4, <2>1
  <2>3. QED
    BY <2>1, <2>2
<1>7. QED
  BY <1>5, <1>6 DEF Accumulates

\* A function on 0 .. M can be defined by its value at 0 and by each value from the one
\* before.
LEMMA RecursionExists ==
    ASSUME NEW M \in Nat, NEW D, NEW b \in D, NEW F \in [(1 .. M) \X D -> D]
    PROVE  \E g : Accumulates(g, M, b, F, D)
<1>1. PICK it \in [SUBSET (1 .. M) -> D] : Iterates(it, M, b, F)
  BY IteratorExists
<1>2. it[{}] = b
  BY <1>1 DEF Iterates
<1>3. ASSUME NEW n \in 1 .. M
      PROVE  it[1 .. n] = F[<<n, it[1 .. (n - 1)]>>]
  <2>1. /\ 1 .. n \in SUBSET (1 .. M) /\ 1 .. n # {}
        /\ Max(1 .. n) = n /\ (1 .. n) \ {n} = 1 .. (n - 1)
    BY MaxOfInitial
  <2>2. it[1 .. n] = F[<<Max(1 .. n), it[(1 .. n) \ {Max(1 .. n)}]>>]
    BY <1>1, <2>1 DEF Iterates
  <2>3. QED
    BY <2>1, <2>2
<1>4. Accumulates([n \in 0 .. M |-> it[1 .. n]], M, b, F, D)
  BY <1>2, <1>3, AccumulatorOf
<1>5. QED
  BY <1>4

\* Two folds do the same with the first N elements.
Agree(F, G, N, D) == \A n \in 1 .. N : \A d \in D : F[<<n, d>>] = G[<<n, d>>]

\* Folds of two sequences agree as long as their elements do.
LEMMA AccumulatorUnique ==
    ASSUME NEW N \in Nat, NEW M \in Nat, NEW K \in Nat, K <= N, K <= M, NEW D, NEW b,
           NEW F, NEW G, NEW g, NEW h,
           Agree(F, G, K, D),
           Accumulates(g, N, b, F, D), Accumulates(h, M, b, G, D)
    PROVE  \A n \in 0 .. K : g[n] = h[n]
<1> DEFINE T == {n \in 0 .. K : g[n] = h[n]}
<1>1. 0 \in T
  BY DEF Accumulates
<1>2. ASSUME NEW n \in 0 .. (K - 1), n \in T PROVE n + 1 \in T
  <2>1. n + 1 \in 1 .. N /\ n + 1 \in 1 .. M /\ (n + 1) - 1 = n /\ n \in 0 .. N /\ n + 1 \in 1 .. K
    OBVIOUS
  <2>2. g[n + 1] = F[<<n + 1, g[n]>>] /\ h[n + 1] = G[<<n + 1, h[n]>>] /\ g[n] \in D
    BY <2>1 DEF Accumulates
  <2>3. QED
    BY <1>2, <2>1, <2>2 DEF Agree
<1>3. \A n \in 0 .. K : n \in T
  <2> HIDE DEF T
  <2>1. QED
    BY <1>1, <1>2, UpTo
<1>4. QED
  BY <1>3

\* h folds one more element than g.
Extends(h, g, N, b, G, F, D) ==
    /\ Agree(F, G, N, D)
    /\ Accumulates(g, N, b, F, D) /\ Accumulates(h, N + 1, b, G, D)

Continues(h, g, N, D) == g[N] \in D /\ h[N] = g[N]

\* The longer fold passes through the result of the shorter one.
LEMMA AccumulatorSnoc ==
    ASSUME NEW N, N \in Nat, NEW D, NEW b, NEW F, NEW G, NEW g, NEW h,
           Extends(h, g, N, b, G, F, D)
    PROVE  Continues(h, g, N, D)
<1>1. N <= N + 1 /\ N \in 0 .. N /\ N + 1 \in 1 .. (N + 1) /\ (N + 1) - 1 = N /\ N + 1 \in Nat /\ N <= N
  OBVIOUS
<1>2. g[N] = h[N]
  BY <1>1, AccumulatorUnique DEF Extends
<1>3. QED
  BY <1>1, <1>2 DEF Accumulates, Extends, Continues

-----------------------------------------------------------------------------
(* Inserting and deleting by position. *)

InsertedAt(e, pos, v) ==
    [i \in 1 .. (Len(e) + 1) |->
        IF i <= pos THEN e[i] ELSE IF i = pos + 1 THEN v ELSE e[i - 1]]

DeletedAt(e, pos) == [i \in 1 .. (Len(e) - 1) |-> IF i <= pos THEN e[i] ELSE e[i + 1]]

\* The two are sequences.
LEMMA InsertedType ==
    ASSUME NEW S, NEW e \in Seq(S), NEW pos \in 0 .. Len(e), NEW v \in S
    PROVE  InsertedAt(e, pos, v) \in Seq(S) /\ Len(InsertedAt(e, pos, v)) = Len(e) + 1
<1>1. Len(e) \in Nat /\ Len(e) + 1 \in Nat
  OBVIOUS
<1>2. ASSUME NEW i \in 1 .. (Len(e) + 1) PROVE InsertedAt(e, pos, v)[i] \in S
  <2>1. i <= pos => e[i] \in S
    BY <1>1, ElementOfSeq
  <2>2. i > pos /\ i # pos + 1 => e[i - 1] \in S
    BY <1>1, ElementOfSeq
  <2>3. QED
    BY <1>1, <2>1, <2>2 DEF InsertedAt
<1>3. InsertedAt(e, pos, v) \in [1 .. (Len(e) + 1) -> S]
  BY <1>2 DEF InsertedAt
<1>4. QED
  BY <1>1, <1>3

\* The sequence without one of its elements.
LEMMA DeletedType ==
    ASSUME NEW S, NEW e \in Seq(S), NEW pos \in 0 .. (Len(e) - 1)
    PROVE  DeletedAt(e, pos) \in Seq(S) /\ Len(DeletedAt(e, pos)) = Len(e) - 1
<1>1. Len(e) \in Nat /\ Len(e) - 1 \in Nat
  OBVIOUS
<1>2. ASSUME NEW i \in 1 .. (Len(e) - 1) PROVE DeletedAt(e, pos)[i] \in S
  <2>1. e[i] \in S /\ e[i + 1] \in S
    BY <1>1, ElementOfSeq
  <2>2. QED
    BY <1>1, <2>1 DEF DeletedAt
<1>3. DeletedAt(e, pos) \in [1 .. (Len(e) - 1) -> S]
  BY <1>2 DEF DeletedAt
<1>4. QED
  BY <1>1, <1>3

-----------------------------------------------------------------------------
(* Sequences and the sets of their elements. *)

\* The first k elements of s.
First(s, k) == {s[i] : i \in 1 .. k}

\* The elements, one after the other.
LEMMA FirstIs ==
    ASSUME NEW S, NEW s \in Seq(S)
    PROVE  /\ First(s, 0) = {} /\ First(s, Len(s)) = ToSet(s) /\ ToSet(s) \subseteq S
           /\ \A k \in 1 .. Len(s) : First(s, k) = First(s, k - 1) \cup {s[k]} /\ s[k] \in S
<1>1. Len(s) \in Nat /\ DOMAIN s = 1 .. Len(s)
  OBVIOUS
<1>2. First(s, 0) = {}
  BY DEF First
<1>3. First(s, Len(s)) = ToSet(s)
  BY <1>1 DEF First, ToSet
<1>4. ASSUME NEW k \in 1 .. Len(s) PROVE First(s, k) = First(s, k - 1) \cup {s[k]} /\ s[k] \in S
  <2>1. \A i : i \in 1 .. k <=> i \in 1 .. (k - 1) \/ i = k
    BY <1>1
  <2>2. s[k] \in S
    BY ElementOfSeq
  <2>3. QED
    BY <2>1, <2>2 DEF First
<1>5. ToSet(s) \subseteq S
  BY <1>1, ElementOfSeq DEF ToSet
<1>6. QED
  BY <1>2, <1>3, <1>4, <1>5

\* The elements of a sequence are finitely many.
LEMMA FiniteElements ==
    ASSUME NEW S, NEW s \in Seq(S)
    PROVE  IsFiniteSet(ToSet(s)) /\ Cardinality(ToSet(s)) \in Nat
<1> DEFINE T == {k \in 0 .. Len(s) : IsFiniteSet(First(s, k))}
<1>1. Len(s) \in Nat
  OBVIOUS
<1>2. 0 \in T
  <2>1. First(s, 0) = {}
    BY FirstIs
  <2>2. IsFiniteSet(First(s, 0))
    BY <2>1, FS_EmptySet, Zenon
  <2>3. QED
    BY <1>1, <2>2
<1>3. ASSUME NEW k \in 0 .. (Len(s) - 1), k \in T PROVE k + 1 \in T
  <2>1. k + 1 \in 1 .. Len(s) /\ (k + 1) - 1 = k /\ k + 1 \in 0 .. Len(s)
    BY <1>1
  <2>2. First(s, k + 1) = First(s, k) \cup {s[k + 1]}
    BY <2>1, FirstIs
  <2>3. IsFiniteSet(First(s, k))
    BY <1>3
  <2>4. IsFiniteSet(First(s, k + 1))
    BY <2>2, <2>3, FS_AddElement
  <2>5. QED
    BY <2>1, <2>4
<1>4. \A k \in 0 .. Len(s) : k \in T
  <2> HIDE DEF T
  <2>1. QED
    BY <1>1, <1>2, <1>3, UpTo
<1>5. Len(s) \in T
  <2> HIDE DEF T
  <2>1. QED
    BY <1>1, <1>4
<1>6. IsFiniteSet(ToSet(s))
  BY <1>5, FirstIs
<1>7. QED
  BY <1>6, FS_CardinalityType

\* Distinct elements are as many as the sequence is long.
LEMMA DistinctCount ==
    ASSUME NEW S, NEW s \in Seq(S), IsInjective(s)
    PROVE  IsFiniteSet(ToSet(s)) /\ Cardinality(ToSet(s)) = Len(s)
<1> DEFINE T == {k \in 0 .. Len(s) : IsFiniteSet(First(s, k)) /\ Cardinality(First(s, k)) = k}
<1>1. Len(s) \in Nat /\ DOMAIN s = 1 .. Len(s)
  OBVIOUS
<1>2. 0 \in T
  BY <1>1, FirstIs, FS_EmptySet
<1>3. ASSUME NEW k \in 0 .. (Len(s) - 1), k \in T PROVE k + 1 \in T
  <2>1. k + 1 \in 1 .. Len(s) /\ (k + 1) - 1 = k /\ k + 1 \in 0 .. Len(s)
    BY <1>1
  <2>2. First(s, k + 1) = First(s, k) \cup {s[k + 1]}
    BY <2>1, FirstIs
  <2>3. s[k + 1] \notin First(s, k)
    <3>1. \A i \in 1 .. k : i \in DOMAIN s /\ i # k + 1 /\ k + 1 \in DOMAIN s
      BY <1>1, <2>1
    <3>2. QED
      BY <3>1 DEF First, IsInjective
  <2>4. IsFiniteSet(First(s, k)) /\ Cardinality(First(s, k)) = k
    BY <1>3
  <2>5. IsFiniteSet(First(s, k + 1)) /\ Cardinality(First(s, k + 1)) = k + 1
    BY <2>2, <2>3, <2>4, FS_AddElement
  <2>6. QED
    BY <2>1, <2>5
<1>4. \A k \in 0 .. Len(s) : k \in T
  <2> HIDE DEF T
  <2>1. QED
    BY <1>1, <1>2, <1>3, UpTo
<1>5. Len(s) \in T
  <2> HIDE DEF T
  <2>1. QED
    BY <1>1, <1>4
<1>6. QED
  BY <1>5, FirstIs

\* One element more at the end.
LEMMA Appended ==
    ASSUME NEW S, NEW s \in Seq(S), NEW x \in S
    PROVE  /\ Append(s, x) \in Seq(S) /\ Len(Append(s, x)) = Len(s) + 1
           /\ ToSet(Append(s, x)) = ToSet(s) \cup {x}
           /\ IsInjective(s) /\ x \notin ToSet(s) => IsInjective(Append(s, x))
<1> DEFINE n == Len(s)
           t == Append(s, x)
<1>1. n \in Nat /\ DOMAIN s = 1 .. n
  OBVIOUS
<1>2. t \in Seq(S) /\ Len(t) = n + 1 /\ (\A i \in 1 .. n : t[i] = s[i]) /\ t[n + 1] = x
  BY <1>1
<1>3. DOMAIN t = 1 .. (n + 1)
  BY <1>2
<1> HIDE DEF t
<1>4. \A i : i \in 1 .. (n + 1) <=> i \in 1 .. n \/ i = n + 1
  BY <1>1
<1>5. ToSet(t) = ToSet(s) \cup {x}
  BY <1>1, <1>2, <1>3, <1>4 DEF ToSet
<1>6. ASSUME IsInjective(s), x \notin ToSet(s) PROVE IsInjective(t)
  <2>1. \A i \in 1 .. n : s[i] # x
    BY <1>1, <1>6 DEF ToSet
  <2>2. \A i, j \in 1 .. n : s[i] = s[j] => i = j
    BY <1>1, <1>6 DEF IsInjective
  <2>3. QED
    BY <1>2, <1>3, <1>4, <2>1, <2>2 DEF IsInjective
<1>7. QED
  BY <1>2, <1>5, <1>6 DEF t

\* The elements of a sequence with one more.
LEMMA InsertedToSet ==
    ASSUME NEW S, NEW e \in Seq(S), NEW pos \in 0 .. Len(e), NEW v \in S
    PROVE  ToSet(InsertedAt(e, pos, v)) = ToSet(e) \cup {v}
<1> DEFINE n == Len(e)
           f == InsertedAt(e, pos, v)
<1>1. n \in Nat /\ DOMAIN e = 1 .. n /\ DOMAIN f = 1 .. (n + 1)
  BY DEF InsertedAt
<1>2. ASSUME NEW i \in 1 .. n PROVE \E j \in 1 .. (n + 1) : f[j] = e[i]
  <2>1. CASE i <= pos
    <3>1. f[i] = e[i] /\ i \in 1 .. (n + 1)
      BY <1>1, <2>1 DEF InsertedAt
    <3>2. QED
      BY <3>1
  <2>2. CASE i > pos
    <3>1. i + 1 \in 1 .. (n + 1) /\ ~ (i + 1 <= pos) /\ i + 1 # pos + 1 /\ (i + 1) - 1 = i
      BY <1>1, <2>2
    <3>2. f[i + 1] = e[i]
      BY <3>1 DEF InsertedAt
    <3>3. QED
      BY <3>1, <3>2
  <2>3. QED
    BY <1>1, <2>1, <2>2
<1>3. pos + 1 \in 1 .. (n + 1) /\ f[pos + 1] = v
  BY <1>1 DEF InsertedAt
<1>4. ASSUME NEW j \in 1 .. (n + 1) PROVE f[j] = v \/ \E i \in 1 .. n : f[j] = e[i]
  <2>1. CASE j <= pos
    <3>1. f[j] = e[j] /\ j \in 1 .. n
      BY <1>1, <2>1 DEF InsertedAt
    <3>2. QED
      BY <3>1
  <2>2. CASE j = pos + 1
    BY <1>3, <2>2
  <2>3. CASE j > pos + 1
    <3>1. f[j] = e[j - 1] /\ j - 1 \in 1 .. n
      BY <1>1, <2>3 DEF InsertedAt
    <3>2. QED
      BY <3>1
  <2>4. QED
    BY <1>1, <2>1, <2>2, <2>3
<1> HIDE DEF f
<1>5. ToSet(f) = {f[j] : j \in 1 .. (n + 1)} /\ ToSet(e) = {e[i] : i \in 1 .. n}
  BY <1>1 DEF ToSet
<1>6. ToSet(f) \subseteq ToSet(e) \cup {v}
  BY <1>4, <1>5
<1>7. ToSet(e) \subseteq ToSet(f) /\ v \in ToSet(f)
  BY <1>2, <1>3, <1>5
<1>8. ToSet(f) = ToSet(e) \cup {v}
  BY <1>6, <1>7
<1>9. QED
  BY <1>8 DEF f

\* One of several distinct elements less.
LEMMA DeletedDistinct ==
    ASSUME NEW S, NEW e \in Seq(S), IsInjective(e), NEW pos \in 0 .. (Len(e) - 1)
    PROVE  /\ IsInjective(DeletedAt(e, pos))
           /\ ToSet(DeletedAt(e, pos)) = ToSet(e) \ {e[pos + 1]}
<1> DEFINE n == Len(e)
           f == DeletedAt(e, pos)
           at == [i \in 1 .. (n - 1) |-> IF i <= pos THEN i ELSE i + 1]
<1>1. n \in Nat /\ DOMAIN e = 1 .. n /\ DOMAIN f = 1 .. (n - 1) /\ pos + 1 \in 1 .. n
  BY DEF DeletedAt
<1>2. ASSUME NEW i \in 1 .. (n - 1) PROVE f[i] = e[at[i]] /\ at[i] \in 1 .. n /\ at[i] # pos + 1
  BY <1>1 DEF DeletedAt
<1>3. ASSUME NEW i \in 1 .. (n - 1), NEW j \in 1 .. (n - 1), at[i] = at[j] PROVE i = j
  BY <1>1, <1>3
<1>4. ASSUME NEW k \in 1 .. n, k # pos + 1 PROVE \E i \in 1 .. (n - 1) : at[i] = k
  <2>1. CASE k <= pos
    <3>1. k \in 1 .. (n - 1) /\ at[k] = k
      BY <1>1, <2>1
    <3>2. QED
      BY <3>1
  <2>2. CASE k > pos + 1
    <3>1. k - 1 \in 1 .. (n - 1) /\ at[k - 1] = k
      BY <1>1, <2>2
    <3>2. QED
      BY <3>1
  <2>3. QED
    BY <1>1, <1>4, <2>1, <2>2
<1>5. \A i, j \in 1 .. n : e[i] = e[j] => i = j
  BY <1>1 DEF IsInjective
<1> HIDE DEF at, f
<1>6. ToSet(f) = ToSet(e) \ {e[pos + 1]}
  <2>1. ToSet(f) = {f[j] : j \in 1 .. (n - 1)} /\ ToSet(e) = {e[i] : i \in 1 .. n}
    BY <1>1 DEF ToSet
  <2>2. ASSUME NEW j \in 1 .. (n - 1) PROVE f[j] \in ToSet(e) \ {e[pos + 1]}
    BY <1>1, <1>2, <1>5, <2>1
  <2>3. ASSUME NEW k \in 1 .. n, e[k] # e[pos + 1] PROVE e[k] \in ToSet(f)
    <3>1. PICK i \in 1 .. (n - 1) : at[i] = k
      BY <1>4, <2>3
    <3>2. f[i] = e[k]
      BY <1>2, <3>1
    <3>3. QED
      BY <2>1, <3>2
  <2>4. ToSet(f) \subseteq ToSet(e) \ {e[pos + 1]}
    BY <2>1, <2>2
  <2>5. ToSet(e) \ {e[pos + 1]} \subseteq ToSet(f)
    BY <2>1, <2>3
  <2>6. QED
    BY <2>4, <2>5
<1>7. IsInjective(f)
  <2>1. ASSUME NEW i \in 1 .. (n - 1), NEW j \in 1 .. (n - 1), f[i] = f[j] PROVE i = j
    <3>1. at[i] = at[j]
      BY <1>2, <1>5, <2>1
    <3>2. QED
      BY <1>3, <3>1
  <2>2. QED
    BY <1>1, <2>1 DEF IsInjective
<1>8. QED
  BY <1>6, <1>7 DEF f

\* RemoveAt by its elements.
LEMMA RemoveAtIs ==
    ASSUME NEW S, NEW e \in Seq(S), NEW i \in 1 .. Len(e)
    PROVE  RemoveAt(e, i) = DeletedAt(e, i - 1)
<1> DEFINE n == Len(e)
           a == SubSeq(e, 1, i - 1)
           c == SubSeq(e, i + 1, n)
           f == DeletedAt(e, i - 1)
<1>1. n \in Nat /\ i \in 1 .. n
  OBVIOUS
<1>2. /\ a \in Seq(S) /\ Len(a) = i - 1 /\ \A k \in 1 .. (i - 1) : a[k] = e[k]
      /\ c \in Seq(S) /\ Len(c) = n - i /\ \A k \in 1 .. (n - i) : c[k] = e[i + k]
  <2>1. i \in i .. Len(e)
    BY <1>1
  <2>2. QED
    BY <2>1, Kept
<1> HIDE DEF a, c
<1>3. a \o c \in Seq(S) /\ Joined(a, c)
  BY <1>2, Join, Zenon
<1>4. f \in Seq(S) /\ Len(f) = n - 1
  <2>1. i - 1 \in 0 .. (Len(e) - 1)
    BY <1>1
  <2>2. QED
    BY <2>1, DeletedType
<1>5. Len(a \o c) = n - 1
  BY <1>1, <1>2, <1>3 DEF Joined
<1>6. ASSUME NEW k \in 1 .. (n - 1) PROVE (a \o c)[k] = f[k]
  <2>1. CASE k <= i - 1
    <3>1. k \in 1 .. (i - 1) /\ f[k] = e[k]
      BY <1>1, <2>1 DEF DeletedAt
    <3>2. QED
      BY <1>2, <1>3, <3>1 DEF Joined
  <2>2. CASE k > i - 1
    <3>1. k - (i - 1) \in 1 .. (n - i) /\ (i - 1) + (k - (i - 1)) = k /\ i + (k - (i - 1)) = k + 1 /\ f[k] = e[k + 1]
      BY <1>1, <2>2 DEF DeletedAt
    <3>2. (a \o c)[Len(a) + (k - (i - 1))] = c[k - (i - 1)]
      BY <1>2, <1>3, <3>1 DEF Joined
    <3>3. QED
      BY <1>2, <3>1, <3>2
  <2>3. k <= i - 1 \/ k > i - 1
    BY <1>1
  <2>4. QED
    BY <2>1, <2>2, <2>3
<1> HIDE DEF f
<1>7. a \o c = f
  BY <1>3, <1>4, <1>5, <1>6, SameElements
<1>8. QED
  BY <1>7 DEF RemoveAt, a, c, f

\* InsertAt by its elements.
LEMMA InsertAtIs ==
    ASSUME NEW S, NEW e \in Seq(S), NEW p \in 0 .. Len(e), NEW x \in S
    PROVE  InsertAt(e, p + 1, x) = InsertedAt(e, p, x)
<1> DEFINE n == Len(e)
           a == SubSeq(e, 1, p)
           b == <<x>>
           c == SubSeq(e, p + 1, n)
           f == InsertedAt(e, p, x)
<1>1. n \in Nat /\ p \in 0 .. n /\ (p + 1) - 1 = p
  OBVIOUS
<1>2. a \in Seq(S) /\ Len(a) = p /\ \A k \in 1 .. p : a[k] = e[k]
  OBVIOUS
<1>3. c \in Seq(S) /\ Len(c) = n - p /\ \A k \in 1 .. (n - p) : c[k] = e[p + k]
  <2>1. \A k \in (p + 1) .. n : e[k] \in S
    BY <1>1, ElementOfSeq
  <2>2. /\ c \in Seq(S)
        /\ Len(c) = IF p + 1 <= n THEN n - (p + 1) + 1 ELSE 0
        /\ \A k \in 1 .. (n - (p + 1) + 1) : c[k] = e[(p + 1) + k - 1]
    BY <1>1, <2>1, SubSeqProperties
  <2>3. Len(c) = n - p
    BY <1>1, <2>2
  <2>4. ASSUME NEW k \in 1 .. (n - p) PROVE c[k] = e[p + k]
    <3>1. k \in 1 .. (n - (p + 1) + 1) /\ (p + 1) + k - 1 = p + k
      BY <1>1
    <3>2. QED
      BY <2>2, <3>1
  <2>5. QED
    BY <2>2, <2>3, <2>4
<1>4. b \in Seq(S) /\ Len(b) = 1 /\ b[1] = x
  OBVIOUS
<1> HIDE DEF a, b, c
<1>5. a \o b \in Seq(S) /\ Joined(a, b)
  BY <1>2, <1>4, Join, Zenon
<1>6. (a \o b) \o c \in Seq(S) /\ Joined(a \o b, c)
  BY <1>3, <1>5, Join, Zenon
<1>7. f \in Seq(S) /\ Len(f) = n + 1
  BY InsertedType
<1>8. Len(a \o b) = p + 1
  BY <1>1, <1>2, <1>4, <1>5 DEF Joined
<1> DEFINE g == (a \o b) \o c
<1>9. Len(g) = n + 1
  BY <1>1, <1>3, <1>6, <1>8 DEF Joined
<1>10. ASSUME NEW k \in 1 .. (n + 1) PROVE g[k] = f[k]
  <2>1. CASE k <= p
    <3>1. k \in 1 .. Len(a) /\ k \in 1 .. Len(a \o b) /\ k \in 1 .. p /\ f[k] = e[k]
      BY <1>1, <1>2, <1>8, <2>1 DEF InsertedAt
    <3>2. g[k] = (a \o b)[k] /\ (a \o b)[k] = a[k]
      BY <1>5, <1>6, <3>1 DEF Joined
    <3>3. QED
      BY <1>2, <3>1, <3>2
  <2>2. CASE k = p + 1
    <3>1. 1 \in 1 .. Len(b) /\ k \in 1 .. Len(a \o b) /\ f[k] = x /\ Len(a) + 1 = k
      BY <1>1, <1>2, <1>4, <1>8, <2>2 DEF InsertedAt
    <3>2. g[k] = (a \o b)[k] /\ (a \o b)[Len(a) + 1] = b[1]
      BY <1>5, <1>6, <3>1 DEF Joined
    <3>3. QED
      BY <1>4, <3>1, <3>2
  <2>3. CASE k > p + 1
    <3>1. /\ k - (p + 1) \in 1 .. Len(c) /\ Len(a \o b) + (k - (p + 1)) = k /\ p + (k - (p + 1)) = k - 1
          /\ k - (p + 1) \in 1 .. (n - p) /\ f[k] = e[k - 1]
      BY <1>1, <1>3, <1>8, <2>3 DEF InsertedAt
    <3>2. g[Len(a \o b) + (k - (p + 1))] = c[k - (p + 1)]
      BY <1>6, <3>1 DEF Joined
    <3>3. QED
      BY <1>3, <3>1, <3>2
  <2>4. k <= p \/ k = p + 1 \/ k > p + 1
    BY <1>1
  <2>5. QED
    BY <2>1, <2>2, <2>3, <2>4
<1>11. g \in Seq(S)
  BY <1>6
<1> HIDE DEF f, g
<1>12. g = f
  BY <1>7, <1>9, <1>10, <1>11, SameElements
<1>13. InsertAt(e, p + 1, x) = g
  BY <1>1 DEF InsertAt, a, b, c, g
<1>14. QED
  BY <1>12, <1>13 DEF f

\* RemoveFirst takes an element out of distinct ones.
LEMMA RemoveFirstIs ==
    ASSUME NEW S, NEW s \in Seq(S), IsInjective(s), NEW x \in ToSet(s)
    PROVE  /\ RemoveFirst(s, x) \in Seq(S) /\ Len(RemoveFirst(s, x)) = Len(s) - 1
           /\ IsInjective(RemoveFirst(s, x)) /\ ToSet(RemoveFirst(s, x)) = ToSet(s) \ {x}
<1>1. Len(s) \in Nat /\ DOMAIN s = 1 .. Len(s)
  OBVIOUS
<1>2. PICK i \in 1 .. Len(s) : s[i] = x
  BY <1>1 DEF ToSet
<1> DEFINE I == {k \in 1 .. Len(s) : s[k] = x}
<1>3. I = {i}
  BY <1>1, <1>2 DEF IsInjective
<1>4. Min(I) = i
  <2> HIDE DEF I
  <2>1. Min({i}) \in {i}
    <3>1. \E k \in {i} : \A y \in {i} : k <= y
      BY <1>1
    <3>2. QED
      BY <3>1 DEF Min
  <2>2. QED
    BY <1>3, <2>1
<1>5. I # {} /\ \E k \in 1 .. Len(s) : s[k] = x
  BY <1>2
<1>6. RemoveFirst(s, x) = RemoveAt(s, i)
  BY <1>4, <1>5 DEF RemoveFirst, SelectInSeq
<1>7. i - 1 \in 0 .. (Len(s) - 1) /\ (i - 1) + 1 = i
  BY <1>1
<1>8. RemoveFirst(s, x) = DeletedAt(s, i - 1)
  BY <1>6, RemoveAtIs
<1>9. DeletedAt(s, i - 1) \in Seq(S) /\ Len(DeletedAt(s, i - 1)) = Len(s) - 1
  BY <1>7, DeletedType
<1>10. IsInjective(DeletedAt(s, i - 1)) /\ ToSet(DeletedAt(s, i - 1)) = ToSet(s) \ {s[(i - 1) + 1]}
  BY <1>7, DeletedDistinct
<1>11. QED
  BY <1>2, <1>7, <1>8, <1>9, <1>10

\* The elements of two sequences, one after the other.
LEMMA JoinToSet ==
    ASSUME NEW S, NEW a \in Seq(S), NEW b \in Seq(S)
    PROVE  a \o b \in Seq(S) /\ ToSet(a \o b) = ToSet(a) \cup ToSet(b)
<1> DEFINE t == a \o b
<1>1. t \in Seq(S) /\ Joined(a, b)
  BY Join, Zenon
<1>2. /\ Len(t) = Len(a) + Len(b) /\ Len(a) \in Nat /\ Len(b) \in Nat
      /\ \A i \in 1 .. Len(a) : t[i] = a[i]
      /\ \A i \in 1 .. Len(b) : t[Len(a) + i] = b[i]
  BY <1>1 DEF Joined
<1> HIDE DEF t
<1>3. /\ DOMAIN t = 1 .. (Len(a) + Len(b)) /\ DOMAIN a = 1 .. Len(a) /\ DOMAIN b = 1 .. Len(b)
  BY <1>1, <1>2
<1>4. ASSUME NEW i \in 1 .. (Len(a) + Len(b)) PROVE t[i] \in ToSet(a) \cup ToSet(b)
  <2>1. CASE i <= Len(a)
    <3>1. i \in 1 .. Len(a)
      BY <1>2, <2>1
    <3>2. QED
      BY <1>2, <1>3, <3>1 DEF ToSet
  <2>2. CASE ~ (i <= Len(a))
    <3>1. i - Len(a) \in 1 .. Len(b) /\ Len(a) + (i - Len(a)) = i
      BY <1>2, <2>2
    <3>2. t[i] = b[i - Len(a)]
      BY <1>2, <3>1
    <3>3. QED
      BY <1>3, <3>1, <3>2 DEF ToSet
  <2>3. QED
    BY <2>1, <2>2
<1>5. ASSUME NEW i \in 1 .. Len(a) PROVE a[i] \in ToSet(t)
  <2>1. i \in 1 .. (Len(a) + Len(b))
    BY <1>2
  <2>2. QED
    BY <1>2, <1>3, <2>1 DEF ToSet
<1>6. ASSUME NEW i \in 1 .. Len(b) PROVE b[i] \in ToSet(t)
  <2>1. Len(a) + i \in 1 .. (Len(a) + Len(b))
    BY <1>2
  <2>2. QED
    BY <1>2, <1>3, <2>1 DEF ToSet
<1>7. ToSet(t) \subseteq ToSet(a) \cup ToSet(b)
  <2>1. ToSet(t) = {t[i] : i \in 1 .. (Len(a) + Len(b))}
    BY <1>3 DEF ToSet
  <2>2. QED
    BY <1>4, <2>1
<1>8. ToSet(a) \cup ToSet(b) \subseteq ToSet(t)
  <2>1. ToSet(a) = {a[i] : i \in 1 .. Len(a)} /\ ToSet(b) = {b[i] : i \in 1 .. Len(b)}
    BY <1>3 DEF ToSet
  <2>2. QED
    BY <1>5, <1>6, <2>1
<1>9. QED
  BY <1>1, <1>7, <1>8 DEF t

\* A set of positions with everything below them is an initial interval.
LEMMA DownClosed ==
    ASSUME NEW n \in Nat, NEW J \in SUBSET (1 .. n), \A j \in J : \A i \in 1 .. j : i \in J
    PROVE  \E c \in 0 .. n : J = 1 .. c /\ Cardinality(J) = c
<1>1. ASSUME NEW c \in 0 .. n PROVE Cardinality(1 .. c) = c
  <2>1. c \in Int /\ 1 \in Int
    OBVIOUS
  <2>2. Cardinality(1 .. c) = IF 1 > c THEN 0 ELSE c - 1 + 1
    BY <2>1, FS_Interval
  <2>3. QED
    BY <2>2
<1>2. CASE J = {}
  <2>1. 1 .. 0 = {} /\ 0 \in 0 .. n
    OBVIOUS
  <2>2. QED
    BY <1>1, <1>2, <2>1
<1>3. CASE J # {}
  <2> DEFINE c == Max(J)
  <2>1. c \in J /\ \A j \in J : j <= c
    <3>1. J \in SUBSET (0 .. n)
      OBVIOUS
    <3>2. QED
      BY <1>3, <3>1, MaxExists
  <2> HIDE DEF c
  <2>2. c \in 0 .. n /\ c \in 1 .. n
    BY <2>1
  <2>3. J = 1 .. c
    <3>1. \A j \in J : j \in 1 .. c
      BY <2>1, <2>2
    <3>2. \A j \in 1 .. c : j \in J
      BY <2>1
    <3>3. QED
      BY <3>1, <3>2
  <2>4. QED
    BY <1>1, <2>2, <2>3
<1>4. QED
  BY <1>2, <1>3

=============================================================================
