----------------------------- MODULE HllProofs -----------------------------
(***************************************************************************)
(* Proofs about Hll, for every number of registers and every limit.        *)
(*                                                                         *)
(* What a walk over a code reads, its bytes, the merge loop, pfadd's loop  *)
(* and pfmerge's loop are left folds.  A fold is described by the values   *)
(* its accumulator takes (Accumulates, in FoldLemmas); the same argument,  *)
(* once for each of the five, shows that FoldLeft computes the last one.   *)
(* From there every result is an induction on a number or on a sequence.   *)
(***************************************************************************)
EXTENDS Hll, FoldLemmas, FiniteSetTheorems

\* What an opcode stands for, and its bytes.
Run(c) == [k \in 1 .. c.len |-> c.val]
Bytes(c) == IF c.op = "XZERO" THEN 2 ELSE 1

\* The fields of an opcode.
LEMMA OpcodeType ==
    ASSUME NEW c \in Opcode
    PROVE  /\ c.len \in Nat \ {0} /\ c.val \in Nat /\ c.op \in {"ZERO", "XZERO", "VAL"}
           /\ Run(c) \in Seq(Nat) /\ Len(Run(c)) = c.len /\ Bytes(c) \in 1 .. 2
           /\ Bytes(c) \in Nat
<1>1. c.len \in Nat \ {0} /\ c.val \in Nat /\ c.op \in {"ZERO", "XZERO", "VAL"}
  BY HllAssumption DEF Opcode
<1>2. QED
  BY <1>1 DEF Run, Bytes

-----------------------------------------------------------------------------
(* The folds over opcodes. *)

WalkStep(ops) ==
    [p \in (1 .. Len(ops)) \X Seq(Nat) |-> p[2] \o [k \in 1 .. ops[p[1]].len |-> ops[p[1]].val]]

\* Walk appends the runs of the opcodes.
LEMMA WalkFold ==
    ASSUME NEW ops \in Seq(Opcode)
    PROVE  \E g : /\ Accumulates(g, Len(ops), <<>>, WalkStep(ops), Seq(Nat))
                  /\ Walk(ops) = g[Len(ops)]
<1> DEFINE N == Len(ops)
           D == Seq(Nat)
           b == <<>>
           F == WalkStep(ops)
           Eqn(it) == it = [S \in SUBSET (1 .. N) |->
                        IF S = {} THEN b ELSE it[S \ {Max(S)}] \o [k \in 1 .. ops[Max(S)].len |-> ops[Max(S)].val]]
           it == CHOOSE it : Eqn(it)
<1>1. N \in Nat /\ DOMAIN ops = 1 .. N /\ b \in D
  OBVIOUS
<1>2. F \in [(1 .. N) \X D -> D]
  <2>1. ASSUME NEW i \in 1 .. N, NEW y \in D
        PROVE  y \o [k \in 1 .. ops[i].len |-> ops[i].val] \in D
    <3>1. Run(ops[i]) \in Seq(Nat)
      BY OpcodeType
    <3>2. QED
      BY <3>1 DEF Run
  <2>2. QED
    BY <2>1 DEF WalkStep
<1>3. \E jt : Eqn(jt)
  <2>1. PICK jt \in [SUBSET (1 .. N) -> D] : Iterates(jt, N, b, F)
    <3> HIDE DEF F, N, D, b
    <3>1. QED
      BY <1>1, <1>2, IteratorExists
  <2>2. ASSUME NEW S \in SUBSET (1 .. N), S # {}
        PROVE  F[<<Max(S), jt[S \ {Max(S)}]>>] = jt[S \ {Max(S)}] \o [k \in 1 .. ops[Max(S)].len |-> ops[Max(S)].val]
    <3>1. Max(S) \in 1 .. N /\ S \ {Max(S)} \in SUBSET (1 .. N)
      BY <2>2, <1>1, MaxOfPart
    <3>2. jt[S \ {Max(S)}] \in D
      BY <3>1
    <3>3. QED
      BY <3>1, <3>2 DEF WalkStep
  <2>3. Eqn(jt)
    <3> HIDE DEF F, N, D, b
    <3>1. QED
      BY <2>1, <2>2 DEF Iterates
  <2>4. QED
    BY <2>3
<1>4. Eqn(it)
  <2> HIDE DEF Eqn
  <2>1. QED
    BY <1>3
<1>5. Walk(ops) = it[1 .. N]
  BY <1>1 DEF Walk, FoldLeft, MapThenFoldSet
<1> HIDE DEF it
<1>6. it[{}] = b
  BY <1>4
<1>7. ASSUME NEW n \in 1 .. N, it[1 .. (n - 1)] \in D
      PROVE  it[1 .. n] = F[<<n, it[1 .. (n - 1)]>>]
  <2>1. /\ 1 .. n \in SUBSET (1 .. N) /\ 1 .. n # {}
        /\ Max(1 .. n) = n /\ (1 .. n) \ {n} = 1 .. (n - 1)
    BY <1>1, MaxOfInitial
  <2>2. it[1 .. n] = it[(1 .. n) \ {Max(1 .. n)}] \o [k \in 1 .. ops[Max(1 .. n)].len |-> ops[Max(1 .. n)].val]
    BY <1>4, <2>1
  <2>3. it[1 .. n] = it[1 .. (n - 1)] \o [k \in 1 .. ops[n].len |-> ops[n].val]
    BY <2>1, <2>2
  <2>4. QED
    BY <1>7, <2>3 DEF WalkStep
<1>8. Accumulates([n \in 0 .. N |-> it[1 .. n]], N, b, F, D)
  <2> HIDE DEF F, N, D, b, Eqn
  <2>1. QED
    BY <1>1, <1>2, <1>6, <1>7, AccumulatorOf
<1>9. [n \in 0 .. N |-> it[1 .. n]][N] = it[1 .. N]
  BY <1>1
<1>10. QED
  BY <1>5, <1>8, <1>9, Zenon

LenSum(ops) == FoldLeft(LAMBDA s, c : s + c.len, 0, ops)

LenSumStep(ops) ==
    [p \in (1 .. Len(ops)) \X Nat |-> p[2] + ops[p[1]].len]

\* The sum of the lengths.
LEMMA LenSumFold ==
    ASSUME NEW ops \in Seq(Opcode)
    PROVE  \E g : /\ Accumulates(g, Len(ops), 0, LenSumStep(ops), Nat)
                  /\ LenSum(ops) = g[Len(ops)]
<1> DEFINE N == Len(ops)
           D == Nat
           b == 0
           F == LenSumStep(ops)
           Eqn(it) == it = [S \in SUBSET (1 .. N) |->
                        IF S = {} THEN b ELSE it[S \ {Max(S)}] + ops[Max(S)].len]
           it == CHOOSE it : Eqn(it)
<1>1. N \in Nat /\ DOMAIN ops = 1 .. N /\ b \in D
  OBVIOUS
<1>2. F \in [(1 .. N) \X D -> D]
  <2>1. ASSUME NEW i \in 1 .. N, NEW y \in D
        PROVE  y + ops[i].len \in D
    BY OpcodeType
  <2>2. QED
    BY <2>1 DEF LenSumStep
<1>3. \E jt : Eqn(jt)
  <2>1. PICK jt \in [SUBSET (1 .. N) -> D] : Iterates(jt, N, b, F)
    <3> HIDE DEF F, N, D, b
    <3>1. QED
      BY <1>1, <1>2, IteratorExists
  <2>2. ASSUME NEW S \in SUBSET (1 .. N), S # {}
        PROVE  F[<<Max(S), jt[S \ {Max(S)}]>>] = jt[S \ {Max(S)}] + ops[Max(S)].len
    <3>1. Max(S) \in 1 .. N /\ S \ {Max(S)} \in SUBSET (1 .. N)
      BY <2>2, <1>1, MaxOfPart
    <3>2. jt[S \ {Max(S)}] \in D
      BY <3>1
    <3>3. QED
      BY <3>1, <3>2 DEF LenSumStep
  <2>3. Eqn(jt)
    <3> HIDE DEF F, N, D, b
    <3>1. QED
      BY <2>1, <2>2 DEF Iterates
  <2>4. QED
    BY <2>3
<1>4. Eqn(it)
  <2> HIDE DEF Eqn
  <2>1. QED
    BY <1>3
<1>5. LenSum(ops) = it[1 .. N]
  BY <1>1 DEF LenSum, FoldLeft, MapThenFoldSet
<1> HIDE DEF it
<1>6. it[{}] = b
  BY <1>4
<1>7. ASSUME NEW n \in 1 .. N, it[1 .. (n - 1)] \in D
      PROVE  it[1 .. n] = F[<<n, it[1 .. (n - 1)]>>]
  <2>1. /\ 1 .. n \in SUBSET (1 .. N) /\ 1 .. n # {}
        /\ Max(1 .. n) = n /\ (1 .. n) \ {n} = 1 .. (n - 1)
    BY <1>1, MaxOfInitial
  <2>2. it[1 .. n] = it[(1 .. n) \ {Max(1 .. n)}] + ops[Max(1 .. n)].len
    BY <1>4, <2>1
  <2>3. it[1 .. n] = it[1 .. (n - 1)] + ops[n].len
    BY <2>1, <2>2
  <2>4. QED
    BY <1>7, <2>3 DEF LenSumStep
<1>8. Accumulates([n \in 0 .. N |-> it[1 .. n]], N, b, F, D)
  <2> HIDE DEF F, N, D, b, Eqn
  <2>1. QED
    BY <1>1, <1>2, <1>6, <1>7, AccumulatorOf
<1>9. [n \in 0 .. N |-> it[1 .. n]][N] = it[1 .. N]
  BY <1>1
<1>10. QED
  BY <1>5, <1>8, <1>9, Zenon

SizeStep(ops) ==
    [p \in (1 .. Len(ops)) \X Nat |-> p[2] + (IF ops[p[1]].op = "XZERO" THEN 2 ELSE 1)]

\* The bytes of the opcodes are added to the header's.
LEMMA SizeFold ==
    ASSUME NEW ops \in Seq(Opcode)
    PROVE  \E g : /\ Accumulates(g, Len(ops), HLL_HDR_SIZE, SizeStep(ops), Nat)
                  /\ sdslen(ops) = g[Len(ops)]
<1> DEFINE N == Len(ops)
           D == Nat
           b == HLL_HDR_SIZE
           F == SizeStep(ops)
           Eqn(it) == it = [S \in SUBSET (1 .. N) |->
                        IF S = {} THEN b ELSE it[S \ {Max(S)}] + (IF ops[Max(S)].op = "XZERO" THEN 2 ELSE 1)]
           it == CHOOSE it : Eqn(it)
<1>1. N \in Nat /\ DOMAIN ops = 1 .. N /\ b \in D
  BY HllAssumption
<1>2. F \in [(1 .. N) \X D -> D]
  <2>1. ASSUME NEW i \in 1 .. N, NEW y \in D
        PROVE  y + (IF ops[i].op = "XZERO" THEN 2 ELSE 1) \in D
    BY OpcodeType
  <2>2. QED
    BY <2>1 DEF SizeStep
<1>3. \E jt : Eqn(jt)
  <2>1. PICK jt \in [SUBSET (1 .. N) -> D] : Iterates(jt, N, b, F)
    <3> HIDE DEF F, N, D, b
    <3>1. QED
      BY <1>1, <1>2, IteratorExists
  <2>2. ASSUME NEW S \in SUBSET (1 .. N), S # {}
        PROVE  F[<<Max(S), jt[S \ {Max(S)}]>>] = jt[S \ {Max(S)}] + (IF ops[Max(S)].op = "XZERO" THEN 2 ELSE 1)
    <3>1. Max(S) \in 1 .. N /\ S \ {Max(S)} \in SUBSET (1 .. N)
      BY <2>2, <1>1, MaxOfPart
    <3>2. jt[S \ {Max(S)}] \in D
      BY <3>1
    <3>3. QED
      BY <3>1, <3>2 DEF SizeStep
  <2>3. Eqn(jt)
    <3> HIDE DEF F, N, D, b
    <3>1. QED
      BY <2>1, <2>2 DEF Iterates
  <2>4. QED
    BY <2>3
<1>4. Eqn(it)
  <2> HIDE DEF Eqn
  <2>1. QED
    BY <1>3
<1>5. sdslen(ops) = it[1 .. N]
  BY <1>1 DEF sdslen, FoldLeft, MapThenFoldSet
<1> HIDE DEF it
<1>6. it[{}] = b
  BY <1>4
<1>7. ASSUME NEW n \in 1 .. N, it[1 .. (n - 1)] \in D
      PROVE  it[1 .. n] = F[<<n, it[1 .. (n - 1)]>>]
  <2>1. /\ 1 .. n \in SUBSET (1 .. N) /\ 1 .. n # {}
        /\ Max(1 .. n) = n /\ (1 .. n) \ {n} = 1 .. (n - 1)
    BY <1>1, MaxOfInitial
  <2>2. it[1 .. n] = it[(1 .. n) \ {Max(1 .. n)}] + (IF ops[Max(1 .. n)].op = "XZERO" THEN 2 ELSE 1)
    BY <1>4, <2>1
  <2>3. it[1 .. n] = it[1 .. (n - 1)] + (IF ops[n].op = "XZERO" THEN 2 ELSE 1)
    BY <2>1, <2>2
  <2>4. QED
    BY <1>7, <2>3 DEF SizeStep
<1>8. Accumulates([n \in 0 .. N |-> it[1 .. n]], N, b, F, D)
  <2> HIDE DEF F, N, D, b, Eqn
  <2>1. QED
    BY <1>1, <1>2, <1>6, <1>7, AccumulatorOf
<1>9. [n \in 0 .. N |-> it[1 .. n]][N] = it[1 .. N]
  BY <1>1
<1>10. QED
  BY <1>5, <1>8, <1>9, Zenon

\* Walk of one more opcode.
LEMMA WalkSnoc ==
    ASSUME NEW ops \in Seq(Opcode), NEW c \in Opcode
    PROVE  /\ Walk(ops) \in Seq(Nat)
           /\ Walk(Append(ops, c)) = Walk(ops) \o Run(c)
<1> DEFINE N == Len(ops)
           new == Append(ops, c)
           D == Seq(Nat)
           b == <<>>
           F == WalkStep(ops)
           G == WalkStep(new)
<1>1. /\ N \in Nat /\ new \in Seq(Opcode) /\ Len(new) = N + 1 /\ new[N + 1] = c
      /\ \A n \in 1 .. N : new[n] = ops[n] /\ n \in 1 .. (N + 1)
  OBVIOUS
<1>2. PICK g : Accumulates(g, N, b, F, D) /\ Walk(ops) = g[N]
  BY WalkFold
<1>3. PICK h : Accumulates(h, N + 1, b, G, D) /\ Walk(new) = h[N + 1]
  BY <1>1, WalkFold
<1>4. Agree(F, G, N, D)
  BY <1>1 DEF WalkStep, Agree
<1>5. g[N] \in D /\ h[N + 1] = G[<<N + 1, g[N]>>]
  <2> HIDE DEF F, G, N, D, b, new
  <2>1. N \in Nat
    BY <1>1
  <2>2. Extends(h, g, N, b, G, F, D)
    BY <1>2, <1>3, <1>4 DEF Extends
  <2>3. Continues(h, g, N, D)
    BY ONLY <2>1, <2>2, AccumulatorSnoc, Zenon
  <2>4. N + 1 \in 1 .. (N + 1) /\ (N + 1) - 1 = N
    BY <2>1
  <2>5. QED
    BY <1>3, <2>3, <2>4 DEF Accumulates, Continues
<1>6. <<N + 1, g[N]>> \in (1 .. Len(new)) \X D
  BY <1>1, <1>5
<1>7. G[<<N + 1, g[N]>>] = g[N] \o Run(new[N + 1])
  <2> HIDE DEF new, N
  <2>1. QED
    BY <1>6 DEF WalkStep, Run, Bytes
<1>8. QED
  BY <1>1, <1>2, <1>3, <1>5, <1>7

\* The length of one more opcode.
LEMMA LenSumSnoc ==
    ASSUME NEW ops \in Seq(Opcode), NEW c \in Opcode
    PROVE  /\ LenSum(ops) \in Nat
           /\ LenSum(Append(ops, c)) = LenSum(ops) + c.len
<1> DEFINE N == Len(ops)
           new == Append(ops, c)
           D == Nat
           b == 0
           F == LenSumStep(ops)
           G == LenSumStep(new)
<1>1. /\ N \in Nat /\ new \in Seq(Opcode) /\ Len(new) = N + 1 /\ new[N + 1] = c
      /\ \A n \in 1 .. N : new[n] = ops[n] /\ n \in 1 .. (N + 1)
  OBVIOUS
<1>2. PICK g : Accumulates(g, N, b, F, D) /\ LenSum(ops) = g[N]
  BY LenSumFold
<1>3. PICK h : Accumulates(h, N + 1, b, G, D) /\ LenSum(new) = h[N + 1]
  BY <1>1, LenSumFold
<1>4. Agree(F, G, N, D)
  BY <1>1 DEF LenSumStep, Agree
<1>5. g[N] \in D /\ h[N + 1] = G[<<N + 1, g[N]>>]
  <2> HIDE DEF F, G, N, D, b, new
  <2>1. N \in Nat
    BY <1>1
  <2>2. Extends(h, g, N, b, G, F, D)
    BY <1>2, <1>3, <1>4 DEF Extends
  <2>3. Continues(h, g, N, D)
    BY ONLY <2>1, <2>2, AccumulatorSnoc, Zenon
  <2>4. N + 1 \in 1 .. (N + 1) /\ (N + 1) - 1 = N
    BY <2>1
  <2>5. QED
    BY <1>3, <2>3, <2>4 DEF Accumulates, Continues
<1>6. <<N + 1, g[N]>> \in (1 .. Len(new)) \X D
  BY <1>1, <1>5
<1>7. G[<<N + 1, g[N]>>] = g[N] + new[N + 1].len
  <2> HIDE DEF new, N
  <2>1. QED
    BY <1>6 DEF LenSumStep, Run, Bytes
<1>8. QED
  BY <1>1, <1>2, <1>3, <1>5, <1>7

\* The bytes of one more opcode.
LEMMA SizeSnoc ==
    ASSUME NEW ops \in Seq(Opcode), NEW c \in Opcode
    PROVE  /\ sdslen(ops) \in Nat
           /\ sdslen(Append(ops, c)) = sdslen(ops) + Bytes(c)
<1> DEFINE N == Len(ops)
           new == Append(ops, c)
           D == Nat
           b == HLL_HDR_SIZE
           F == SizeStep(ops)
           G == SizeStep(new)
<1>1. /\ N \in Nat /\ new \in Seq(Opcode) /\ Len(new) = N + 1 /\ new[N + 1] = c
      /\ \A n \in 1 .. N : new[n] = ops[n] /\ n \in 1 .. (N + 1)
  OBVIOUS
<1>2. PICK g : Accumulates(g, N, b, F, D) /\ sdslen(ops) = g[N]
  BY SizeFold
<1>3. PICK h : Accumulates(h, N + 1, b, G, D) /\ sdslen(new) = h[N + 1]
  BY <1>1, SizeFold
<1>4. Agree(F, G, N, D)
  BY <1>1 DEF SizeStep, Agree
<1>5. g[N] \in D /\ h[N + 1] = G[<<N + 1, g[N]>>]
  <2> HIDE DEF F, G, N, D, b, new
  <2>1. N \in Nat
    BY <1>1
  <2>2. Extends(h, g, N, b, G, F, D)
    BY <1>2, <1>3, <1>4 DEF Extends
  <2>3. Continues(h, g, N, D)
    BY ONLY <2>1, <2>2, AccumulatorSnoc, Zenon
  <2>4. N + 1 \in 1 .. (N + 1) /\ (N + 1) - 1 = N
    BY <2>1
  <2>5. QED
    BY <1>3, <2>3, <2>4 DEF Accumulates, Continues
<1>6. <<N + 1, g[N]>> \in (1 .. Len(new)) \X D
  BY <1>1, <1>5
<1>7. G[<<N + 1, g[N]>>] = g[N] + Bytes(new[N + 1])
  <2> HIDE DEF new, N
  <2>1. QED
    BY <1>6 DEF SizeStep, Run, Bytes
<1>8. QED
  BY <1>1, <1>2, <1>3, <1>5, <1>7

\* Nothing to fold.
LEMMA NoOpcodes == Walk(<<>>) = <<>> /\ LenSum(<<>>) = 0 /\ sdslen(<<>>) = HLL_HDR_SIZE
<1>1. <<>> \in Seq(Opcode) /\ Len(<<>>) = 0
  OBVIOUS
<1>2. Walk(<<>>) = <<>>
  BY <1>1, WalkFold DEF Accumulates
<1>3. LenSum(<<>>) = 0
  BY <1>1, LenSumFold DEF Accumulates
<1>4. sdslen(<<>>) = HLL_HDR_SIZE
  BY <1>1, SizeFold DEF Accumulates
<1>5. QED
  BY <1>2, <1>3, <1>4

\* The types of what the folds compute.
LEMMA WalkType ==
    ASSUME NEW ops \in Seq(Opcode)
    PROVE  Walk(ops) \in Seq(Nat) /\ sdslen(ops) \in Nat
<1>1. PICK g : Accumulates(g, Len(ops), <<>>, WalkStep(ops), Seq(Nat)) /\ Walk(ops) = g[Len(ops)]
  BY WalkFold
<1>2. PICK h : Accumulates(h, Len(ops), HLL_HDR_SIZE, SizeStep(ops), Nat) /\ sdslen(ops) = h[Len(ops)]
  BY SizeFold
<1>3. Len(ops) \in 0 .. Len(ops)
  OBVIOUS
<1>4. QED
  BY <1>1, <1>2, <1>3 DEF Accumulates

\* The opcodes of two parts.
LEMMA WalkConcat ==
    ASSUME NEW a \in Seq(Opcode), NEW b \in Seq(Opcode)
    PROVE  /\ Walk(a \o b) = Walk(a) \o Walk(b)
           /\ sdslen(a \o b) = sdslen(a) + sdslen(b) - HLL_HDR_SIZE
<1>1. Walk(a \o <<>>) = Walk(a) \o Walk(<<>>) /\ sdslen(a \o <<>>) = sdslen(a) + sdslen(<<>>) - HLL_HDR_SIZE
  <2>1. Walk(a) \in Seq(Nat) /\ sdslen(a) \in Nat
    BY WalkType
  <2>2. a \o <<>> = a /\ Walk(a) \o <<>> = Walk(a)
    BY <2>1, ConcatEmptySeq, Zenon
  <2>3. QED
    BY <2>1, <2>2, NoOpcodes, HllAssumption
<1>2. ASSUME NEW s \in Seq(Opcode), NEW c \in Opcode, Walk(a \o s) = Walk(a) \o Walk(s),
             sdslen(a \o s) = sdslen(a) + sdslen(s) - HLL_HDR_SIZE
      PROVE  /\ Walk(a \o Append(s, c)) = Walk(a) \o Walk(Append(s, c))
             /\ sdslen(a \o Append(s, c)) = sdslen(a) + sdslen(Append(s, c)) - HLL_HDR_SIZE
  <2>1. a \o s \in Seq(Opcode) /\ <<c>> \in Seq(Opcode)
    OBVIOUS
  <2>2. a \o Append(s, c) = Append(a \o s, c)
    <3>1. Append(s, c) = s \o <<c>> /\ Append(a \o s, c) = (a \o s) \o <<c>>
      BY <2>1, AppendIsConcat, Zenon
    <3>2. Associative(a, s, <<c>>)
      BY <2>1, ConcatAssoc, Zenon
    <3>3. QED
      BY <3>1, <3>2 DEF Associative
  <2>3. Run(c) \in Seq(Nat) /\ Bytes(c) \in Nat
    BY OpcodeType, Zenon
  <2>4. Walk(a) \in Seq(Nat) /\ Walk(s) \in Seq(Nat) /\ sdslen(a) \in Nat /\ sdslen(s) \in Nat
    BY WalkType
  <2>5. Associative(Walk(a), Walk(s), Run(c))
    BY <2>3, <2>4, ConcatAssoc, Zenon
  <2>6. Walk(a \o Append(s, c)) = Walk(a) \o Walk(Append(s, c))
    <3>1. Walk(Append(a \o s, c)) = Walk(a \o s) \o Run(c)
      BY <2>1, WalkSnoc
    <3>2. Walk(Append(s, c)) = Walk(s) \o Run(c)
      BY WalkSnoc
    <3>3. QED
      BY <1>2, <2>2, <2>5, <3>1, <3>2 DEF Associative
  <2>7. sdslen(a \o Append(s, c)) = sdslen(a) + sdslen(Append(s, c)) - HLL_HDR_SIZE
    <3>1. sdslen(Append(a \o s, c)) = sdslen(a \o s) + Bytes(c)
      BY <2>1, SizeSnoc
    <3>2. sdslen(Append(s, c)) = sdslen(s) + Bytes(c)
      BY SizeSnoc
    <3>3. QED
      BY <1>2, <2>2, <2>3, <2>4, <3>1, <3>2, HllAssumption
  <2>8. QED
    BY <2>6, <2>7
<1> DEFINE P == {s \in Seq(Opcode) : /\ Walk(a \o s) = Walk(a) \o Walk(s)
                                     /\ sdslen(a \o s) = sdslen(a) + sdslen(s) - HLL_HDR_SIZE}
<1>3. P = Seq(Opcode)
  <2>1. P \in SUBSET Seq(Opcode) /\ <<>> \in P
    BY <1>1
  <2>2. ASSUME NEW s \in P, NEW c \in Opcode PROVE Append(s, c) \in P
    <3>1. s \in Seq(Opcode) /\ Append(s, c) \in Seq(Opcode)
      OBVIOUS
    <3>2. QED
      BY <1>2, <3>1
  <2> HIDE DEF P
  <2>3. QED
    BY <2>1, <2>2, SeqSet
<1>4. QED
  BY <1>3

\* A walk has as many registers as the opcodes' lengths say.
LEMMA LenSumIsLen ==
    ASSUME NEW ops \in Seq(Opcode)
    PROVE  LenSum(ops) = Len(Walk(ops))
<1>1. LenSum(<<>>) = Len(Walk(<<>>))
  BY NoOpcodes
<1>2. ASSUME NEW s \in Seq(Opcode), NEW c \in Opcode, LenSum(s) = Len(Walk(s))
      PROVE  LenSum(Append(s, c)) = Len(Walk(Append(s, c)))
  <2>1. Walk(s) \in Seq(Nat) /\ Run(c) \in Seq(Nat) /\ Len(Run(c)) = c.len
    BY WalkType, OpcodeType, Zenon
  <2>2. Walk(Append(s, c)) = Walk(s) \o Run(c) /\ LenSum(Append(s, c)) = LenSum(s) + c.len
    BY WalkSnoc, LenSumSnoc
  <2>3. Joined(Walk(s), Run(c))
    BY <2>1, Join, Zenon
  <2>4. QED
    BY <1>2, <2>1, <2>2, <2>3 DEF Joined
<1> DEFINE P == {s \in Seq(Opcode) : LenSum(s) = Len(Walk(s))}
<1>3. P = Seq(Opcode)
  <2>1. P \in SUBSET Seq(Opcode) /\ <<>> \in P
    BY <1>1
  <2>2. ASSUME NEW s \in P, NEW c \in Opcode PROVE Append(s, c) \in P
    <3>1. s \in Seq(Opcode) /\ Append(s, c) \in Seq(Opcode)
      OBVIOUS
    <3>2. QED
      BY <1>2, <3>1
  <2> HIDE DEF P
  <2>3. QED
    BY <2>1, <2>2, SeqSet
<1>4. QED
  BY <1>3

\* The registers the first n opcodes cover, and all.
LEMMA CoveredIs ==
    ASSUME NEW ops \in Seq(Opcode)
    PROVE  /\ \A n \in 0 .. Len(ops) : Covered(ops, n) = Len(Walk(SubSeq(ops, 1, n)))
           /\ Total(ops) = Len(Walk(ops)) /\ Total(ops) \in Nat
<1>1. ASSUME NEW n \in 0 .. Len(ops) PROVE Covered(ops, n) = Len(Walk(SubSeq(ops, 1, n)))
  <2>1. SubSeq(ops, 1, n) \in Seq(Opcode)
    OBVIOUS
  <2>2. Covered(ops, n) = LenSum(SubSeq(ops, 1, n))
    BY DEF Covered, LenSum
  <2>3. QED
    BY <2>1, <2>2, LenSumIsLen
<1>2. SubSeq(ops, 1, Len(ops)) = ops /\ Len(ops) \in 0 .. Len(ops)
  OBVIOUS
<1>3. Total(ops) = Len(Walk(ops))
  BY <1>1, <1>2 DEF Total
<1>4. QED
  BY <1>1, <1>3, WalkType

-----------------------------------------------------------------------------
(* Edits of a code: opcodes i to j replaced by others. *)

\* One opcode.
LEMMA OneOpcode ==
    ASSUME NEW c \in Opcode
    PROVE  <<c>> \in Seq(Opcode) /\ Walk(<<c>>) = Run(c) /\ sdslen(<<c>>) = HLL_HDR_SIZE + Bytes(c)
<1>1. <<>> \in Seq(Opcode) /\ Append(<<>>, c) = <<c>> /\ <<c>> \in Seq(Opcode)
  OBVIOUS
<1>2. Run(c) \in Seq(Nat)
  BY OpcodeType, Zenon
<1>3. Walk(<<c>>) = <<>> \o Run(c)
  BY <1>1, WalkSnoc, NoOpcodes
<1>4. <<>> \o Run(c) = Run(c)
  BY <1>2, ConcatEmptySeq, Zenon
<1>5. sdslen(<<c>>) = HLL_HDR_SIZE + Bytes(c)
  BY <1>1, SizeSnoc, NoOpcodes
<1>6. QED
  BY <1>1, <1>3, <1>4, <1>5

\* What a walk over three parts reads, and their bytes.
Parts(new, a, seq, c) ==
    /\ a \in Seq(Opcode) /\ c \in Seq(Opcode) /\ new \in Seq(Opcode)
    /\ Walk(new) = (Walk(a) \o Walk(seq)) \o Walk(c)
    /\ sdslen(new) = ((sdslen(a) + sdslen(seq)) + sdslen(c)) - 2 * HLL_HDR_SIZE

\* What a walk over the opcodes reads, and their bytes, after an edit.
LEMMA SpliceWalk ==
    ASSUME NEW ops \in Seq(Opcode), NEW seq \in Seq(Opcode),
           NEW i \in 1 .. Len(ops), NEW j \in i .. Len(ops)
    PROVE  Parts(Splice(ops, i, j, seq), SubSeq(ops, 1, i - 1), seq, SubSeq(ops, j + 1, Len(ops)))
<1> DEFINE a == SubSeq(ops, 1, i - 1)
           c == SubSeq(ops, j + 1, Len(ops))
<1>1. a \in Seq(Opcode) /\ c \in Seq(Opcode)
  BY Kept
<1>2. Splice(ops, i, j, seq) = (a \o seq) \o c
  BY DEF Splice
<1> HIDE DEF a, c
<1>3. a \o seq \in Seq(Opcode) /\ (a \o seq) \o c \in Seq(Opcode)
  BY <1>1, Join, Zenon
<1>4. /\ Walk(a \o seq) = Walk(a) \o Walk(seq)
      /\ sdslen(a \o seq) = sdslen(a) + sdslen(seq) - HLL_HDR_SIZE
  BY <1>1, WalkConcat
<1>5. /\ Walk((a \o seq) \o c) = Walk(a \o seq) \o Walk(c)
      /\ sdslen((a \o seq) \o c) = sdslen(a \o seq) + sdslen(c) - HLL_HDR_SIZE
  BY <1>1, <1>3, WalkConcat
<1>6. sdslen(a) \in Nat /\ sdslen(seq) \in Nat /\ sdslen(c) \in Nat /\ HLL_HDR_SIZE \in Nat
  BY <1>1, WalkType, HllAssumption
<1>7. sdslen((a \o seq) \o c) = ((sdslen(a) + sdslen(seq)) + sdslen(c)) - 2 * HLL_HDR_SIZE
  BY <1>4, <1>5, <1>6
<1>8. Walk((a \o seq) \o c) = (Walk(a) \o Walk(seq)) \o Walk(c)
  BY <1>4, <1>5
<1>9. QED
  BY <1>1, <1>2, <1>3, <1>7, <1>8 DEF a, c, Parts

\* new is reg with count at index.
Sets(new, reg, index, count) ==
    /\ new \in Seq(Nat) /\ Len(new) = Len(reg) /\ index + 1 \in 1 .. Len(reg)
    /\ new[index + 1] = count
    /\ \A k \in 1 .. Len(reg) : k # index + 1 => new[k] = reg[k]

\* A register set in the middle part is set in the whole.
LEMMA SetsInside ==
    ASSUME NEW a \in Seq(Nat), NEW b \in Seq(Nat), NEW d \in Seq(Nat), NEW c \in Seq(Nat),
           NEW n \in Nat, NEW count \in Nat, Sets(d, b, n, count)
    PROVE  Sets((a \o d) \o c, (a \o b) \o c, Len(a) + n, count)
<1>1. a \o d \in Seq(Nat) /\ Joined(a, d) /\ a \o b \in Seq(Nat) /\ Joined(a, b)
  BY Join, Zenon
<1>2. /\ (a \o d) \o c \in Seq(Nat) /\ Joined(a \o d, c)
      /\ (a \o b) \o c \in Seq(Nat) /\ Joined(a \o b, c)
  BY <1>1, Join, Zenon
<1> DEFINE x == (a \o d) \o c
           y == (a \o b) \o c
<1>3. Len(a) \in Nat /\ Len(b) \in Nat /\ Len(c) \in Nat /\ Len(d) = Len(b) /\ n + 1 \in 1 .. Len(b)
  BY DEF Sets
<1>4. Len(a \o d) = Len(a) + Len(b) /\ Len(a \o b) = Len(a) + Len(b)
  BY <1>1, <1>3 DEF Joined
<1>5. Len(x) = Len(y) /\ Len(y) = (Len(a) + Len(b)) + Len(c)
  BY <1>2, <1>3, <1>4 DEF Joined
<1>6. (Len(a) + n) + 1 \in 1 .. Len(y) /\ Len(a) + (n + 1) = (Len(a) + n) + 1
  BY <1>3, <1>5
<1>7. x[(Len(a) + n) + 1] = count
  <2>1. Len(a) + (n + 1) \in 1 .. Len(a \o d)
    BY <1>3, <1>4
  <2>2. x[Len(a) + (n + 1)] = (a \o d)[Len(a) + (n + 1)]
    BY <1>2, <2>1 DEF Joined
  <2>3. (a \o d)[Len(a) + (n + 1)] = d[n + 1]
    BY <1>1, <1>3 DEF Joined
  <2>4. d[n + 1] = count
    BY DEF Sets
  <2>5. QED
    BY <1>6, <2>2, <2>3, <2>4
<1>8. ASSUME NEW k \in 1 .. Len(y), k # (Len(a) + n) + 1 PROVE x[k] = y[k]
  <2>1. CASE k <= Len(a)
    <3>1. k \in 1 .. Len(a) /\ k \in 1 .. Len(a \o d) /\ k \in 1 .. Len(a \o b)
      BY <1>3, <1>4, <1>5, <2>1
    <3>2. x[k] = (a \o d)[k] /\ y[k] = (a \o b)[k]
      BY <1>2, <3>1 DEF Joined
    <3>3. (a \o d)[k] = a[k] /\ (a \o b)[k] = a[k]
      BY <1>1, <3>1 DEF Joined
    <3>4. QED
      BY <3>2, <3>3
  <2>2. CASE Len(a) < k /\ k <= Len(a) + Len(b)
    <3> DEFINE m == k - Len(a)
    <3>1. /\ k \in 1 .. Len(a \o d) /\ k \in 1 .. Len(a \o b)
          /\ m \in 1 .. Len(d) /\ m \in 1 .. Len(b) /\ k = Len(a) + m /\ m # n + 1
      BY <1>3, <1>4, <1>5, <1>8, <2>2
    <3>2. x[k] = (a \o d)[k] /\ y[k] = (a \o b)[k]
      BY <1>2, <3>1 DEF Joined
    <3> HIDE DEF m
    <3>3. (a \o d)[Len(a) + m] = d[m] /\ (a \o b)[Len(a) + m] = b[m]
      BY <1>1, <3>1 DEF Joined
    <3>4. d[m] = b[m]
      BY <3>1 DEF Sets
    <3>5. QED
      BY <3>1, <3>2, <3>3, <3>4
  <2>3. CASE k > Len(a) + Len(b)
    <3> DEFINE m == k - (Len(a) + Len(b))
    <3>1. m \in 1 .. Len(c) /\ k = Len(a \o d) + m /\ k = Len(a \o b) + m
      BY <1>3, <1>4, <1>5, <2>3
    <3> HIDE DEF m
    <3>2. x[Len(a \o d) + m] = c[m] /\ y[Len(a \o b) + m] = c[m]
      BY <1>2, <3>1 DEF Joined
    <3>3. QED
      BY <3>1, <3>2
  <2>4. k \in Int
    BY <1>5
  <2>5. k <= Len(a) \/ (Len(a) < k /\ k <= Len(a) + Len(b)) \/ k > Len(a) + Len(b)
    BY <1>3, <2>4
  <2>6. QED
    BY <2>1, <2>2, <2>3, <2>5, Zenon
<1> HIDE DEF x, y
<1>9. Sets(x, y, Len(a) + n, count)
  <2>1. x \in Seq(Nat)
    BY <1>2 DEF x
  <2>2. \A k \in 1 .. Len(y) : k # (Len(a) + n) + 1 => x[k] = y[k]
    BY <1>8
  <2>3. QED
    BY ONLY <1>5, <1>6, <1>7, <2>1, <2>2 DEF Sets
<1>10. QED
  BY <1>9 DEF x, y

-----------------------------------------------------------------------------
(* Step 2 of hllSparseSet: one opcode becomes up to three. *)

Repeat(v, n) == [k \in 1 .. n |-> v]

\* A run of one value.
LEMMA RepeatType ==
    ASSUME NEW v \in Nat, NEW n \in Nat
    PROVE  /\ Repeat(v, n) \in Seq(Nat) /\ Len(Repeat(v, n)) = n
           /\ \A k \in 1 .. n : Repeat(v, n)[k] = v
BY DEF Repeat

\* Two runs of the same value.
LEMMA RepeatConcat ==
    ASSUME NEW v \in Nat, NEW m \in Nat, NEW n \in Nat
    PROVE  Repeat(v, m) \o Repeat(v, n) = Repeat(v, m + n)
<1> DEFINE a == Repeat(v, m)
           b == Repeat(v, n)
           c == Repeat(v, m + n)
<1>1. a \in Seq(Nat) /\ Len(a) = m /\ \A k \in 1 .. m : a[k] = v
  BY RepeatType
<1>2. b \in Seq(Nat) /\ Len(b) = n /\ \A k \in 1 .. n : b[k] = v
  BY RepeatType
<1>3. c \in Seq(Nat) /\ Len(c) = m + n /\ \A k \in 1 .. (m + n) : c[k] = v
  BY RepeatType
<1> HIDE DEF a, b, c
<1>4. a \o b \in Seq(Nat) /\ Joined(a, b)
  BY <1>1, <1>2, Join, Zenon
<1>5. ASSUME NEW k \in 1 .. (m + n) PROVE (a \o b)[k] = v
  <2>1. CASE k <= m
    BY <1>1, <1>4, <2>1 DEF Joined
  <2>2. CASE k > m
    <3>1. k - m \in 1 .. n /\ m + (k - m) = k
      BY <2>2
    <3>2. (a \o b)[m + (k - m)] = b[k - m]
      BY <1>1, <1>2, <1>4, <3>1 DEF Joined
    <3>3. QED
      BY <1>2, <3>1, <3>2
  <2>3. k <= m \/ k > m
    OBVIOUS
  <2>4. QED
    BY <2>1, <2>2, <2>3, Zenon
<1>6. Len(a \o b) = Len(c) /\ \A k \in 1 .. Len(a \o b) : (a \o b)[k] = c[k]
  BY <1>1, <1>2, <1>3, <1>4, <1>5 DEF Joined
<1>7. a \o b = c
  BY <1>3, <1>4, <1>6, SameElements
<1>8. QED
  BY <1>7 DEF a, b, c

\* What is left of an opcode on one side of the register.
Piece(c, n) == IF c.op = "VAL" THEN Vals(c.val, n) ELSE Zeroes(n)

\* A piece is one opcode or none, of the same value and no more bytes.
LEMMA PieceIs ==
    ASSUME NEW c \in Opcode, NEW n \in Nat, n <= c.len
    PROVE  LET s == Piece(c, n) IN
           /\ s = <<>> \/ \E d \in Opcode : s = <<d>> /\ (c.op = "VAL" => d.op = "VAL")
           /\ s \in Seq(Opcode) /\ Walk(s) = Repeat(c.val, n)
           /\ sdslen(s) <= HLL_HDR_SIZE + Bytes(c)
<1>1. /\ c.len \in Nat \ {0} /\ c.val \in Nat /\ HLL_HDR_SIZE \in Nat /\ Bytes(c) \in 1 .. 2
  BY OpcodeType, HllAssumption
<1>2. CASE n = 0
  <2>1. Piece(c, n) = <<>>
    BY <1>2 DEF Piece, Vals, Zeroes
  <2>2. Repeat(c.val, n) = <<>>
    BY <1>2 DEF Repeat
  <2>3. <<>> \in Seq(Opcode)
    OBVIOUS
  <2>4. QED
    BY <1>1, <2>1, <2>2, <2>3, NoOpcodes
<1>3. CASE n # 0
  <2>1. PICK d \in Opcode : /\ Piece(c, n) = <<d>> /\ (c.op = "VAL" => d.op = "VAL")
                            /\ d.len = n /\ d.val = c.val /\ Bytes(d) <= Bytes(c)
    <3>1. CASE c.op = "VAL"
      <4>1. VAL(c.val, n) \in Opcode
        <5>1. c.len <= HLL_SPARSE_VAL_MAX_LEN /\ c.val \in 1 .. HLL_SPARSE_VAL_MAX_VALUE
          BY <3>1, HllAssumption DEF Opcode
        <5>2. n \in 1 .. HLL_SPARSE_VAL_MAX_LEN
          BY <1>1, <1>3, <5>1, HllAssumption
        <5>3. QED
          BY <5>1, <5>2 DEF VAL, Opcode
      <4>2. Piece(c, n) = <<VAL(c.val, n)>>
        BY <1>3, <3>1 DEF Piece, Vals
      <4>3. VAL(c.val, n).op = "VAL" /\ VAL(c.val, n).len = n /\ VAL(c.val, n).val = c.val
        BY DEF VAL
      <4>4. Bytes(VAL(c.val, n)) <= Bytes(c)
        BY <3>1, <4>3 DEF Bytes
      <4>5. QED
        BY <4>1, <4>2, <4>3, <4>4
    <3>2. CASE c.op # "VAL" /\ n > HLL_SPARSE_ZERO_MAX_LEN
      <4>1. c.op = "XZERO" /\ c.val = 0 /\ c.len <= HLL_REGISTERS
        BY <1>1, <3>2, HllAssumption DEF Opcode
      <4>2. XZERO(n) \in Opcode
        BY <1>1, <1>3, <4>1, HllAssumption DEF XZERO, Opcode
      <4>3. Piece(c, n) = <<XZERO(n)>>
        BY <1>3, <3>2 DEF Piece, Zeroes
      <4>4. XZERO(n).len = n /\ XZERO(n).val = 0 /\ XZERO(n).op = "XZERO"
        BY DEF XZERO
      <4>5. Bytes(XZERO(n)) <= Bytes(c)
        BY <4>1, <4>4 DEF Bytes
      <4>6. QED
        BY <3>2, <4>1, <4>2, <4>3, <4>4, <4>5
    <3>3. CASE c.op # "VAL" /\ ~(n > HLL_SPARSE_ZERO_MAX_LEN)
      <4>1. c.val = 0
        BY <3>3 DEF Opcode
      <4>2. ZERO(n) \in Opcode
        BY <1>1, <1>3, <3>3, HllAssumption DEF ZERO, Opcode
      <4>3. Piece(c, n) = <<ZERO(n)>>
        BY <1>3, <3>3 DEF Piece, Zeroes
      <4>4. ZERO(n).len = n /\ ZERO(n).val = 0 /\ ZERO(n).op = "ZERO"
        BY DEF ZERO
      <4>5. Bytes(ZERO(n)) <= Bytes(c)
        BY <1>1, <4>4 DEF Bytes
      <4>6. QED
        BY <3>3, <4>1, <4>2, <4>3, <4>4, <4>5
    <3>4. QED
      BY <3>1, <3>2, <3>3
  <2>2. Run(d) = Repeat(c.val, n)
    BY <2>1 DEF Run, Repeat
  <2>3. <<d>> \in Seq(Opcode) /\ Walk(<<d>>) = Run(d) /\ sdslen(<<d>>) = HLL_HDR_SIZE + Bytes(d)
    BY OneOpcode
  <2>4. Bytes(d) \in 1 .. 2
    BY OpcodeType
  <2>5. sdslen(<<d>>) <= HLL_HDR_SIZE + Bytes(c)
    BY <1>1, <2>1, <2>3, <2>4
  <2>6. QED
    BY <2>1, <2>2, <2>3, <2>5
<1>4. QED
  BY <1>2, <1>3

Alternate(ops) ==
    \A j \in 1 .. (Len(ops) - 1) : ops[j].op = "VAL" \/ ops[j + 1].op = "VAL"

AllVal(ops) == \A j \in 1 .. Len(ops) : ops[j].op = "VAL"

\* The opcodes Split makes of one.
LEMMA SplitIs ==
    ASSUME NEW c \in Opcode, NEW before \in 0 .. (c.len - 1),
           NEW count \in 1 .. HLL_SPARSE_VAL_MAX_VALUE
    PROVE  LET seq == Split(c, before, count) IN
           /\ seq \in Seq(Opcode) /\ Len(seq) \in 1 .. 3
           /\ Sets(Walk(seq), Run(c), before, count)
           /\ sdslen(seq) <= HLL_HDR_SIZE + Bytes(c) + 3
           /\ Alternate(seq) /\ (c.op = "VAL" => AllVal(seq))
<1> DEFINE after == c.len - before - 1
           v == VAL(count, 1)
           x == Piece(c, before)
           y == Piece(c, after)
<1>1. /\ c.len \in Nat \ {0} /\ c.val \in Nat /\ HLL_HDR_SIZE \in Nat /\ Bytes(c) \in 1 .. 2
  BY OpcodeType, HllAssumption
<1>2. v \in Opcode /\ v.op = "VAL" /\ v.len = 1 /\ v.val = count /\ count \in Nat
  BY HllAssumption DEF VAL, Opcode
<1>3. before \in Nat /\ after \in Nat /\ before <= c.len /\ after <= c.len /\ (before + 1) + after = c.len
  BY <1>1
<1>4. Split(c, before, count) = (x \o <<v>>) \o y
  BY DEF Split, Piece
<1>5. /\ x = <<>> \/ \E d \in Opcode : x = <<d>> /\ (c.op = "VAL" => d.op = "VAL")
      /\ x \in Seq(Opcode) /\ Walk(x) = Repeat(c.val, before)
      /\ sdslen(x) <= HLL_HDR_SIZE + Bytes(c)
  BY <1>3, PieceIs
<1>6. /\ y = <<>> \/ \E d \in Opcode : y = <<d>> /\ (c.op = "VAL" => d.op = "VAL")
      /\ y \in Seq(Opcode) /\ Walk(y) = Repeat(c.val, after)
      /\ sdslen(y) <= HLL_HDR_SIZE + Bytes(c)
  BY <1>3, PieceIs
<1> HIDE DEF x, y, v, after
<1> DEFINE seq == (x \o <<v>>) \o y
<1>7. <<v>> \in Seq(Opcode) /\ Walk(<<v>>) = Run(v) /\ sdslen(<<v>>) = HLL_HDR_SIZE + 1
  BY <1>2, OneOpcode DEF Bytes
<1>8. x \o <<v>> \in Seq(Opcode) /\ seq \in Seq(Opcode) /\ Joined(x, <<v>>) /\ Joined(x \o <<v>>, y)
  BY <1>5, <1>6, <1>7, Join, Zenon DEF seq
<1>9. Walk(seq) = (Walk(x) \o Run(v)) \o Walk(y)
  <2>1. Walk(x \o <<v>>) = Walk(x) \o Walk(<<v>>)
    BY <1>5, <1>7, WalkConcat, Zenon
  <2>2. Walk((x \o <<v>>) \o y) = Walk(x \o <<v>>) \o Walk(y)
    BY <1>6, <1>8, WalkConcat, Zenon
  <2>3. QED
    BY <1>7, <2>1, <2>2
<1>10. sdslen(seq) <= HLL_HDR_SIZE + Bytes(c) + 3
  <2>1. /\ sdslen(x) \in Nat /\ sdslen(y) \in Nat
        /\ sdslen(x \o <<v>>) = sdslen(x) + sdslen(<<v>>) - HLL_HDR_SIZE
        /\ sdslen(seq) = sdslen(x \o <<v>>) + sdslen(y) - HLL_HDR_SIZE
    BY <1>5, <1>6, <1>7, <1>8, WalkType, WalkConcat
  <2> DEFINE sx == sdslen(x)
             sy == sdslen(y)
             bc == Bytes(c)
  <2>2. sdslen(seq) = sx + sy - HLL_HDR_SIZE + 1
    BY <1>1, <1>7, <2>1
  <2>3. sx <= HLL_HDR_SIZE + bc /\ sy <= HLL_HDR_SIZE + bc /\ bc \in 1 .. 2 /\ sx \in Nat /\ sy \in Nat
    BY <1>1, <1>5, <1>6, <2>1
  <2> HIDE DEF sx, sy, bc
  <2>4. sx + sy - HLL_HDR_SIZE + 1 <= HLL_HDR_SIZE + bc + 3
    BY <1>1, <2>3
  <2>5. QED
    BY <2>2, <2>4 DEF bc
<1>11. Sets(Walk(seq), Run(c), before, count)
  <2> DEFINE a == Repeat(c.val, before)
             b == Repeat(c.val, 1)
             e == Repeat(c.val, after)
  <2>1. a \in Seq(Nat) /\ b \in Seq(Nat) /\ e \in Seq(Nat) /\ Len(a) = before /\ Len(b) = 1
    BY <1>1, <1>3, RepeatType
  <2>2. Run(v) \in Seq(Nat) /\ Len(Run(v)) = 1 /\ Run(v)[1] = count
    BY <1>2, OpcodeType DEF Run
  <2>3. Sets(Run(v), b, 0, count)
    <3>1. 0 + 1 = 1
      OBVIOUS
    <3> HIDE DEF b
    <3>2. QED
      BY <2>1, <2>2, <3>1 DEF Sets
  <2>4. a \o b = Repeat(c.val, before + 1) /\ Repeat(c.val, before + 1) \o e = Repeat(c.val, c.len)
    <3>1. 1 \in Nat /\ before + 1 \in Nat
      BY <1>3
    <3>2. a \o b = Repeat(c.val, before + 1)
      BY <1>1, <1>3, <3>1, RepeatConcat
    <3>3. Repeat(c.val, before + 1) \o e = Repeat(c.val, (before + 1) + after)
      BY <1>1, <1>3, <3>1, RepeatConcat
    <3>4. QED
      BY <1>3, <3>2, <3>3
  <2>5. Run(c) = Repeat(c.val, c.len)
    BY DEF Run, Repeat
  <2> HIDE DEF a, b, e
  <2>6. Sets((a \o Run(v)) \o e, (a \o b) \o e, Len(a) + 0, count)
    BY <1>2, <2>1, <2>2, <2>3, SetsInside
  <2>7. Walk(seq) = (a \o Run(v)) \o e /\ Run(c) = (a \o b) \o e /\ Len(a) + 0 = before
    <3>1. Walk(x) = a /\ Walk(y) = e
      BY <1>5, <1>6 DEF a, e
    <3>2. Len(a) + 0 = before
      BY <1>3, <2>1
    <3>3. Run(c) = (a \o b) \o e
      BY <2>4, <2>5
    <3>4. QED
      BY <1>9, <3>1, <3>2, <3>3
  <2>8. QED
    BY <2>6, <2>7
<1> HIDE DEF seq
<1>12. Len(x) \in 0 .. 1 /\ Len(y) \in 0 .. 1 /\ Len(<<v>>) = 1
  BY <1>5, <1>6
<1>13. Len(x \o <<v>>) = Len(x) + 1 /\ Len(seq) = (Len(x) + 1) + Len(y)
  BY <1>8, <1>12 DEF Joined, seq
<1> DEFINE lx == Len(x)
           ly == Len(y)
           ls == Len(seq)
           lw == Len(x \o <<v>>)
<1>a. lx \in 0 .. 1 /\ ly \in 0 .. 1 /\ lw = lx + 1 /\ ls = (lx + 1) + ly
  BY <1>12, <1>13
<1>14. seq[Len(x) + 1] = v
  <2>1. (x \o <<v>>)[Len(x) + 1] = v
    BY <1>8, <1>12 DEF Joined
  <2>2. Len(x) + 1 \in 1 .. Len(x \o <<v>>)
    BY <1>12, <1>13
  <2>3. QED
    BY <1>8, <2>1, <2>2 DEF Joined, seq
<1>15. c.op = "VAL" => AllVal(seq)
  <2>1. SUFFICES ASSUME c.op = "VAL", NEW k \in 1 .. Len(seq) PROVE seq[k].op = "VAL"
    BY DEF AllVal
  <2>2. CASE k <= Len(x)
    <3>1. k \in 1 .. lx /\ k \in 1 .. lw /\ k = 1
      <4> HIDE DEF lx, ly, ls, lw
      <4>1. k \in 1 .. ls /\ k <= lx
        BY <2>1, <2>2 DEF lx, ls
      <4>2. QED
        BY <1>a, <4>1
    <3>2. seq[k] = x[k]
      BY <1>8, <3>1 DEF Joined, seq
    <3>3. x[1].op = "VAL"
      BY <1>5, <2>1, <3>1
    <3>4. QED
      BY <3>1, <3>2, <3>3
  <2>3. CASE k = Len(x) + 1
    BY <1>2, <1>14, <2>3
  <2>4. CASE k > Len(x) + 1
    <3>1. k = lw + 1 /\ 1 \in 1 .. ly
      <4> HIDE DEF lx, ly, ls, lw
      <4>1. k \in 1 .. ls /\ k > lx + 1
        BY <2>1, <2>4 DEF lx, ls
      <4>2. QED
        BY <1>a, <4>1
    <3>2. seq[lw + 1] = y[1]
      BY <1>8, <3>1 DEF Joined, seq
    <3>3. y[1].op = "VAL"
      BY <1>6, <2>1, <3>1
    <3>4. QED
      BY <3>1, <3>2, <3>3
  <2>5. k <= lx \/ k = lx + 1 \/ k > lx + 1
    <3> HIDE DEF lx, ly, ls, lw
    <3>1. k \in 1 .. ls
      BY <2>1 DEF ls
    <3>2. QED
      BY <1>a, <3>1
  <2>6. QED
    BY <2>2, <2>3, <2>4, <2>5, Zenon
<1>16. Alternate(seq)
  <2>1. SUFFICES ASSUME NEW k \in 1 .. (Len(seq) - 1)
                 PROVE  seq[k].op = "VAL" \/ seq[k + 1].op = "VAL"
    BY DEF Alternate
  <2>2. k = Len(x) + 1 \/ k + 1 = Len(x) + 1
    <3> HIDE DEF lx, ly, ls, lw
    <3>1. k \in 1 .. (ls - 1)
      BY <2>1 DEF ls
    <3>2. k = lx + 1 \/ k + 1 = lx + 1
      BY <1>a, <3>1
    <3>3. QED
      BY <3>2 DEF lx
  <2>3. QED
    BY <1>2, <1>14, <2>2
<1>17. ls \in 1 .. 3
  <2> HIDE DEF lx, ly, ls, lw
  <2>1. QED
    BY <1>a
<1>18. seq = Split(c, before, count)
  BY <1>4 DEF seq
<1>19. seq \in Seq(Opcode)
  BY <1>8 DEF seq
<1>20. QED
  BY <1>10, <1>11, <1>15, <1>16, <1>17, <1>18, <1>19

-----------------------------------------------------------------------------
(* Step 4 of hllSparseSet: adjacent VALs that fit one are merged. *)

\* The opcode that two mergeable ones become.
Merged(ops, i) == VAL(ops[i].val, ops[i].len + ops[i + 1].len)

\* Two opcodes that may be merged make an opcode.
LEMMA MergedIs ==
    ASSUME NEW ops \in Seq(Opcode), NEW i \in Nat \ {0}, Mergeable(ops, i)
    PROVE  /\ i \in 1 .. Len(ops) /\ i + 1 \in i .. Len(ops) /\ i + 1 \in 1 .. Len(ops)
           /\ ops[i] \in Opcode /\ ops[i + 1] \in Opcode
           /\ Merged(ops, i) \in Opcode
<1>1. i \in 1 .. Len(ops) /\ i + 1 \in i .. Len(ops) /\ i + 1 \in 1 .. Len(ops)
  BY DEF Mergeable
<1>2. ops[i] \in Opcode /\ ops[i + 1] \in Opcode
  BY <1>1
<1>3. ops[i].val \in 1 .. HLL_SPARSE_VAL_MAX_VALUE
  BY <1>2, HllAssumption DEF Mergeable, Opcode
<1>4. ops[i].len \in Nat \ {0} /\ ops[i + 1].len \in Nat \ {0}
  BY <1>2, OpcodeType
<1>5. ops[i].len + ops[i + 1].len \in 1 .. HLL_SPARSE_VAL_MAX_LEN
  <2> DEFINE x == ops[i].len
             y == ops[i + 1].len
  <2>1. x \in Nat \ {0} /\ y \in Nat \ {0}
    BY <1>4
  <2>2. x + y <= HLL_SPARSE_VAL_MAX_LEN
    BY DEF Mergeable
  <2>3. HLL_SPARSE_VAL_MAX_LEN \in Nat
    BY HllAssumption
  <2> HIDE DEF x, y
  <2>4. x + y \in 1 .. HLL_SPARSE_VAL_MAX_LEN
    BY <2>1, <2>2, <2>3
  <2>5. QED
    BY <2>4 DEF x, y
<1>6. Merged(ops, i) \in Opcode
  BY <1>3, <1>5 DEF Merged, VAL, Opcode
<1>7. QED
  BY <1>1, <1>2, <1>6

\* MergeAt puts the merged opcode in the place of the two.
LEMMA MergeAtSplice ==
    ASSUME NEW ops \in Seq(Opcode), NEW i \in Nat \ {0}, Mergeable(ops, i)
    PROVE  MergeAt(ops, i) = Splice(ops, i, i + 1, <<Merged(ops, i)>>)
<1> DEFINE m == Merged(ops, i)
           t == RemoveAt(ops, i)
           new == Splice(ops, i, i + 1, <<m>>)
<1>1. /\ i \in 1 .. Len(ops) /\ i + 1 \in i .. Len(ops) /\ i + 1 \in 1 .. Len(ops)
      /\ m \in Opcode
  BY MergedIs
<1> HIDE DEF m
<1>2. <<m>> \in Seq(Opcode) /\ Len(<<m>>) = 1 /\ <<m>>[1] = m
  BY <1>1
<1>3. new \in Seq(Opcode) /\ Spliced(new, ops, i, i + 1, <<m>>)
  BY <1>1, <1>2, SpliceElements
<1>4. /\ SubSeq(ops, 1, i - 1) \in Seq(Opcode) /\ Len(SubSeq(ops, 1, i - 1)) = i - 1
      /\ \A k \in 1 .. (i - 1) : SubSeq(ops, 1, i - 1)[k] = ops[k]
      /\ SubSeq(ops, i + 1, Len(ops)) \in Seq(Opcode) /\ Len(SubSeq(ops, i + 1, Len(ops))) = Len(ops) - i
      /\ \A k \in 1 .. (Len(ops) - i) : SubSeq(ops, i + 1, Len(ops))[k] = ops[i + k]
  <2>1. i \in i .. Len(ops)
    BY <1>1
  <2>2. QED
    BY <1>1, <2>1, Kept
<1> DEFINE a == SubSeq(ops, 1, i - 1)
           c == SubSeq(ops, i + 1, Len(ops))
<1>5. t = a \o c
  BY DEF RemoveAt
<1> HIDE DEF new, t, a, c
<1>6. t \in Seq(Opcode) /\ Joined(a, c)
  BY <1>4, <1>5, Join, Zenon DEF a, c
<1> DEFINE n == Len(ops)
           u == ReplaceAt(t, i, m)
<1>7. n \in Nat /\ i <= n - 1 /\ i >= 1 /\ i \in Nat
  BY <1>1
<1>8. Len(a) = i - 1 /\ Len(c) = n - i /\ Len(t) = n - 1
  BY <1>4, <1>5, <1>6, <1>7 DEF Joined, a, c
<1>9. \A k \in 1 .. (i - 1) : t[k] = ops[k]
  BY <1>4, <1>5, <1>6, <1>8 DEF Joined, a
<1>10. \A k \in (i + 1) .. (n - 1) : t[k] = ops[k + 1]
  <2>1. TAKE k \in (i + 1) .. (n - 1)
  <2> DEFINE q == k - (i - 1)
  <2>2. q \in 1 .. (n - i) /\ (i - 1) + q = k /\ i + q = k + 1
    BY <1>7
  <2> HIDE DEF q
  <2>3. t[(i - 1) + q] = c[q]
    BY <1>5, <1>6, <1>8, <2>2 DEF Joined
  <2>4. c[q] = ops[i + q]
    BY <1>4, <2>2 DEF c
  <2>5. QED
    BY <2>2, <2>3, <2>4
<1>11. u = [t EXCEPT ![i] = m]
  BY DEF ReplaceAt
<1>12. i \in 1 .. Len(t) /\ DOMAIN t = 1 .. Len(t)
  BY <1>6, <1>7, <1>8
<1>13. u \in Seq(Opcode) /\ Len(u) = Len(t) /\ u[i] = m /\ \A k \in 1 .. Len(t) : k # i => u[k] = t[k]
  <2>1. u \in [1 .. Len(t) -> Opcode]
    BY <1>1, <1>6, <1>11, <1>12
  <2> HIDE DEF u
  <2>2. Len(t) \in Nat
    BY <1>6
  <2>3. u \in Seq(Opcode) /\ Len(u) = Len(t)
    BY <2>1, <2>2
  <2>4. QED
    BY <1>11, <1>12, <2>3
<1> HIDE DEF u, n
<1>14. Len(new) = n - 1
  BY <1>2, <1>3, <1>7 DEF Spliced, n
<1>15. ASSUME NEW k \in 1 .. (n - 1) PROVE u[k] = new[k]
  <2>1. CASE k < i
    <3>1. k \in 1 .. (i - 1) /\ k \in 1 .. Len(t) /\ k # i
      BY <1>7, <1>8, <2>1
    <3>2. new[k] = ops[k]
      BY <1>3, <3>1 DEF Spliced
    <3>3. u[k] = t[k] /\ t[k] = ops[k]
      BY <1>9, <1>13, <3>1
    <3>4. QED
      BY <3>2, <3>3
  <2>2. CASE k = i
    <3>1. new[(i - 1) + 1] = m
      BY <1>2, <1>3 DEF Spliced
    <3>2. (i - 1) + 1 = i
      BY <1>7
    <3>3. QED
      BY <1>13, <2>2, <3>1, <3>2
  <2>3. CASE k > i
    <3>1. k \in (i + 1) .. (n - 1) /\ k \in 1 .. Len(t) /\ k # i
      BY <1>7, <1>8, <2>3
    <3>2. u[k] = ops[k + 1]
      BY <1>10, <1>13, <3>1
    <3>3. k + 1 \in ((i + 1) + 1) .. n /\ ((i - 1) + 1) + ((k + 1) - (i + 1)) = k
      BY <1>7, <3>1
    <3>4. new[((i - 1) + 1) + ((k + 1) - (i + 1))] = ops[k + 1]
      BY <1>2, <1>3, <3>3 DEF Spliced, n
    <3>5. QED
      BY <3>2, <3>3, <3>4
  <2>4. k < i \/ k = i \/ k > i
    BY <1>7
  <2>5. QED
    BY <2>1, <2>2, <2>3, <2>4, Zenon
<1>16. Len(u) = Len(new) /\ \A k \in 1 .. Len(u) : u[k] = new[k]
  BY <1>8, <1>13, <1>14, <1>15
<1>17. u = new
  BY <1>3, <1>13, <1>16, SameElements
<1>18. MergeAt(ops, i) = u
  BY DEF MergeAt, u, t, m, Merged
<1>19. QED
  BY <1>17, <1>18 DEF new, m

\* The opcodes of MergeAt one by one.
LEMMA MergeAtElements ==
    ASSUME NEW ops \in Seq(Opcode), NEW i \in Nat \ {0}, Mergeable(ops, i)
    PROVE  LET new == MergeAt(ops, i) IN
           /\ new \in Seq(Opcode) /\ Len(new) = Len(ops) - 1 /\ new[i] = Merged(ops, i)
           /\ \A k \in 1 .. (i - 1) : new[k] = ops[k]
           /\ \A k \in (i + 1) .. (Len(ops) - 1) : new[k] = ops[k + 1]
<1> DEFINE m == Merged(ops, i)
           new == MergeAt(ops, i)
           n == Len(ops)
<1>1. /\ i \in 1 .. n /\ i + 1 \in i .. n /\ i + 1 \in 1 .. n /\ m \in Opcode
  BY MergedIs
<1> HIDE DEF m
<1>2. <<m>> \in Seq(Opcode) /\ Len(<<m>>) = 1 /\ <<m>>[1] = m
  BY <1>1
<1>3. new \in Seq(Opcode) /\ Spliced(new, ops, i, i + 1, <<m>>)
  BY <1>1, <1>2, SpliceElements, MergeAtSplice DEF m
<1> HIDE DEF new
<1>4. n \in Nat /\ i \in Nat /\ i >= 1 /\ i + 1 <= n
  BY <1>1
<1>5. Len(new) = n - 1
  BY <1>2, <1>3, <1>4 DEF Spliced
<1>6. \A k \in 1 .. (i - 1) : new[k] = ops[k]
  BY <1>3 DEF Spliced
<1>7. new[i] = m
  <2>1. new[(i - 1) + 1] = m
    BY <1>2, <1>3 DEF Spliced
  <2>2. (i - 1) + 1 = i
    BY <1>4
  <2>3. QED
    BY <2>1, <2>2
<1>8. ASSUME NEW k \in (i + 1) .. (n - 1) PROVE new[k] = ops[k + 1]
  <2>1. k + 1 \in ((i + 1) + 1) .. n /\ ((i - 1) + 1) + ((k + 1) - (i + 1)) = k
    BY <1>4, <1>8
  <2>2. new[((i - 1) + 1) + ((k + 1) - (i + 1))] = ops[k + 1]
    BY <1>2, <1>3, <2>1 DEF Spliced
  <2>3. QED
    BY <2>1, <2>2
<1>9. QED
  BY <1>3, <1>5, <1>6, <1>7, <1>8 DEF m, new

\* Merging changes neither what a walk reads nor, but for one byte, the size.
LEMMA MergeAtWalk ==
    ASSUME NEW ops \in Seq(Opcode), NEW i \in Nat \ {0}, Mergeable(ops, i)
    PROVE  /\ Walk(MergeAt(ops, i)) = Walk(ops)
           /\ sdslen(MergeAt(ops, i)) = sdslen(ops) - 1
<1> DEFINE m == Merged(ops, i)
           c == ops[i]
           d == ops[i + 1]
           old == <<c>> \o <<d>>
           a == SubSeq(ops, 1, i - 1)
           e == SubSeq(ops, (i + 1) + 1, Len(ops))
<1>1. /\ i \in 1 .. Len(ops) /\ i + 1 \in i .. Len(ops) /\ i + 1 \in 1 .. Len(ops)
      /\ m \in Opcode /\ c \in Opcode /\ d \in Opcode
  BY MergedIs
<1>2. /\ c.len \in Nat /\ d.len \in Nat /\ c.val \in Nat /\ d.val = c.val
      /\ m.len = c.len + d.len /\ m.val = c.val
      /\ c.op = "VAL" /\ d.op = "VAL" /\ m.op = "VAL"
  BY <1>1, OpcodeType DEF Mergeable, Merged, VAL
<1> HIDE DEF m, c, d
<1>3. /\ <<c>> \in Seq(Opcode) /\ Walk(<<c>>) = Run(c) /\ sdslen(<<c>>) = HLL_HDR_SIZE + 1
      /\ <<d>> \in Seq(Opcode) /\ Walk(<<d>>) = Run(d) /\ sdslen(<<d>>) = HLL_HDR_SIZE + 1
      /\ <<m>> \in Seq(Opcode) /\ Walk(<<m>>) = Run(m) /\ sdslen(<<m>>) = HLL_HDR_SIZE + 1
  BY <1>1, <1>2, OneOpcode DEF Bytes
<1>4. Run(m) = Run(c) \o Run(d)
  <2>1. Run(c) = Repeat(c.val, c.len) /\ Run(d) = Repeat(c.val, d.len) /\ Run(m) = Repeat(c.val, c.len + d.len)
    BY <1>2 DEF Run, Repeat
  <2>2. Repeat(c.val, c.len) \o Repeat(c.val, d.len) = Repeat(c.val, c.len + d.len)
    BY <1>2, RepeatConcat
  <2>3. QED
    BY <2>1, <2>2
<1>5. old \in Seq(Opcode) /\ Joined(<<c>>, <<d>>)
  BY <1>3, Join, Zenon
<1>6. Walk(old) = Run(c) \o Run(d) /\ sdslen(old) = HLL_HDR_SIZE + 2
  <2>1. Walk(old) = Walk(<<c>>) \o Walk(<<d>>) /\ sdslen(old) = sdslen(<<c>>) + sdslen(<<d>>) - HLL_HDR_SIZE
    BY <1>3, WalkConcat, Zenon
  <2>2. HLL_HDR_SIZE \in Nat
    BY HllAssumption
  <2> HIDE DEF old
  <2>3. Walk(old) = Run(c) \o Run(d)
    BY <1>3, <2>1
  <2> DEFINE x == sdslen(<<c>>)
             y == sdslen(<<d>>)
             z == sdslen(old)
  <2>4. x = HLL_HDR_SIZE + 1 /\ y = HLL_HDR_SIZE + 1 /\ z = x + y - HLL_HDR_SIZE
    BY <1>3, <2>1
  <2> HIDE DEF x, y, z
  <2>5. z = HLL_HDR_SIZE + 2
    BY <2>2, <2>4
  <2>6. QED
    BY <2>3, <2>5 DEF z
<1>7. Splice(ops, i, i + 1, old) = ops
  <2>1. Len(old) = ((i + 1) - i) + 1 /\ Len(old) = 2
    BY <1>1, <1>5 DEF Joined
  <2>2. \A k \in 1 .. Len(old) : old[k] = ops[(i - 1) + k]
    <3>1. old[1] = c /\ old[2] = d
      OBVIOUS
    <3>2. (i - 1) + 1 = i /\ (i - 1) + 2 = i + 1
      OBVIOUS
    <3> HIDE DEF old
    <3>3. old[1] = ops[(i - 1) + 1] /\ old[2] = ops[(i - 1) + 2]
      BY <3>1, <3>2 DEF c, d
    <3>4. \A k \in 1 .. 2 : k = 1 \/ k = 2
      OBVIOUS
    <3>5. QED
      BY <2>1, <3>3, <3>4
  <2> HIDE DEF old
  <2>3. QED
    BY <1>1, <1>5, <2>1, <2>2, SpliceBack
<1> HIDE DEF old, a, e
<1>8. /\ Walk(ops) = (Walk(a) \o Walk(old)) \o Walk(e)
      /\ sdslen(ops) = ((sdslen(a) + sdslen(old)) + sdslen(e)) - 2 * HLL_HDR_SIZE
      /\ a \in Seq(Opcode) /\ e \in Seq(Opcode)
  <2>1. Parts(Splice(ops, i, i + 1, old), a, old, e)
    BY <1>1, <1>5, SpliceWalk, Zenon DEF a, e
  <2>2. QED
    BY <1>7, <2>1 DEF Parts
<1>9. MergeAt(ops, i) = Splice(ops, i, i + 1, <<m>>)
  BY MergeAtSplice DEF m
<1>10. /\ Walk(MergeAt(ops, i)) = (Walk(a) \o Walk(<<m>>)) \o Walk(e)
       /\ sdslen(MergeAt(ops, i)) = ((sdslen(a) + sdslen(<<m>>)) + sdslen(e)) - 2 * HLL_HDR_SIZE
  <2>1. Parts(Splice(ops, i, i + 1, <<m>>), a, <<m>>, e)
    BY <1>1, <1>3, SpliceWalk, Zenon DEF a, e
  <2>2. QED
    BY <1>9, <2>1 DEF Parts
<1>11. Walk(MergeAt(ops, i)) = Walk(ops)
  BY <1>3, <1>4, <1>6, <1>8, <1>10
<1>12. sdslen(a) \in Nat /\ sdslen(e) \in Nat /\ HLL_HDR_SIZE \in Nat
  BY <1>8, WalkType, HllAssumption
<1>13. sdslen(MergeAt(ops, i)) = sdslen(ops) - 1
  BY <1>3, <1>6, <1>8, <1>10, <1>12
<1>14. QED
  BY <1>11, <1>13

\* Outside of k pairs from opcode p on there is nothing to merge.
Clean(ops, p, k) == \A j \in Nat \ {0} : j < p \/ j >= p + k => ~Mergeable(ops, j)

\* A merge leaves one pair less to look at: a merged opcode is longer than each part, so
\* it does not fit a neighbour that a part did not fit.
LEMMA MergeAtClean ==
    ASSUME NEW ops \in Seq(Opcode), NEW p \in Nat \ {0}, NEW k \in Int, Mergeable(ops, p),
           Clean(ops, p, k), Alternate(ops)
    PROVE  Clean(MergeAt(ops, p), p, k - 1) /\ Alternate(MergeAt(ops, p))
<1> DEFINE new == MergeAt(ops, p)
           m == Merged(ops, p)
           n == Len(ops)
<1>1. /\ new \in Seq(Opcode) /\ Len(new) = n - 1 /\ new[p] = m
      /\ \A j \in 1 .. (p - 1) : new[j] = ops[j]
      /\ \A j \in (p + 1) .. (n - 1) : new[j] = ops[j + 1]
  BY MergeAtElements
<1>2. /\ p \in 1 .. n /\ p + 1 \in 1 .. n /\ m \in Opcode
      /\ ops[p] \in Opcode /\ ops[p + 1] \in Opcode
  BY MergedIs
<1>3. n \in Nat /\ p \in Nat /\ p >= 1 /\ p + 1 <= n
  BY <1>2
<1>4. /\ ops[p].op = "VAL" /\ ops[p + 1].op = "VAL" /\ ops[p + 1].val = ops[p].val
      /\ m.op = "VAL" /\ m.val = ops[p].val /\ m.len = ops[p].len + ops[p + 1].len
      /\ ops[p].len \in Nat \ {0} /\ ops[p + 1].len \in Nat \ {0}
  BY <1>2, OpcodeType DEF Mergeable, Merged, VAL
<1>5. k >= 1
  <2>1. ~(p >= p + k)
    BY DEF Clean
  <2>2. QED
    BY <1>3, <2>1
<1> HIDE DEF new, m
<1>6. ASSUME NEW j \in Nat \ {0}, j < p \/ j >= p + (k - 1), Mergeable(new, j)
      PROVE  FALSE
  <2>1. j < n - 1 /\ j \in 1 .. Len(new) /\ j + 1 \in 1 .. Len(new)
    BY <1>1, <1>3, <1>6 DEF Mergeable
  <2>2. /\ new[j].op = "VAL" /\ new[j + 1].op = "VAL" /\ new[j].val = new[j + 1].val
        /\ new[j].len + new[j + 1].len <= HLL_SPARSE_VAL_MAX_LEN
    BY <1>6 DEF Mergeable
  <2>3. CASE j < p - 1
    <3>1. j \in 1 .. (p - 1) /\ j + 1 \in 1 .. (p - 1) /\ j < n /\ j < p
      BY <1>3, <2>1, <2>3
    <3>2. new[j] = ops[j] /\ new[j + 1] = ops[j + 1]
      BY <1>1, <3>1
    <3>3. Mergeable(ops, j)
      BY <2>2, <3>1, <3>2 DEF Mergeable
    <3>4. QED
      BY <3>1, <3>3 DEF Clean
  <2>4. CASE j = p - 1
    <3>1. j \in 1 .. (p - 1) /\ j + 1 = p /\ j < n /\ j < p /\ j \in 1 .. n
      BY <1>3, <2>1, <2>4
    <3>2. new[j] = ops[j] /\ new[j + 1] = m
      BY <1>1, <3>1
    <3>3. ops[j].len \in Nat
      BY <3>1, OpcodeType
    <3>4. ops[j].len + ops[j + 1].len <= HLL_SPARSE_VAL_MAX_LEN
      <4>1. ops[j].len + (ops[p].len + ops[p + 1].len) <= HLL_SPARSE_VAL_MAX_LEN
        BY <1>4, <2>2, <3>2
      <4> DEFINE x == ops[j].len
                 y == ops[p].len
                 z == ops[p + 1].len
      <4>2. x \in Nat /\ y \in Nat /\ z \in Nat /\ x + (y + z) <= HLL_SPARSE_VAL_MAX_LEN
        BY <1>4, <3>3, <4>1
      <4>3. HLL_SPARSE_VAL_MAX_LEN \in Nat
        BY HllAssumption
      <4> HIDE DEF x, y, z
      <4>4. x + y <= HLL_SPARSE_VAL_MAX_LEN
        BY <4>2, <4>3
      <4>5. QED
        BY <3>1, <4>4 DEF x, y
    <3>5. ops[j].op = "VAL" /\ ops[j + 1].op = "VAL" /\ ops[j].val = ops[j + 1].val
      BY <1>4, <2>2, <3>1, <3>2
    <3>6. Mergeable(ops, j)
      BY <3>1, <3>4, <3>5 DEF Mergeable
    <3>7. QED
      BY <3>1, <3>6 DEF Clean
  <2>5. CASE j = p
    <3>1. /\ j + 1 \in (p + 1) .. (n - 1) /\ p + 1 \in Nat \ {0} /\ p + 1 < n
          /\ p + 1 >= p + k /\ (p + 1) + 1 \in 1 .. n /\ j + 1 = p + 1
      BY <1>3, <1>6, <2>1, <2>5
    <3>2. new[j] = m /\ new[j + 1] = ops[(p + 1) + 1]
      BY <1>1, <2>5, <3>1
    <3>3. ops[(p + 1) + 1].len \in Nat
      <4>1. ops[(p + 1) + 1] \in Opcode
        BY <3>1, ElementOfSeq
      <4>2. QED
        BY <4>1, OpcodeType
    <3>4. ops[p + 1].len + ops[(p + 1) + 1].len <= HLL_SPARSE_VAL_MAX_LEN
      <4>1. (ops[p].len + ops[p + 1].len) + ops[(p + 1) + 1].len <= HLL_SPARSE_VAL_MAX_LEN
        BY <1>4, <2>2, <3>2
      <4> DEFINE x == ops[p].len
                 y == ops[p + 1].len
                 z == ops[(p + 1) + 1].len
      <4>2. x \in Nat /\ y \in Nat /\ z \in Nat /\ (x + y) + z <= HLL_SPARSE_VAL_MAX_LEN
        BY <1>4, <3>3, <4>1
      <4>3. HLL_SPARSE_VAL_MAX_LEN \in Nat
        BY HllAssumption
      <4> HIDE DEF x, y, z
      <4>4. y + z <= HLL_SPARSE_VAL_MAX_LEN
        BY <4>2, <4>3
      <4>5. QED
        BY <4>4 DEF y, z
    <3>5. ops[p + 1].op = "VAL" /\ ops[(p + 1) + 1].op = "VAL" /\ ops[p + 1].val = ops[(p + 1) + 1].val
      BY <1>4, <2>2, <3>2
    <3>6. Mergeable(ops, p + 1)
      BY <3>1, <3>4, <3>5 DEF Mergeable
    <3>7. QED
      BY <3>1, <3>6 DEF Clean
  <2>6. CASE j > p
    <3>1. /\ j \in (p + 1) .. (n - 1) /\ j + 1 \in (p + 1) .. (n - 1)
          /\ j + 1 < n /\ j + 1 >= p + k /\ j + 1 \in Nat \ {0}
      BY <1>3, <1>6, <2>1, <2>6
    <3>2. new[j] = ops[j + 1] /\ new[j + 1] = ops[(j + 1) + 1]
      BY <1>1, <3>1
    <3>3. Mergeable(ops, j + 1)
      BY <2>2, <3>1, <3>2 DEF Mergeable
    <3>4. QED
      BY <3>1, <3>3 DEF Clean
  <2>7. j < p - 1 \/ j = p - 1 \/ j = p \/ j > p
    BY <1>3
  <2>8. QED
    BY <2>3, <2>4, <2>5, <2>6, <2>7, Zenon
<1>7. ASSUME NEW j \in 1 .. (Len(new) - 1)
      PROVE  new[j].op = "VAL" \/ new[j + 1].op = "VAL"
  <2>1. j \in Int /\ j >= 1 /\ j + 1 <= n - 1
    BY <1>1, <1>3
  <2>2. CASE j + 1 < p
    <3>1. j \in 1 .. (p - 1) /\ j + 1 \in 1 .. (p - 1) /\ j \in 1 .. (n - 1)
      BY <1>3, <2>1, <2>2
    <3>2. new[j] = ops[j] /\ new[j + 1] = ops[j + 1]
      BY <1>1, <3>1
    <3>3. QED
      BY <3>1, <3>2 DEF Alternate
  <2>3. CASE j + 1 = p \/ j = p
    BY <1>1, <1>4, <2>3
  <2>4. CASE j > p
    <3>1. j \in (p + 1) .. (n - 1) /\ j + 1 \in (p + 1) .. (n - 1) /\ j + 1 \in 1 .. (n - 1)
      BY <1>3, <2>1, <2>4
    <3>2. new[j] = ops[j + 1] /\ new[j + 1] = ops[(j + 1) + 1]
      BY <1>1, <3>1
    <3>3. QED
      BY <3>1, <3>2 DEF Alternate
  <2>5. j + 1 < p \/ (j + 1 = p \/ j = p) \/ j > p
    BY <1>3, <2>1
  <2>6. QED
    BY <2>2, <2>3, <2>4, <2>5, Zenon
<1>8. Clean(new, p, k - 1)
  BY <1>6 DEF Clean
<1>9. Alternate(new)
  BY <1>7 DEF Alternate
<1>10. QED
  BY <1>8, <1>9 DEF new

\* The state of the merge loop, and what n turns leave of it.
MergeState == [ops : Seq(Opcode), p : Nat \ {0}]

Turned(s, ops, k) ==
    /\ s \in MergeState
    /\ Walk(s.ops) = Walk(ops) /\ sdslen(s.ops) <= sdslen(ops)
    /\ Alternate(s.ops) /\ Clean(s.ops, s.p, k)

\* A turn of the merge loop leaves a state of it.
LEMMA MergeStepType ==
    ASSUME NEW s \in MergeState
    PROVE  MergeStep(s) \in MergeState
<1>1. s.ops \in Seq(Opcode) /\ s.p \in Nat \ {0}
  BY DEF MergeState
<1>2. CASE Mergeable(s.ops, s.p)
  <2>1. MergeAt(s.ops, s.p) \in Seq(Opcode)
    BY <1>1, <1>2, MergeAtElements
  <2>2. QED
    BY <1>2, <2>1 DEF MergeStep, MergeState
<1>3. CASE ~Mergeable(s.ops, s.p)
  <2>1. s.p + 1 \in Nat \ {0}
    BY <1>1
  <2>2. QED
    BY <1>3, <2>1 DEF MergeStep, MergeState
<1>4. QED
  BY <1>2, <1>3

\* One turn of the loop.
LEMMA MergeStepIs ==
    ASSUME NEW ops \in Seq(Opcode), NEW s, NEW k \in Int, Turned(s, ops, k)
    PROVE  Turned(MergeStep(s), ops, k - 1)
<1> DEFINE t == MergeStep(s)
<1>1. s \in MergeState /\ s.ops \in Seq(Opcode) /\ s.p \in Nat \ {0}
  BY DEF MergeState, Turned
<1>2. t \in MergeState
  BY <1>1, MergeStepType
<1>3. CASE Mergeable(s.ops, s.p)
  <2>1. t.ops = MergeAt(s.ops, s.p) /\ t.p = s.p
    BY <1>1, <1>3 DEF MergeStep, MergeState
  <2>2. Walk(t.ops) = Walk(s.ops) /\ sdslen(t.ops) = sdslen(s.ops) - 1
    BY <1>1, <1>3, <2>1, MergeAtWalk
  <2>3. Clean(t.ops, t.p, k - 1) /\ Alternate(t.ops)
    BY <1>1, <1>3, <2>1, MergeAtClean DEF Turned
  <2>4. sdslen(s.ops) \in Nat /\ sdslen(ops) \in Nat
    BY <1>1, WalkType
  <2> HIDE DEF t
  <2>5. sdslen(t.ops) <= sdslen(ops)
    BY <2>2, <2>4 DEF Turned
  <2>6. QED
    BY <1>2, <2>2, <2>3, <2>5 DEF Turned, t
<1>4. CASE ~Mergeable(s.ops, s.p)
  <2>1. t.ops = s.ops /\ t.p = s.p + 1
    BY <1>1, <1>4 DEF MergeStep, MergeState
  <2>2. ASSUME NEW j \in Nat \ {0}, j < s.p + 1 \/ j >= (s.p + 1) + (k - 1)
        PROVE  ~Mergeable(s.ops, j)
    <3>1. j < s.p \/ j = s.p \/ j >= s.p + k
      BY <1>1, <2>2
    <3>2. QED
      BY <1>1, <1>4, <3>1 DEF Turned, Clean
  <2>3. Clean(t.ops, t.p, k - 1)
    BY <2>1, <2>2 DEF Clean
  <2>4. QED
    BY <1>2, <2>1, <2>3 DEF Turned
<1>5. QED
  BY <1>3, <1>4

TurnStep(turns) ==
    [p \in (1 .. Len(turns)) \X MergeState |-> MergeStep(p[2])]

\* The merge loop.
LEMMA TurnFold ==
    ASSUME NEW turns \in Seq(Nat), NEW s0 \in MergeState
    PROVE  \E g : /\ Accumulates(g, Len(turns), s0, TurnStep(turns), MergeState)
                  /\ FoldLeft(LAMBDA s, k : MergeStep(s), s0, turns) = g[Len(turns)]
<1> DEFINE N == Len(turns)
           D == MergeState
           b == s0
           F == TurnStep(turns)
           Eqn(it) == it = [S \in SUBSET (1 .. N) |->
                        IF S = {} THEN b ELSE MergeStep(it[S \ {Max(S)}])]
           it == CHOOSE it : Eqn(it)
<1>1. N \in Nat /\ DOMAIN turns = 1 .. N /\ b \in D
  OBVIOUS
<1>2. F \in [(1 .. N) \X D -> D]
  <2>1. ASSUME NEW i \in 1 .. N, NEW y \in D
        PROVE  MergeStep(y) \in D
    BY MergeStepType
  <2>2. QED
    BY <2>1 DEF TurnStep
<1>3. \E jt : Eqn(jt)
  <2>1. PICK jt \in [SUBSET (1 .. N) -> D] : Iterates(jt, N, b, F)
    <3> HIDE DEF F, N, D, b
    <3>1. QED
      BY <1>1, <1>2, IteratorExists
  <2>2. ASSUME NEW S \in SUBSET (1 .. N), S # {}
        PROVE  F[<<Max(S), jt[S \ {Max(S)}]>>] = MergeStep(jt[S \ {Max(S)}])
    <3>1. Max(S) \in 1 .. N /\ S \ {Max(S)} \in SUBSET (1 .. N)
      BY <2>2, <1>1, MaxOfPart
    <3>2. jt[S \ {Max(S)}] \in D
      BY <3>1
    <3>3. QED
      BY <3>1, <3>2 DEF TurnStep
  <2>3. Eqn(jt)
    <3> HIDE DEF F, N, D, b
    <3>1. QED
      BY <2>1, <2>2 DEF Iterates
  <2>4. QED
    BY <2>3
<1>4. Eqn(it)
  <2> HIDE DEF Eqn
  <2>1. QED
    BY <1>3
<1>5. FoldLeft(LAMBDA s, k : MergeStep(s), s0, turns) = it[1 .. N]
  BY <1>1 DEF FoldLeft, MapThenFoldSet
<1> HIDE DEF it
<1>6. it[{}] = b
  BY <1>4
<1>7. ASSUME NEW n \in 1 .. N, it[1 .. (n - 1)] \in D
      PROVE  it[1 .. n] = F[<<n, it[1 .. (n - 1)]>>]
  <2>1. /\ 1 .. n \in SUBSET (1 .. N) /\ 1 .. n # {}
        /\ Max(1 .. n) = n /\ (1 .. n) \ {n} = 1 .. (n - 1)
    BY <1>1, MaxOfInitial
  <2>2. it[1 .. n] = MergeStep(it[(1 .. n) \ {Max(1 .. n)}])
    BY <1>4, <2>1
  <2>3. it[1 .. n] = MergeStep(it[1 .. (n - 1)])
    BY <2>1, <2>2
  <2>4. QED
    BY <1>7, <2>3 DEF TurnStep
<1>8. Accumulates([n \in 0 .. N |-> it[1 .. n]], N, b, F, D)
  <2> HIDE DEF F, N, D, b, Eqn
  <2>1. QED
    BY <1>1, <1>2, <1>6, <1>7, AccumulatorOf
<1>9. [n \in 0 .. N |-> it[1 .. n]][N] = it[1 .. N]
  BY <1>1
<1>10. QED
  BY <1>5, <1>8, <1>9, Zenon

\* Nothing is left to merge.
NoneMergeable(ops) == \A j \in Nat \ {0} : ~Mergeable(ops, j)

\* Five turns are enough for an edit that touches four pairs.
LEMMA MergeValsIs ==
    ASSUME NEW ops \in Seq(Opcode), NEW i \in Nat \ {0}, Alternate(ops),
           Clean(ops, IF i > 1 THEN i - 1 ELSE 1, 4)
    PROVE  LET new == MergeVals(ops, i) IN
           /\ new \in Seq(Opcode) /\ Walk(new) = Walk(ops) /\ sdslen(new) <= sdslen(ops)
           /\ Alternate(new) /\ NoneMergeable(new)
<1> DEFINE q == IF i > 1 THEN i - 1 ELSE 1
           s0 == [ops |-> ops, p |-> q]
           turns == <<1, 2, 3, 4, 5>>
           fold == FoldLeft(LAMBDA s, k : MergeStep(s), s0, turns)
<1>1. q \in Nat \ {0} /\ Clean(ops, q, 4)
  OBVIOUS
<1>2. MergeVals(ops, i) = fold.ops
  BY DEF MergeVals
<1> HIDE DEF q
<1>3. s0 \in MergeState /\ s0.ops = ops /\ s0.p = q
  BY <1>1 DEF MergeState
<1>4. turns \in Seq(Nat) /\ Len(turns) = 5
  OBVIOUS
<1> HIDE DEF s0, turns
<1>5. PICK g : /\ Accumulates(g, Len(turns), s0, TurnStep(turns), MergeState)
               /\ fold = g[Len(turns)]
  BY <1>3, <1>4, TurnFold
<1> HIDE DEF fold
<1>6. g \in [0 .. 5 -> MergeState] /\ g[0] = s0
  BY <1>4, <1>5 DEF Accumulates
<1>7. ASSUME NEW n \in 1 .. 5 PROVE g[n] = MergeStep(g[n - 1])
  <2>1. n - 1 \in 0 .. 5
    OBVIOUS
  <2>2. g[n - 1] \in MergeState /\ n \in 1 .. Len(turns)
    BY <1>4, <1>6, <2>1
  <2>3. g[n] = TurnStep(turns)[<<n, g[n - 1]>>]
    BY <1>4, <1>5 DEF Accumulates
  <2>4. QED
    BY <2>2, <2>3 DEF TurnStep
<1>8. Turned(g[0], ops, 4 - 0)
  <2>1. 4 - 0 = 4
    OBVIOUS
  <2>2. sdslen(ops) <= sdslen(ops)
    BY WalkType
  <2>3. QED
    BY <1>1, <1>3, <1>6, <2>1, <2>2 DEF Turned
<1>9. ASSUME NEW n \in 0 .. (5 - 1), Turned(g[n], ops, 4 - n)
      PROVE  Turned(g[n + 1], ops, 4 - (n + 1))
  <2>1. n + 1 \in 1 .. 5 /\ (n + 1) - 1 = n /\ (4 - n) - 1 = 4 - (n + 1) /\ 4 - n \in Int
    OBVIOUS
  <2>2. g[n + 1] = MergeStep(g[n])
    BY <1>7, <2>1
  <2>3. Turned(MergeStep(g[n]), ops, (4 - n) - 1)
    BY <1>9, <2>1, MergeStepIs
  <2>4. QED
    BY <2>1, <2>2, <2>3
<1> DEFINE S == {n \in 0 .. 5 : Turned(g[n], ops, 4 - n)}
<1>10. \A n \in 0 .. 5 : n \in S
  <2>1. 0 \in S
    BY <1>8
  <2>2. \A n \in 0 .. (5 - 1) : n \in S => n + 1 \in S
    BY <1>9
  <2> HIDE DEF S
  <2>3. QED
    BY <2>1, <2>2, UpTo
<1>11. Turned(g[5], ops, -1)
  <2>1. 5 \in 0 .. 5 /\ 4 - 5 = -1
    OBVIOUS
  <2>2. QED
    BY <1>10, <2>1
<1>12. fold = g[5]
  BY <1>4, <1>5
<1>13. NoneMergeable(fold.ops)
  <2>1. fold.p \in Nat
    BY <1>11, <1>12 DEF Turned, MergeState
  <2>2. \A j \in Nat \ {0} : j < fold.p \/ j >= fold.p + (-1)
    BY <2>1
  <2>3. QED
    BY <1>11, <1>12, <2>2 DEF Turned, Clean, NoneMergeable
<1>14. fold.ops \in Seq(Opcode)
  BY <1>11, <1>12 DEF Turned, MergeState
<1>15. QED
  BY <1>2, <1>11, <1>12, <1>13, <1>14 DEF Turned

-----------------------------------------------------------------------------
(* Steps 1 to 4 of hllSparseSet on the opcodes. *)

\* The registers of a code are values a VAL can hold.
LEMMA WalkValues ==
    ASSUME NEW ops \in Seq(Opcode)
    PROVE  Walk(ops) \in Seq(0 .. HLL_SPARSE_VAL_MAX_VALUE)
<1> DEFINE V == 0 .. HLL_SPARSE_VAL_MAX_VALUE
<1>1. Walk(<<>>) \in Seq(V)
  <2>1. <<>> \in Seq(V)
    OBVIOUS
  <2>2. QED
    BY <2>1, NoOpcodes, Zenon
<1>2. ASSUME NEW s \in Seq(Opcode), NEW c \in Opcode, Walk(s) \in Seq(V)
      PROVE  Walk(Append(s, c)) \in Seq(V)
  <2>1. c.val \in V /\ c.len \in Nat
    BY OpcodeType, HllAssumption DEF Opcode
  <2>2. Run(c) \in Seq(V)
    <3> DEFINE n == c.len
               v == c.val
    <3>1. n \in Nat /\ v \in V
      BY <2>1
    <3> HIDE DEF n, v, V
    <3>2. [k \in 1 .. n |-> v] \in Seq(V)
      BY <3>1
    <3>3. QED
      BY <3>2 DEF Run, n, v
  <2>3. Walk(Append(s, c)) = Walk(s) \o Run(c)
    BY WalkSnoc
  <2> HIDE DEF V
  <2>4. Walk(s) \o Run(c) \in Seq(V)
    BY <1>2, <2>2, Join, Zenon
  <2>5. QED
    BY <2>3, <2>4
<1> HIDE DEF V
<1> DEFINE P == {s \in Seq(Opcode) : Walk(s) \in Seq(V)}
<1>3. P = Seq(Opcode)
  <2>1. P \in SUBSET Seq(Opcode) /\ <<>> \in P
    BY <1>1
  <2>2. ASSUME NEW s \in P, NEW c \in Opcode PROVE Append(s, c) \in P
    <3>1. s \in Seq(Opcode) /\ Append(s, c) \in Seq(Opcode)
      OBVIOUS
    <3>2. QED
      BY <1>2, <3>1
  <2> HIDE DEF P
  <2>3. QED
    BY <2>1, <2>2, SeqSet
<1>4. QED
  BY <1>3 DEF V

\* Each opcode covers as many registers as its length.
LEMMA CoveredNext ==
    ASSUME NEW ops \in Seq(Opcode), NEW i \in 1 .. Len(ops)
    PROVE  /\ Covered(ops, i - 1) = Len(Walk(SubSeq(ops, 1, i - 1))) /\ Covered(ops, i - 1) \in Nat
           /\ Covered(ops, i) = Covered(ops, i - 1) + ops[i].len
<1> DEFINE a == SubSeq(ops, 1, i - 1)
           c == ops[i]
<1>1. a \in Seq(Opcode) /\ c \in Opcode /\ SubSeq(ops, 1, i) = Append(a, c)
  OBVIOUS
<1>2. i - 1 \in 0 .. Len(ops) /\ i \in 0 .. Len(ops)
  OBVIOUS
<1>3. Covered(ops, i - 1) = Len(Walk(a)) /\ Covered(ops, i) = Len(Walk(Append(a, c)))
  BY <1>1, <1>2, CoveredIs
<1> HIDE DEF a, c
<1>4. Walk(Append(a, c)) = Walk(a) \o Run(c)
  BY <1>1, WalkSnoc
<1>5. Walk(a) \in Seq(Nat) /\ Run(c) \in Seq(Nat) /\ Len(Run(c)) = c.len
  BY <1>1, WalkType, OpcodeType, Zenon
<1>6. Joined(Walk(a), Run(c))
  BY <1>5, Join, Zenon
<1>7. Len(Walk(a) \o Run(c)) = Len(Walk(a)) + c.len /\ Len(Walk(a)) \in Nat
  BY <1>5, <1>6 DEF Joined
<1>8. QED
  BY <1>3, <1>4, <1>7 DEF a, c

\* The loop of step 1 finds the opcode of a register that the code covers.
LEMMA CoverExists ==
    ASSUME NEW ops \in Seq(Opcode), NEW index \in Nat, index < Total(ops)
    PROVE  \E i \in DOMAIN ops : Covers(ops, i, index)
<1>1. SUFFICES ASSUME \A i \in DOMAIN ops : ~Covers(ops, i, index) PROVE FALSE
  OBVIOUS
<1> DEFINE S == {n \in 0 .. Len(ops) : Covered(ops, n) <= index}
<1>2. Len(ops) \in Nat /\ DOMAIN ops = 1 .. Len(ops)
  OBVIOUS
<1>3. 0 \in S
  <2>1. SubSeq(ops, 1, 0) = <<>>
    OBVIOUS
  <2>2. Covered(ops, 0) = Len(Walk(SubSeq(ops, 1, 0)))
    BY <1>2, CoveredIs
  <2>3. Covered(ops, 0) = 0
    <3>1. Len(<<>>) = 0
      OBVIOUS
    <3>2. QED
      BY <2>1, <2>2, <3>1, NoOpcodes
  <2>4. QED
    BY <1>2, <2>3
<1>4. ASSUME NEW n \in 0 .. (Len(ops) - 1), n \in S PROVE n + 1 \in S
  <2>1. n + 1 \in 1 .. Len(ops) /\ (n + 1) - 1 = n /\ n + 1 \in 0 .. Len(ops)
    BY <1>2
  <2>2. ~Covers(ops, n + 1, index)
    BY <1>1, <1>2, <2>1
  <2>3. Covered(ops, n) \in Nat /\ Covered(ops, n + 1) = Covered(ops, n) + ops[n + 1].len
    BY <2>1, CoveredNext
  <2>4. ops[n + 1].len \in Nat
    BY <2>1, OpcodeType
  <2>5. Covered(ops, n) <= index
    BY <1>4
  <2>6. Covered(ops, n + 1) <= index
    BY <2>1, <2>2, <2>3, <2>4, <2>5 DEF Covers
  <2>7. QED
    BY <2>1, <2>6
<1>5. Len(ops) \in S
  <2> HIDE DEF S
  <2>1. \A n \in 0 .. Len(ops) : n \in S
    BY <1>2, <1>3, <1>4, UpTo
  <2>2. QED
    BY <1>2, <2>1
<1>6. Total(ops) <= index /\ Total(ops) \in Nat
  BY <1>5, CoveredIs DEF Total
<1>7. QED
  BY <1>6

\* The code around the opcode of a register, and the register's value.
LEMMA AroundCover ==
    ASSUME NEW ops \in Seq(Opcode), NEW index \in Nat, NEW i \in DOMAIN ops, Covers(ops, i, index)
    PROVE  /\ i \in 1 .. Len(ops) /\ ops[i] \in Opcode
           /\ index - Covered(ops, i - 1) \in 0 .. (ops[i].len - 1)
           /\ Parts(ops, SubSeq(ops, 1, i - 1), <<ops[i]>>, SubSeq(ops, i + 1, Len(ops)))
           /\ Len(Walk(SubSeq(ops, 1, i - 1))) = Covered(ops, i - 1)
           /\ index + 1 \in 1 .. Len(Walk(ops))
           /\ Walk(ops)[index + 1] = ops[i].val
<1> DEFINE c == ops[i]
           a == SubSeq(ops, 1, i - 1)
           e == SubSeq(ops, i + 1, Len(ops))
           before == index - Covered(ops, i - 1)
<1>1. i \in 1 .. Len(ops) /\ i \in i .. Len(ops) /\ c \in Opcode /\ (i - i) + 1 = 1 /\ (i - 1) + 1 = i
  OBVIOUS
<1>2. c.len \in Nat \ {0} /\ Run(c) \in Seq(Nat) /\ Len(Run(c)) = c.len
  BY <1>1, OpcodeType
<1>3. /\ Covered(ops, i - 1) = Len(Walk(a)) /\ Covered(ops, i - 1) \in Nat
      /\ Covered(ops, i) = Covered(ops, i - 1) + c.len
  BY <1>1, CoveredNext
<1> HIDE DEF a, c, e
<1>4. before \in 0 .. (c.len - 1) /\ Covered(ops, i - 1) + before = index /\ before \in Nat
  BY <1>2, <1>3 DEF Covers
<1>5. <<c>> \in Seq(Opcode) /\ Walk(<<c>>) = Run(c)
  BY <1>1, OneOpcode
<1>6. Splice(ops, i, i, <<c>>) = ops
  <2>1. Len(<<c>>) = 1 /\ <<c>>[1] = c
    OBVIOUS
  <2>2. \A k \in 1 .. 1 : k = 1
    OBVIOUS
  <2>3. Len(<<c>>) = (i - i) + 1 /\ \A k \in 1 .. Len(<<c>>) : <<c>>[k] = ops[(i - 1) + k]
    BY <1>1, <2>1, <2>2 DEF c
  <2>4. QED
    BY <1>1, <1>5, <2>3, SpliceBack
<1>7. Parts(ops, a, <<c>>, e)
  <2>1. Parts(Splice(ops, i, i, <<c>>), a, <<c>>, e)
    BY <1>1, <1>5, SpliceWalk, Zenon DEF a, e
  <2>2. QED
    BY <1>6, <2>1
<1> DEFINE wa == Walk(a)
           we == Walk(e)
           w == Walk(ops)
           r == Run(c)
<1>8. wa \in Seq(Nat) /\ we \in Seq(Nat) /\ w = (wa \o r) \o we
  BY <1>5, <1>7, WalkType DEF Parts
<1> HIDE DEF wa, we, w, r
<1>9. r \in Seq(Nat) /\ Len(r) = c.len /\ Len(wa) = Covered(ops, i - 1)
  BY <1>2, <1>3 DEF r, wa
<1>10. wa \o r \in Seq(Nat) /\ Joined(wa, r)
  BY <1>8, <1>9, Join, Zenon
<1>11. Joined(wa \o r, we)
  BY <1>8, <1>10, Join, Zenon
<1>12. before + 1 \in 1 .. Len(r) /\ Len(wa) + (before + 1) = index + 1
  <2> DEFINE x == Covered(ops, i - 1)
             n == c.len
  <2>1. x \in Nat /\ n \in Nat /\ before \in 0 .. (n - 1) /\ x + before = index /\ before \in Nat
    BY <1>2, <1>3, <1>4
  <2>2. Len(r) = n /\ Len(wa) = x
    BY <1>9
  <2> HIDE DEF x, n, before
  <2>3. before + 1 \in 1 .. n /\ x + (before + 1) = index + 1
    BY <2>1
  <2>4. QED
    BY <2>2, <2>3
<1>13. (wa \o r)[index + 1] = r[before + 1]
  <2> HIDE DEF before
  <2>1. (wa \o r)[Len(wa) + (before + 1)] = r[before + 1]
    BY <1>10, <1>12 DEF Joined
  <2>2. QED
    BY <1>12, <2>1
<1>14. index + 1 \in 1 .. Len(wa \o r) /\ Len(wa \o r) <= Len(w)
  <2> DEFINE x == Len(wa)
             y == Len(r)
             z == Len(we)
             t == Len(wa \o r)
             u == Len((wa \o r) \o we)
  <2>1. t = x + y /\ u = t + z /\ x \in Nat /\ y \in Nat /\ z \in Nat
    BY <1>10, <1>11 DEF Joined
  <2>2. before + 1 \in 1 .. y /\ x + (before + 1) = index + 1
    BY <1>12
  <2>3. Len(w) = u
    BY <1>8
  <2> HIDE DEF x, y, z, t, u, before
  <2>4. index + 1 \in 1 .. t /\ t <= u
    BY <2>1, <2>2
  <2>5. QED
    BY <2>3, <2>4 DEF t
<1>15. w[index + 1] = (wa \o r)[index + 1]
  BY <1>8, <1>11, <1>14 DEF Joined
<1>16. r[before + 1] = c.val
  <2> HIDE DEF before
  <2>1. before + 1 \in 1 .. c.len
    BY <1>9, <1>12
  <2>2. QED
    BY <2>1 DEF r, Run
<1>17. index + 1 \in 1 .. Len(w)
  BY <1>14, <1>8, <1>10, WalkType DEF w
<1>18. w[index + 1] = c.val
  BY <1>13, <1>15, <1>16
<1>19. QED
  BY <1>1, <1>3, <1>4, <1>7, <1>17, <1>18 DEF a, c, e, w

\* An edit touches at most four pairs of opcodes, and two zero runs stay apart.
LEMMA EditClean ==
    ASSUME NEW ops \in Seq(Opcode), Alternate(ops), NoneMergeable(ops), NEW i \in 1 .. Len(ops),
           NEW seq \in Seq(Opcode), Len(seq) \in 1 .. 3, Alternate(seq),
           ops[i].op = "VAL" => AllVal(seq)
    PROVE  /\ Alternate(Splice(ops, i, i, seq))
           /\ Clean(Splice(ops, i, i, seq), IF i > 1 THEN i - 1 ELSE 1, 4)
<1> DEFINE new == Splice(ops, i, i, seq)
           n == Len(ops)
           m == Len(seq)
           p == IF i > 1 THEN i - 1 ELSE 1
<1>1. i \in i .. n
  OBVIOUS
<1>2. new \in Seq(Opcode) /\ Spliced(new, ops, i, i, seq)
  BY <1>1, SpliceElements
<1> HIDE DEF new
<1>3. n \in Nat /\ m \in 1 .. 3 /\ i \in Nat /\ i >= 1 /\ i <= n /\ (i - i) + 1 = 1
  OBVIOUS
<1>4. Len(new) = (n - 1) + m
  BY <1>2, <1>3 DEF Spliced
<1>5. \A k \in 1 .. (i - 1) : new[k] = ops[k]
  BY <1>2 DEF Spliced
<1>6. \A k \in 1 .. m : new[(i - 1) + k] = seq[k]
  BY <1>2 DEF Spliced
<1>7. \A k \in (i + 1) .. n : new[((i - 1) + m) + (k - i)] = ops[k]
  BY <1>2 DEF Spliced
<1> HIDE DEF n, m
<1>8. ASSUME NEW j \in Int, i <= j, j <= (i - 1) + m
      PROVE  j - (i - 1) \in 1 .. m /\ new[j] = seq[j - (i - 1)]
  <2>1. j - (i - 1) \in 1 .. m /\ (i - 1) + (j - (i - 1)) = j
    BY <1>3, <1>8
  <2>2. QED
    BY <1>6, <2>1
<1>9. ASSUME NEW j \in Int, i + m <= j, j <= (n - 1) + m
      PROVE  (j - m) + 1 \in (i + 1) .. n /\ new[j] = ops[(j - m) + 1]
  <2>1. (j - m) + 1 \in (i + 1) .. n /\ ((i - 1) + m) + (((j - m) + 1) - i) = j
    BY <1>3, <1>9
  <2>2. new[((i - 1) + m) + (((j - m) + 1) - i)] = ops[(j - m) + 1]
    BY <1>7, <2>1
  <2>3. QED
    BY <2>1, <2>2
<1>10. ASSUME NEW j \in Nat \ {0}, j < p \/ j >= p + 4, Mergeable(new, j)
       PROVE  FALSE
  <2>1. j < (n - 1) + m
    BY <1>4, <1>10 DEF Mergeable
  <2>2. /\ new[j].op = "VAL" /\ new[j + 1].op = "VAL" /\ new[j].val = new[j + 1].val
        /\ new[j].len + new[j + 1].len <= HLL_SPARSE_VAL_MAX_LEN
    BY <1>10 DEF Mergeable
  <2>3. j + 1 < i \/ j >= i + m
    <3>1. CASE i > 1
      <4>1. p = i - 1
        BY <3>1
      <4> HIDE DEF p
      <4>2. QED
        BY <1>3, <1>10, <4>1
    <3>2. CASE i = 1
      <4>1. p = 1
        BY <3>2
      <4> HIDE DEF p
      <4>2. QED
        BY <1>3, <1>10, <3>2, <4>1
    <3>3. QED
      BY <3>1, <3>2
  <2> HIDE DEF p
  <2>4. CASE j + 1 < i
    <3>1. j \in 1 .. (i - 1) /\ j + 1 \in 1 .. (i - 1) /\ j < n
      BY <1>3, <2>4
    <3>2. new[j] = ops[j] /\ new[j + 1] = ops[j + 1]
      BY <1>5, <3>1
    <3>3. Mergeable(ops, j)
      BY <2>2, <3>1, <3>2 DEF Mergeable, n
    <3>4. QED
      BY <3>3 DEF NoneMergeable
  <2>5. CASE j >= i + m
    <3> DEFINE k == (j - m) + 1
    <3>1. /\ j \in Int /\ j + 1 \in Int /\ i + m <= j /\ i + m <= j + 1
          /\ j <= (n - 1) + m /\ j + 1 <= (n - 1) + m
          /\ k \in Nat \ {0} /\ k < n /\ ((j + 1) - m) + 1 = k + 1
      BY <1>3, <2>1, <2>5
    <3>2. new[j] = ops[(j - m) + 1]
      BY <1>9, <3>1
    <3>3. new[j + 1] = ops[((j + 1) - m) + 1]
      BY <1>9, <3>1
    <3>4. new[j] = ops[k] /\ new[j + 1] = ops[k + 1]
      BY <3>1, <3>2, <3>3
    <3> HIDE DEF k
    <3>5. Mergeable(ops, k)
      BY <2>2, <3>1, <3>4 DEF Mergeable, n
    <3>6. QED
      BY <3>1, <3>5 DEF NoneMergeable
  <2>6. QED
    BY <2>3, <2>4, <2>5, Zenon
<1>11. Clean(new, p, 4)
  BY <1>10 DEF Clean
<1>12. ASSUME NEW j \in 1 .. (Len(new) - 1)
       PROVE  new[j].op = "VAL" \/ new[j + 1].op = "VAL"
  <2>1. j \in Int /\ j >= 1 /\ j + 1 <= (n - 1) + m /\ j + 1 \in Int
    BY <1>3, <1>4
  <2>2. CASE j + 1 < i
    <3>1. j \in 1 .. (i - 1) /\ j + 1 \in 1 .. (i - 1) /\ j \in 1 .. (n - 1)
      BY <1>3, <2>1, <2>2
    <3>2. new[j] = ops[j] /\ new[j + 1] = ops[j + 1]
      BY <1>5, <3>1
    <3>3. QED
      BY <3>1, <3>2 DEF Alternate, n
  <2>3. CASE j + 1 = i
    <3>1. j \in 1 .. (i - 1) /\ j \in 1 .. (n - 1) /\ 1 \in 1 .. m /\ (i - 1) + 1 = j + 1
      BY <1>3, <2>1, <2>3
    <3>2. new[j] = ops[j] /\ new[j + 1] = seq[1]
      BY <1>5, <1>6, <3>1
    <3>3. ops[j].op = "VAL" \/ ops[i].op = "VAL"
      BY <2>3, <3>1 DEF Alternate, n
    <3>4. ops[i].op = "VAL" => seq[1].op = "VAL"
      BY <3>1 DEF AllVal, m
    <3>5. QED
      BY <3>2, <3>3, <3>4
  <2>4. CASE i <= j /\ j + 1 <= (i - 1) + m
    <3> DEFINE k == j - (i - 1)
    <3>1. j <= (i - 1) + m /\ i <= j + 1 /\ k \in 1 .. (m - 1) /\ (j + 1) - (i - 1) = k + 1
      BY <1>3, <2>1, <2>4
    <3>2. new[j] = seq[k]
      BY <1>8, <2>1, <2>4, <3>1
    <3>3. new[j + 1] = seq[(j + 1) - (i - 1)]
      BY <1>8, <2>1, <2>4, <3>1
    <3>4. new[j + 1] = seq[k + 1]
      BY <3>1, <3>3
    <3> HIDE DEF k
    <3>5. QED
      BY <3>1, <3>2, <3>4 DEF Alternate, m
  <2>5. CASE j = (i - 1) + m
    <3>1. /\ i <= j /\ j <= (i - 1) + m /\ j - (i - 1) = m /\ m \in 1 .. m
          /\ i + m <= j + 1 /\ ((j + 1) - m) + 1 = i + 1 /\ i \in 1 .. (n - 1)
      BY <1>3, <2>1, <2>5
    <3>2. new[j] = seq[j - (i - 1)]
      BY <1>8, <2>1, <3>1
    <3>3. new[j + 1] = ops[((j + 1) - m) + 1]
      BY <1>9, <2>1, <3>1
    <3>4. new[j] = seq[m] /\ new[j + 1] = ops[i + 1]
      BY <3>1, <3>2, <3>3
    <3>5. ops[i].op = "VAL" \/ ops[i + 1].op = "VAL"
      BY <3>1 DEF Alternate, n
    <3>6. ops[i].op = "VAL" => seq[m].op = "VAL"
      BY <3>1 DEF AllVal, m
    <3>7. QED
      BY <3>4, <3>5, <3>6
  <2>6. CASE j >= i + m
    <3> DEFINE k == (j - m) + 1
    <3>1. /\ i + m <= j /\ i + m <= j + 1 /\ j <= (n - 1) + m
          /\ k \in 1 .. (n - 1) /\ ((j + 1) - m) + 1 = k + 1
      BY <1>3, <2>1, <2>6
    <3>2. new[j] = ops[k]
      BY <1>9, <2>1, <3>1
    <3>3. new[j + 1] = ops[((j + 1) - m) + 1]
      BY <1>9, <2>1, <3>1
    <3>4. new[j + 1] = ops[k + 1]
      BY <3>1, <3>3
    <3> HIDE DEF k
    <3>5. QED
      BY <3>1, <3>2, <3>4 DEF Alternate, n
  <2>7. \/ j + 1 < i \/ j + 1 = i \/ (i <= j /\ j + 1 <= (i - 1) + m)
        \/ j = (i - 1) + m \/ j >= i + m
    BY <1>3, <2>1
  <2>8. QED
    BY <2>2, <2>3, <2>4, <2>5, <2>6, <2>7, Zenon
<1>13. Alternate(new)
  BY <1>12 DEF Alternate
<1>14. QED
  BY <1>11, <1>13 DEF new

\* The edited code: the register is set and no other, it stays tight, and it grows by
\* three bytes at most.
LEMMA EditIs ==
    ASSUME NEW ops \in Seq(Opcode), Alternate(ops), NoneMergeable(ops), NEW index \in Nat,
           NEW i \in DOMAIN ops, Covers(ops, i, index), NEW count \in 1 .. HLL_SPARSE_VAL_MAX_VALUE
    PROVE  LET seq == Split(ops[i], index - Covered(ops, i - 1), count)
               mid == Splice(ops, i, i, seq)
               new == MergeVals(mid, i)
           IN  /\ sdslen(mid) \in Nat /\ sdslen(mid) <= sdslen(ops) + 3
               /\ new \in Seq(Opcode) /\ sdslen(new) <= sdslen(mid)
               /\ Alternate(new) /\ NoneMergeable(new)
               /\ Sets(Walk(new), Walk(ops), index, count)
<1> DEFINE c == ops[i]
           before == index - Covered(ops, i - 1)
           seq == Split(c, before, count)
           mid == Splice(ops, i, i, seq)
           new == MergeVals(mid, i)
           a == SubSeq(ops, 1, i - 1)
           e == SubSeq(ops, i + 1, Len(ops))
<1>1. /\ i \in 1 .. Len(ops) /\ c \in Opcode /\ before \in 0 .. (c.len - 1)
      /\ Parts(ops, a, <<c>>, e) /\ Len(Walk(a)) = Covered(ops, i - 1)
  BY AroundCover
<1>2. i \in i .. Len(ops) /\ i \in Nat \ {0}
  BY <1>1
<1>3. Len(Walk(a)) + before = index /\ before \in Nat /\ Len(Walk(a)) \in Nat
  BY <1>1, <1>2, CoveredNext, OpcodeType
<1> HIDE DEF c, before, a, e
<1>4. /\ seq \in Seq(Opcode) /\ Len(seq) \in 1 .. 3
      /\ Sets(Walk(seq), Run(c), before, count)
      /\ sdslen(seq) <= HLL_HDR_SIZE + Bytes(c) + 3
      /\ Alternate(seq) /\ (c.op = "VAL" => AllVal(seq))
  BY <1>1, SplitIs
<1> HIDE DEF seq
<1>5. Parts(mid, a, seq, e)
  BY <1>1, <1>2, <1>4, SpliceWalk, Zenon DEF a, e
<1>6. Alternate(mid) /\ Clean(mid, IF i > 1 THEN i - 1 ELSE 1, 4)
  BY <1>1, <1>4, EditClean DEF c
<1> HIDE DEF mid
<1>7. mid \in Seq(Opcode)
  BY <1>5 DEF Parts
<1>8. /\ new \in Seq(Opcode) /\ Walk(new) = Walk(mid) /\ sdslen(new) <= sdslen(mid)
      /\ Alternate(new) /\ NoneMergeable(new)
  BY <1>2, <1>6, <1>7, MergeValsIs
<1> HIDE DEF new
<1>9. sdslen(mid) \in Nat /\ sdslen(mid) <= sdslen(ops) + 3
  <2>1. a \in Seq(Opcode) /\ e \in Seq(Opcode)
    BY <1>5 DEF Parts
  <2> DEFINE x == sdslen(a)
             y == sdslen(e)
             s == sdslen(seq)
             o == sdslen(<<c>>)
             m == sdslen(mid)
             n == sdslen(ops)
             b == Bytes(c)
  <2>2. x \in Nat /\ y \in Nat /\ s \in Nat /\ m \in Nat /\ HLL_HDR_SIZE \in Nat
    BY <1>4, <1>7, <2>1, WalkType, HllAssumption
  <2>3. b \in Nat /\ o = HLL_HDR_SIZE + b
    BY <1>1, OneOpcode, OpcodeType
  <2>4. m = ((x + s) + y) - 2 * HLL_HDR_SIZE /\ n = ((x + o) + y) - 2 * HLL_HDR_SIZE
    BY <1>1, <1>5 DEF Parts
  <2>5. s <= HLL_HDR_SIZE + b + 3
    BY <1>4
  <2> HIDE DEF x, y, s, o, m, n, b
  <2>6. m <= n + 3
    BY <2>2, <2>3, <2>4, <2>5
  <2>7. QED
    BY <2>2, <2>6 DEF m, n
<1>10. Sets(Walk(new), Walk(ops), index, count)
  <2> DEFINE x == Walk(a)
             y == Walk(e)
             s == Walk(seq)
             r == Run(c)
  <2>1. x \in Seq(Nat) /\ y \in Seq(Nat) /\ s \in Seq(Nat) /\ r \in Seq(Nat)
    BY <1>1, <1>4, <1>5, WalkType, OpcodeType DEF Parts
  <2>2. Walk(<<c>>) = r
    BY <1>1, OneOpcode
  <2>3. Walk(new) = (x \o s) \o y /\ Walk(ops) = (x \o r) \o y
    BY <1>1, <1>5, <1>8, <2>2 DEF Parts
  <2>4. Sets(s, r, before, count) /\ count \in Nat
    BY <1>4
  <2>5. Len(x) + before = index
    BY <1>3
  <2> HIDE DEF x, y, s, r
  <2>6. Sets((x \o s) \o y, (x \o r) \o y, Len(x) + before, count)
    BY <1>3, <2>1, <2>4, SetsInside
  <2>7. QED
    BY <2>3, <2>5, <2>6
<1>11. QED
  BY <1>8, <1>9, <1>10 DEF new, mid, seq, c, before

-----------------------------------------------------------------------------
(* Strings, and hllSet on them. *)

Cards == {Invalid} \cup [Count -> 0 .. HLL_REGISTERS]
SparseStr == [encoding : {"sparse"}, ops : Seq(Opcode), alloc : Nat, card : Cards]
DenseStr == [encoding : {"dense"}, registers : [Index -> Count], card : Cards]

\* The sparse code is within its limits, has nothing to merge and no register too many.
Tight(o) ==
    /\ sdslen(o.ops) <= hll_sparse_max_bytes /\ sdslen(o.ops) <= o.alloc
    /\ Alternate(o.ops) /\ NoneMergeable(o.ops)
    /\ Total(o.ops) <= HLL_REGISTERS

Good(o) == o \in DenseStr \/ (o \in SparseStr /\ Tight(o))

\* The fields of a string, and what a change of one leaves.
LEMMA SparseFields ==
    ASSUME NEW o \in SparseStr
    PROVE  /\ o.encoding = "sparse" /\ o.ops \in Seq(Opcode) /\ o.alloc \in Nat /\ o.card \in Cards
           /\ Valid(o) <=> Len(Walk(o.ops)) = HLL_REGISTERS
           /\ Registers(o) = Decode(o.ops)
<1>1. o.encoding = "sparse" /\ o.ops \in Seq(Opcode) /\ o.alloc \in Nat /\ o.card \in Cards
  BY DEF SparseStr
<1>2. Total(o.ops) = Len(Walk(o.ops))
  BY <1>1, CoveredIs
<1>3. QED
  BY <1>1, <1>2 DEF Valid, Registers

\* The fields of a dense string.
LEMMA DenseFields ==
    ASSUME NEW o \in DenseStr
    PROVE  /\ o.encoding = "dense" /\ o.registers \in [Index -> Count] /\ o.card \in Cards
           /\ Valid(o) /\ Registers(o) = o.registers
BY DEF DenseStr, Valid, Registers

\* The registers a code decodes to.
LEMMA DecodeIs ==
    ASSUME NEW ops \in Seq(Opcode), Len(Walk(ops)) = HLL_REGISTERS
    PROVE  /\ Decode(ops) \in [Index -> Count]
           /\ \A k \in Index : /\ k + 1 \in 1 .. Len(Walk(ops))
                               /\ Decode(ops)[k] = Walk(ops)[k + 1]
                               /\ Decode(ops)[k] <= HLL_SPARSE_VAL_MAX_VALUE
<1> DEFINE w == Walk(ops)
<1>1. w \in Seq(0 .. HLL_SPARSE_VAL_MAX_VALUE)
  BY WalkValues
<1>2. Decode(ops) = [k \in Index |-> w[k + 1]]
  BY DEF Decode, FromZero
<1> HIDE DEF w
<1>3. ASSUME NEW k \in Index
      PROVE  /\ k + 1 \in 1 .. Len(w) /\ w[k + 1] \in Count
             /\ w[k + 1] <= HLL_SPARSE_VAL_MAX_VALUE
  <2>1. k + 1 \in 1 .. Len(w)
    BY HllAssumption DEF Index, w
  <2>2. w[k + 1] \in 0 .. HLL_SPARSE_VAL_MAX_VALUE
    BY <1>1, <2>1, ElementOfSeq, Zenon
  <2>3. QED
    BY <2>1, <2>2, HllAssumption DEF Count
<1>4. QED
  BY <1>2, <1>3 DEF w

\* The registers of a valid string are in range.
LEMMA RegistersType ==
    ASSUME NEW o, Good(o), Valid(o)
    PROVE  Registers(o) \in [Index -> Count]
<1>1. CASE o \in DenseStr
  BY <1>1, DenseFields
<1>2. CASE o \in SparseStr
  BY <1>2, SparseFields, DecodeIs
<1>3. QED
  BY <1>1, <1>2 DEF Good

\* Values are numbers.
LEMMA CountType ==
    ASSUME NEW count \in 1 .. (HLL_Q + 1)
    PROVE  count \in Count /\ count \in Nat /\ \A v \in Count : v \in Nat
BY HllAssumption DEF Count

\* One register is raised to count, if it was smaller.
Lifted(new, old, index, count) ==
    /\ new \in [Index -> Count]
    /\ new[index] = IF count > old[index] THEN count ELSE old[index]
    /\ \A k \in Index : k # index => new[k] = old[k]

\* What hllSet makes of a string: r is the string afterwards and what is returned.
HasSet(r, o, index, count) ==
    /\ Good(r.o) /\ (Valid(r.o) <=> Valid(o))
    /\ r.ret \in {0, 1, ERR} /\ (r.ret = ERR => ~Valid(o))
    /\ r.ret # 1 => r.o.card = o.card
    /\ Valid(o) => /\ Lifted(Registers(r.o), Registers(o), index, count)
                   /\ r.ret = 1 <=> count > Registers(o)[index]

\* hllDenseSet raises one register.
LEMMA DenseSetIs ==
    ASSUME NEW o \in DenseStr, NEW index \in Index, NEW count \in 1 .. (HLL_Q + 1)
    PROVE  /\ HasSet(hllDenseSet(o, index, count), o, index, count)
           /\ hllDenseSet(o, index, count).o \in DenseStr
           /\ (count > o.registers[index]) => hllDenseSet(o, index, count).ret = 1
<1> DEFINE r == hllDenseSet(o, index, count)
           reg == o.registers
<1>1. /\ o.encoding = "dense" /\ reg \in [Index -> Count] /\ o.card \in Cards
      /\ Valid(o) /\ Registers(o) = reg
  BY DenseFields
<1>2. count \in Count
  BY CountType
<1>3. CASE count > reg[index]
  <2> DEFINE new == [o EXCEPT !.registers[index] = count]
             up == [reg EXCEPT ![index] = count]
  <2>1. new \in DenseStr /\ new.registers = up /\ new.card = o.card
    BY <1>1, <1>2 DEF DenseStr
  <2>2. r.o = new /\ r.ret = 1
    BY <1>3 DEF hllDenseSet, Result
  <2>3. up \in [Index -> Count] /\ up[index] = count /\ \A k \in Index : k # index => up[k] = reg[k]
    BY <1>1, <1>2
  <2> HIDE DEF new, up
  <2>4. Valid(new) /\ Registers(new) = up
    BY <2>1, DenseFields
  <2>5. Lifted(up, reg, index, count)
    BY <1>3, <2>3 DEF Lifted
  <2> HIDE DEF r, reg
  <2>6. HasSet(r, o, index, count)
    BY <1>1, <1>3, <2>1, <2>2, <2>4, <2>5 DEF HasSet, Good, ERR
  <2>7. QED
    BY <2>1, <2>2, <2>6 DEF r
<1>4. CASE ~(count > reg[index])
  <2>1. r.o = o /\ r.ret = 0
    BY <1>4 DEF hllDenseSet, Result
  <2>2. Lifted(reg, reg, index, count)
    BY <1>1, <1>4 DEF Lifted
  <2> HIDE DEF r, reg
  <2>3. HasSet(r, o, index, count)
    BY <1>1, <1>4, <2>1, <2>2 DEF HasSet, Good, ERR
  <2>4. QED
    BY <1>4, <2>1, <2>3 DEF r, reg
<1>5. QED
  BY <1>3, <1>4

\* A promoted string has the registers of the code, and the assertion holds.
LEMMA PromoteIs ==
    ASSUME NEW o \in SparseStr, Tight(o), NEW index \in Index, NEW count \in 1 .. (HLL_Q + 1),
           Valid(o) => count > Registers(o)[index]
    PROVE  HasSet(Promote(o, index, count), o, index, count)
<1> DEFINE d == hllSparseToDense(o)
           r == Promote(o, index, count)
           s == hllDenseSet(d, index, count)
<1>1. /\ o.encoding = "sparse" /\ o.ops \in Seq(Opcode) /\ o.card \in Cards
      /\ Valid(o) <=> Len(Walk(o.ops)) = HLL_REGISTERS
      /\ Registers(o) = Decode(o.ops)
  BY SparseFields
<1>2. CASE ~Valid(o)
  <2>1. r.o = o /\ r.ret = ERR
    BY <1>2 DEF Promote, Result
  <2> HIDE DEF r
  <2>2. HasSet(r, o, index, count)
    BY <1>2, <2>1 DEF HasSet, Good, ERR
  <2>3. QED
    BY <2>2 DEF r
<1>3. CASE Valid(o)
  <2>1. Decode(o.ops) \in [Index -> Count]
    BY <1>1, <1>3, DecodeIs
  <2>2. d \in DenseStr /\ d.registers = Decode(o.ops) /\ d.card = o.card
    BY <1>1, <2>1 DEF hllSparseToDense, Dense, DenseStr
  <2> HIDE DEF d
  <2>3. Valid(d) /\ Registers(d) = Registers(o)
    BY <1>1, <2>2, DenseFields
  <2>4. HasSet(s, d, index, count) /\ s.ret = 1
    BY <1>1, <1>3, <2>2, DenseSetIs
  <2>5. r = s
    BY <1>3, <2>4 DEF Promote, Promoted, d
  <2> HIDE DEF r, s
  <2>6. HasSet(r, o, index, count)
    BY <1>3, <2>2, <2>3, <2>4, <2>5 DEF HasSet
  <2>7. QED
    BY <2>6 DEF r
<1>4. QED
  BY <1>2, <1>3

\* Changes of the fields of a sparse string.
LEMMA SparseExcept ==
    ASSUME NEW o \in SparseStr
    PROVE  /\ \A n \in Nat : LET t == [o EXCEPT !.alloc = n] IN
                t \in SparseStr /\ t.ops = o.ops /\ t.alloc = n /\ t.card = o.card
           /\ \A ops \in Seq(Opcode) : LET t == InvalidateCache([o EXCEPT !.ops = ops]) IN
                t \in SparseStr /\ t.ops = ops /\ t.alloc = o.alloc /\ t.card = Invalid
<1>1. ASSUME NEW n \in Nat
      PROVE  LET t == [o EXCEPT !.alloc = n] IN
                t \in SparseStr /\ t.ops = o.ops /\ t.alloc = n /\ t.card = o.card
  BY DEF SparseStr
<1>2. ASSUME NEW ops \in Seq(Opcode)
      PROVE  LET t == InvalidateCache([o EXCEPT !.ops = ops]) IN
                t \in SparseStr /\ t.ops = ops /\ t.alloc = o.alloc /\ t.card = Invalid
  <2>1. Invalid \in Cards
    BY DEF Cards
  <2>2. QED
    BY <2>1 DEF SparseStr, InvalidateCache
<1>3. QED
  BY <1>1, <1>2

\* Room for three more bytes, or all that a sparse string may have.
Roomy(o) == o.alloc >= hll_sparse_max_bytes \/ sdslen(o.ops) + 3 <= o.alloc

\* Step 1 makes room and changes nothing else.
LEMMA MakeRoomIs ==
    ASSUME NEW o \in SparseStr, Tight(o)
    PROVE  LET t == MakeRoom(o) IN
           /\ t \in SparseStr /\ Tight(t) /\ Roomy(t)
           /\ t.ops = o.ops /\ t.card = o.card
<1> DEFINE n == sdslen(o.ops)
           g == GreedyLen(n)
           t == MakeRoom(o)
           max == hll_sparse_max_bytes
<1>1. o.ops \in Seq(Opcode) /\ o.alloc \in Nat /\ n <= max /\ n <= o.alloc
  BY SparseFields DEF Tight
<1>2. n \in Nat /\ max \in Nat
  BY <1>1, WalkType, HllAssumption
<1> HIDE DEF n, max
<1>3. g \in Nat /\ n <= g /\ (g >= max \/ n + 3 <= g)
  BY <1>1, <1>2 DEF GreedyLen, max
<1>4. CASE o.alloc < max /\ o.alloc - n < 3
  <2>1. t = [o EXCEPT !.alloc = g]
    BY <1>4 DEF MakeRoom, max, n
  <2> HIDE DEF g
  <2>2. t \in SparseStr /\ t.ops = o.ops /\ t.alloc = g /\ t.card = o.card
    BY <1>3, <2>1, SparseExcept
  <2> HIDE DEF t
  <2>3. Tight(t) /\ Roomy(t)
    BY <1>1, <1>3, <2>2 DEF Tight, Roomy, n, max
  <2>4. QED
    BY <2>2, <2>3 DEF t
<1>5. CASE ~(o.alloc < max /\ o.alloc - n < 3)
  <2>1. t = o
    BY <1>5 DEF MakeRoom, max, n
  <2>2. o.alloc >= max \/ n + 3 <= o.alloc
    BY <1>1, <1>2, <1>5
  <2>3. Roomy(o)
    BY <2>2 DEF Roomy, n, max
  <2> HIDE DEF t
  <2>4. QED
    BY <2>1, <2>3 DEF t
<1>6. QED
  BY <1>4, <1>5

\* Steps 2 to 4 on a string with room: neither assertion of hllSparseSet fails.
LEMMA EditAtIs ==
    ASSUME NEW o \in SparseStr, Tight(o), Roomy(o), NEW index \in Index,
           NEW count \in 1 .. HLL_SPARSE_VAL_MAX_VALUE, NEW i \in DOMAIN o.ops, Covers(o.ops, i, index)
    PROVE  HasSet(EditAt(o, i, index, count), o, index, count)
<1> DEFINE ops == o.ops
           c == ops[i]
           seq == Split(c, index - Covered(ops, i - 1), count)
           mid == Splice(ops, i, i, seq)
           new == MergeVals(mid, i)
           r == EditAt(o, i, index, count)
           max == hll_sparse_max_bytes
<1>1. /\ o.encoding = "sparse" /\ ops \in Seq(Opcode) /\ o.alloc \in Nat /\ o.card \in Cards
      /\ Valid(o) <=> Len(Walk(ops)) = HLL_REGISTERS
      /\ Registers(o) = Decode(ops)
  BY SparseFields
<1>2. index \in Nat /\ count \in 1 .. (HLL_Q + 1) /\ count \in Nat /\ count \in Count
  BY HllAssumption DEF Index, Count
<1>3. c \in Opcode /\ index + 1 \in 1 .. Len(Walk(ops)) /\ Walk(ops)[index + 1] = c.val
  BY <1>1, <1>2, AroundCover
<1>4. c.val \in Nat
  BY <1>3, OpcodeType
<1>5. Valid(o) => Registers(o) \in [Index -> Count] /\ Registers(o)[index] = c.val
  BY <1>1, <1>3, DecodeIs
<1>6. CASE c.val >= count
  <2>1. r.o = o /\ r.ret = 0
    BY <1>6 DEF EditAt, Result
  <2>2. ~(count > c.val)
    BY <1>2, <1>4, <1>6
  <2>3. Valid(o) => Lifted(Registers(o), Registers(o), index, count)
    BY <1>5, <2>2 DEF Lifted
  <2> HIDE DEF r
  <2>4. HasSet(r, o, index, count)
    BY <1>5, <2>1, <2>2, <2>3 DEF HasSet, Good, ERR
  <2>5. QED
    BY <2>4 DEF r
<1>7. CASE ~(c.val >= count)
  <2>1. count > c.val
    BY <1>2, <1>4, <1>7
  <2>2. r = Replace(o, i, seq, index, count)
    BY <1>7 DEF EditAt
  <2>3. Alternate(ops) /\ NoneMergeable(ops)
    BY DEF Tight
  <2>4. /\ sdslen(mid) \in Nat /\ sdslen(mid) <= sdslen(ops) + 3
        /\ new \in Seq(Opcode) /\ sdslen(new) <= sdslen(mid)
        /\ Alternate(new) /\ NoneMergeable(new)
        /\ Sets(Walk(new), Walk(ops), index, count)
    BY <1>1, <1>2, <2>3, EditIs
  <2> DEFINE n == sdslen(ops)
             m == sdslen(mid)
             t == InvalidateCache([o EXCEPT !.ops = new])
  <2>5. r = IF m > n /\ m > max THEN Promote(o, index, count)
            ELSE IF m > o.alloc THEN Result(o, ABORT)
            ELSE Result(t, 1)
    BY <2>2 DEF Replace, Splice
  <2>6. n \in Nat /\ m \in Nat /\ max \in Nat /\ n <= max /\ n <= o.alloc /\ m <= n + 3
    BY <1>1, <2>4, WalkType, HllAssumption DEF Tight
  <2>7. o.alloc >= max \/ n + 3 <= o.alloc
    BY DEF Roomy
  <2> HIDE DEF n, m, seq, mid, new, max, r, ops, c, t
  <2>8. CASE m > n /\ m > max
    <3>1. r = Promote(o, index, count)
      BY <2>5, <2>8
    <3>2. Valid(o) => count > Registers(o)[index]
      BY <1>5, <2>1
    <3>3. HasSet(Promote(o, index, count), o, index, count)
      BY <1>2, <3>2, PromoteIs
    <3>4. QED
      BY <3>1, <3>3 DEF r
  <2>9. CASE ~(m > n /\ m > max)
    <3>1. m <= o.alloc /\ m <= max /\ ~(m > o.alloc)
      BY <1>1, <2>6, <2>7, <2>9
    <3>2. r = Result(t, 1)
      BY <2>5, <2>9, <3>1
    <3>3. r.o = t /\ r.ret = 1
      BY <3>2 DEF Result
    <3>4. t \in SparseStr /\ t.ops = new /\ t.alloc = o.alloc
      BY <2>4, SparseExcept DEF t, ops
    <3>5. Len(Walk(new)) = Len(Walk(ops))
      BY <2>4 DEF Sets
    <3>6. /\ Valid(t) <=> Len(Walk(new)) = HLL_REGISTERS
          /\ Registers(t) = Decode(new)
      BY <3>4, SparseFields
    <3>7. Total(new) <= HLL_REGISTERS
      <4>1. Total(new) = Len(Walk(new)) /\ Total(ops) = Len(Walk(ops))
        BY <1>1, <2>4, CoveredIs
      <4>2. QED
        BY <3>5, <4>1 DEF Tight, ops
    <3>8. sdslen(new) <= max /\ sdslen(new) <= t.alloc
      <4> DEFINE k == sdslen(new)
      <4>1. k \in Nat /\ k <= m
        BY <2>4, WalkType DEF m
      <4> HIDE DEF k
      <4>2. k <= max /\ k <= o.alloc
        BY <1>1, <2>6, <3>1, <4>1
      <4>3. QED
        BY <3>4, <4>2 DEF k
    <3>9. Tight(t)
      BY <2>4, <3>4, <3>7, <3>8 DEF Tight, max
    <3>10. ASSUME Valid(o)
           PROVE  Lifted(Registers(t), Registers(o), index, count)
      <4>1. Len(Walk(ops)) = HLL_REGISTERS /\ Len(Walk(new)) = HLL_REGISTERS
        BY <1>1, <3>5, <3>10
      <4>2. /\ Decode(ops) \in [Index -> Count]
            /\ \A k \in Index : k + 1 \in 1 .. Len(Walk(ops)) /\ Decode(ops)[k] = Walk(ops)[k + 1]
        BY <1>1, <4>1, DecodeIs
      <4>3. /\ Decode(new) \in [Index -> Count]
            /\ \A k \in Index : Decode(new)[k] = Walk(new)[k + 1]
        BY <2>4, <4>1, DecodeIs
      <4>4. Decode(new)[index] = count
        BY <2>4, <4>3 DEF Sets
      <4>5. ASSUME NEW k \in Index, k # index PROVE Decode(new)[k] = Decode(ops)[k]
        <5>1. k + 1 # index + 1 /\ k + 1 \in 1 .. Len(Walk(ops))
          BY <1>2, <4>2, <4>5, HllAssumption DEF Index
        <5>2. Walk(new)[k + 1] = Walk(ops)[k + 1]
          BY <2>4, <5>1 DEF Sets
        <5>3. Decode(new)[k] = Walk(new)[k + 1] /\ Decode(ops)[k] = Walk(ops)[k + 1]
          BY <4>2, <4>3, <4>5
        <5>4. QED
          BY <5>2, <5>3
      <4>6. Decode(ops)[index] = c.val
        BY <1>1, <1>5, <3>10
      <4>7. QED
        BY <1>1, <2>1, <3>6, <4>3, <4>4, <4>5, <4>6 DEF Lifted
    <3>11. Valid(o) => count > Registers(o)[index]
      BY <1>5, <2>1
    <3>12. Valid(t) <=> Valid(o)
      BY <1>1, <3>5, <3>6
    <3>13. HasSet(r, o, index, count)
      BY <3>3, <3>4, <3>9, <3>10, <3>11, <3>12 DEF HasSet, Good, ERR
    <3>14. QED
      BY <3>13 DEF r
  <2>10. QED
    BY <2>8, <2>9
<1>8. QED
  BY <1>6, <1>7

\* hllSparseSet as a whole.
LEMMA SparseSetIs ==
    ASSUME NEW o \in SparseStr, Tight(o), NEW index \in Index, NEW count \in 1 .. (HLL_Q + 1)
    PROVE  HasSet(hllSparseSet(o, index, count), o, index, count)
<1> DEFINE r == hllSparseSet(o, index, count)
           t == MakeRoom(o)
           i == CHOOSE i \in DOMAIN o.ops : Covers(o.ops, i, index)
<1>1. /\ o.encoding = "sparse" /\ o.ops \in Seq(Opcode)
      /\ Valid(o) <=> Len(Walk(o.ops)) = HLL_REGISTERS
      /\ Registers(o) = Decode(o.ops)
  BY SparseFields
<1>2. index \in Nat /\ index < HLL_REGISTERS /\ count \in Nat
  BY HllAssumption DEF Index
<1>3. CASE count > HLL_SPARSE_VAL_MAX_VALUE
  <2>1. r = Promote(o, index, count)
    BY <1>3 DEF hllSparseSet
  <2>2. ASSUME Valid(o) PROVE count > Registers(o)[index]
    <3>1. Decode(o.ops)[index] <= HLL_SPARSE_VAL_MAX_VALUE /\ Decode(o.ops)[index] \in Count
      BY <1>1, <2>2, DecodeIs
    <3>2. Decode(o.ops)[index] \in Nat
      BY <3>1, CountType
    <3>3. QED
      BY <1>1, <1>2, <1>3, <3>1, <3>2, HllAssumption
  <2>3. HasSet(Promote(o, index, count), o, index, count)
    BY <2>2, PromoteIs
  <2>4. QED
    BY <2>1, <2>3
<1>4. ASSUME NEW s, HasSet(s, t, index, count) PROVE HasSet(s, o, index, count)
  <2>1. t \in SparseStr /\ t.ops = o.ops /\ t.card = o.card
    BY MakeRoomIs
  <2> HIDE DEF t
  <2>2. (Valid(t) <=> Valid(o)) /\ Registers(t) = Registers(o)
    BY <1>1, <2>1, SparseFields
  <2>3. QED
    BY <1>4, <2>1, <2>2 DEF HasSet
<1>5. t \in SparseStr /\ Tight(t) /\ Roomy(t) /\ t.ops = o.ops
  BY MakeRoomIs
<1>6. CASE ~(count > HLL_SPARSE_VAL_MAX_VALUE) /\ Total(o.ops) <= index
  <2>1. r.o = t /\ r.ret = ERR
    BY <1>6 DEF hllSparseSet, Result
  <2>2. ~Valid(t)
    <3>1. Total(o.ops) \in Nat /\ Total(o.ops) = Len(Walk(o.ops))
      BY <1>1, CoveredIs
    <3>2. Len(Walk(o.ops)) # HLL_REGISTERS
      BY <1>2, <1>6, <3>1, HllAssumption
    <3> HIDE DEF t
    <3>3. QED
      BY <1>5, <3>2, SparseFields
  <2> HIDE DEF r, t
  <2>3. HasSet(r, t, index, count)
    BY <1>5, <2>1, <2>2 DEF HasSet, Good, ERR
  <2>4. QED
    BY <1>4, <2>3 DEF r
<1>7. CASE ~(count > HLL_SPARSE_VAL_MAX_VALUE) /\ ~(Total(o.ops) <= index)
  <2>1. r = EditAt(t, i, index, count)
    BY <1>7 DEF hllSparseSet
  <2>2. index < Total(o.ops)
    BY <1>1, <1>2, <1>7, CoveredIs
  <2>3. \E k \in DOMAIN o.ops : Covers(o.ops, k, index)
    BY <1>1, <1>2, <2>2, CoverExists
  <2>4. i \in DOMAIN o.ops /\ Covers(o.ops, i, index)
    BY <2>3
  <2>5. count \in 1 .. HLL_SPARSE_VAL_MAX_VALUE
    BY <1>2, <1>7, HllAssumption
  <2> HIDE DEF r, t, i
  <2>6. HasSet(EditAt(t, i, index, count), t, index, count)
    BY <1>5, <2>4, <2>5, EditAtIs
  <2>7. QED
    BY <1>4, <2>1, <2>6 DEF r
<1>8. QED
  BY <1>3, <1>6, <1>7

\* hllSet on any string.
LEMMA SetIs ==
    ASSUME NEW o, Good(o), NEW index \in Index, NEW count \in 1 .. (HLL_Q + 1)
    PROVE  HasSet(hllSet(o, index, count), o, index, count)
<1>1. CASE o \in DenseStr
  BY <1>1, DenseFields, DenseSetIs DEF hllSet
<1>2. CASE o \in SparseStr /\ Tight(o)
  BY <1>2, SparseFields, SparseSetIs DEF hllSet
<1>3. QED
  BY <1>1, <1>2 DEF Good

-----------------------------------------------------------------------------
(* pfadd. *)

Strings == DenseStr \cup {o \in SparseStr : Tight(o)}

\* Good, as a set.
LEMMA GoodStrings == \A o : Good(o) <=> o \in Strings
BY DEF Good, Strings

\* The mark on the cached cardinality touches nothing else.
LEMMA InvalidateIs ==
    ASSUME NEW o, Good(o)
    PROVE  LET t == InvalidateCache(o) IN
           /\ Good(t) /\ t.card = Invalid /\ (Valid(t) <=> Valid(o)) /\ Registers(t) = Registers(o)
<1> DEFINE t == InvalidateCache(o)
<1>1. Invalid \in Cards
  BY DEF Cards
<1>2. CASE o \in DenseStr
  <2>1. t \in DenseStr /\ t.registers = o.registers /\ t.card = Invalid
    BY <1>1, <1>2 DEF DenseStr, InvalidateCache
  <2> HIDE DEF t
  <2>2. Valid(t) /\ Valid(o) /\ Registers(t) = Registers(o)
    BY <1>2, <2>1, DenseFields
  <2>3. QED
    BY <2>1, <2>2 DEF t, Good
<1>3. CASE o \in SparseStr /\ Tight(o)
  <2>1. t \in SparseStr /\ t.ops = o.ops /\ t.alloc = o.alloc /\ t.card = Invalid
    BY <1>1, <1>3 DEF SparseStr, InvalidateCache
  <2> HIDE DEF t
  <2>2. (Valid(t) <=> Valid(o)) /\ Registers(t) = Registers(o)
    BY <1>3, <2>1, SparseFields
  <2>3. Tight(t)
    BY <1>3, <2>1 DEF Tight
  <2>4. QED
    BY <2>1, <2>2, <2>3 DEF t, Good
<1>4. QED
  BY <1>2, <1>3 DEF Good

\* new is what reg becomes when the elements of S are added, register by register.
IsRaised(new, reg, S) ==
    /\ new \in [Index -> Count]
    /\ \A i \in Index :
        /\ new[i] >= reg[i] /\ \A e \in S : e[1] = i => new[i] >= e[2]
        /\ new[i] = reg[i] \/ \E e \in S : e[1] = i /\ new[i] = e[2]

\* The register by register reading determines Raised.
LEMMA RaisedIs ==
    ASSUME NEW new, NEW reg \in [Index -> Count], NEW S \in SUBSET Element, IsRaised(new, reg, S)
    PROVE  new = Raised(reg, S)
<1>1. ASSUME NEW i \in Index
      PROVE  new[i] = Max({reg[i]} \cup {e[2] : e \in {f \in S : f[1] = i}})
  <2> DEFINE T == {reg[i]} \cup {e[2] : e \in {f \in S : f[1] = i}}
  <2>1. \A v \in Count : v \in Int
    BY HllAssumption DEF Count
  <2>2. \A e \in S : e[2] \in Int
    BY HllAssumption DEF Element
  <2>3. T \in SUBSET Int
    BY <2>1, <2>2
  <2>4. new[i] \in T
    BY DEF IsRaised
  <2>5. \A x \in T : new[i] >= x
    BY DEF IsRaised
  <2> HIDE DEF T
  <2>6. Max(T) = new[i]
    BY <2>3, <2>4, <2>5, MaxIs
  <2>7. QED
    BY <2>6 DEF T
<1>2. new = [i \in Index |-> new[i]]
  BY DEF IsRaised
<1>3. QED
  BY <1>1, <1>2 DEF Raised

\* Nothing added, and one more element.
LEMMA RaisedNone ==
    ASSUME NEW reg \in [Index -> Count]
    PROVE  IsRaised(reg, reg, {})
<1>1. \A v \in Count : v >= v
  BY HllAssumption DEF Count
<1>2. QED
  BY <1>1 DEF IsRaised

\* One more element raises one register, and whether anything changed is known.
LEMMA RaisedMore ==
    ASSUME NEW cur, NEW new, NEW reg \in [Index -> Count],
           NEW S \in SUBSET Element, NEW x \in Element,
           IsRaised(cur, reg, S), Lifted(new, cur, x[1], x[2])
    PROVE  /\ IsRaised(new, reg, S \cup {x})
           /\ (new # reg) <=> (cur # reg \/ x[2] > cur[x[1]])
<1>1. /\ x[1] \in Index /\ x[2] \in Nat
      /\ cur \in [Index -> Count] /\ new \in [Index -> Count] /\ \A v \in Count : v \in Nat
  BY HllAssumption DEF Element, IsRaised, Lifted, Count
<1>2. ASSUME NEW i \in Index
      PROVE  /\ new[i] >= cur[i] /\ cur[i] >= reg[i] /\ new[i] \in Nat /\ cur[i] \in Nat /\ reg[i] \in Nat
             /\ i = x[1] => new[i] >= x[2] /\ (new[i] = cur[i] \/ new[i] = x[2])
             /\ i # x[1] => new[i] = cur[i]
  <2>1. new[i] \in Nat /\ cur[i] \in Nat /\ reg[i] \in Nat /\ cur[i] >= reg[i]
    BY <1>1 DEF IsRaised
  <2>2. CASE i = x[1]
    <3>1. new[i] = IF x[2] > cur[i] THEN x[2] ELSE cur[i]
      BY <2>2 DEF Lifted
    <3>2. QED
      BY <1>1, <2>1, <2>2, <3>1
  <2>3. CASE i # x[1]
    <3>1. new[i] = cur[i]
      BY <2>3 DEF Lifted
    <3>2. QED
      BY <2>1, <2>3, <3>1
  <2>4. QED
    BY <2>2, <2>3
<1>3. ASSUME NEW i \in Index
      PROVE  /\ new[i] >= reg[i] /\ \A e \in S \cup {x} : e[1] = i => new[i] >= e[2]
             /\ new[i] = reg[i] \/ \E e \in S \cup {x} : e[1] = i /\ new[i] = e[2]
  <2>1. new[i] >= reg[i]
    BY <1>2
  <2>2. ASSUME NEW e \in S \cup {x}, e[1] = i PROVE new[i] >= e[2]
    <3>1. CASE e = x
      BY <1>2, <2>2, <3>1
    <3>2. CASE e \in S
      <4>1. cur[i] >= e[2]
        BY <2>2, <3>2 DEF IsRaised
      <4>2. e[2] \in Nat
        BY <3>2, HllAssumption DEF Element
      <4>3. QED
        BY <1>2, <4>1, <4>2
    <3>3. QED
      BY <3>1, <3>2
  <2>3. new[i] = reg[i] \/ \E e \in S \cup {x} : e[1] = i /\ new[i] = e[2]
    <3>1. CASE new[i] = cur[i]
      BY <3>1 DEF IsRaised
    <3>2. CASE i = x[1] /\ new[i] = x[2]
      BY <3>2
    <3>3. QED
      BY <1>2, <3>1, <3>2
  <2>4. QED
    BY <2>1, <2>2, <2>3
<1>4. IsRaised(new, reg, S \cup {x})
  BY <1>1, <1>3 DEF IsRaised
<1>5. ASSUME cur # reg PROVE new # reg
  <2>1. PICK i \in Index : cur[i] # reg[i]
    BY <1>1, <1>5
  <2>2. new[i] # reg[i]
    BY <1>2, <2>1
  <2>3. QED
    BY <2>2
<1>6. ASSUME cur = reg, x[2] > cur[x[1]] PROVE new # reg
  <2>1. new[x[1]] = x[2]
    BY <1>6 DEF Lifted
  <2>2. cur[x[1]] \in Nat
    BY <1>1
  <2>3. new[x[1]] # reg[x[1]]
    BY <1>1, <1>6, <2>1, <2>2
  <2>4. QED
    BY <2>3
<1>7. ASSUME cur = reg, ~(x[2] > cur[x[1]]) PROVE new = reg
  <2>1. new[x[1]] = cur[x[1]]
    BY <1>7 DEF Lifted
  <2>2. \A i \in Index : new[i] = reg[i]
    BY <1>2, <1>7, <2>1
  <2>3. QED
    BY <1>1, <2>2
<1>8. (new # reg) <=> (cur # reg \/ x[2] > cur[x[1]])
  BY <1>5, <1>6, <1>7, Zenon
<1>9. QED
  BY <1>4, <1>8

\* The state of pfadd's loop.
AddState == [o : Strings, updated : BOOLEAN, ret : {0, ERR}]
Argument == Element \cup {Bad}

\* One turn, as far as its types go: no assertion fails.
LEMMA AddStepType ==
    ASSUME NEW s \in AddState, NEW arg \in Argument
    PROVE  AddStep(s, arg) \in AddState
<1>1. /\ s.o \in Strings /\ Good(s.o) /\ s.updated \in BOOLEAN /\ s.ret \in {0, ERR}
      /\ s = [o |-> s.o, updated |-> s.updated, ret |-> s.ret]
  BY GoodStrings DEF AddState
<1>2. CASE s.ret < 0
  BY <1>2 DEF AddStep
<1>3. CASE ~(s.ret < 0) /\ arg = Bad
  <2>1. AddStep(s, arg) = [s EXCEPT !.ret = ERR]
    BY <1>3 DEF AddStep
  <2>2. QED
    BY <2>1 DEF AddState
<1>4. CASE ~(s.ret < 0) /\ arg # Bad
  <2> DEFINE r == hllSet(s.o, arg[1], arg[2])
  <2>1. arg[1] \in Index /\ arg[2] \in 1 .. (HLL_Q + 1)
    BY <1>4 DEF Argument, Element
  <2>2. HasSet(r, s.o, arg[1], arg[2])
    BY <1>1, <2>1, SetIs
  <2>3. AddStep(s, arg) = [o |-> r.o, updated |-> s.updated \/ r.ret = 1,
                           ret |-> IF r.ret < 0 THEN r.ret ELSE 0]
    BY <1>4 DEF AddStep
  <2> HIDE DEF r
  <2>4. r.o \in Strings /\ r.ret \in {0, 1, ERR}
    BY <2>2, GoodStrings DEF HasSet
  <2>5. (IF r.ret < 0 THEN r.ret ELSE 0) \in {0, ERR}
    BY <2>4 DEF ERR
  <2>6. (s.updated \/ r.ret = 1) \in BOOLEAN
    BY <1>1
  <2>7. QED
    BY <2>3, <2>4, <2>5, <2>6 DEF AddState
<1>5. QED
  BY <1>2, <1>3, <1>4

\* No bad argument among the first n, and those of them that are applied.
Fine(args, n) == \A k \in 1 .. n : args[k] # Bad
AppliedTo(args, n) == {args[i] : i \in {j \in 1 .. n : Fine(args, j)}}

\* The arguments applied after one more turn.
LEMMA AppliedNext ==
    ASSUME NEW args \in Seq(Argument), NEW n \in Nat, n < Len(args)
    PROVE  /\ args[n + 1] \in Argument
           /\ Fine(args, n + 1) <=> Fine(args, n) /\ args[n + 1] # Bad
           /\ Fine(args, n + 1) => /\ args[n + 1] \in Element
                                   /\ AppliedTo(args, n + 1) = AppliedTo(args, n) \cup {args[n + 1]}
           /\ ~Fine(args, n + 1) => AppliedTo(args, n + 1) = AppliedTo(args, n)
           /\ AppliedTo(args, n) \in SUBSET Element
<1>1. n + 1 \in 1 .. Len(args) /\ args[n + 1] \in Argument
  OBVIOUS
<1>2. \A k \in 1 .. (n + 1) : k \in 1 .. n \/ k = n + 1
  OBVIOUS
<1>3. \A k \in 1 .. n : k \in 1 .. (n + 1) /\ k \in 1 .. Len(args) /\ k \in 1 .. k
  OBVIOUS
<1>4. Fine(args, n + 1) <=> Fine(args, n) /\ args[n + 1] # Bad
  BY <1>2, <1>3 DEF Fine
<1>5. Fine(args, n + 1) => AppliedTo(args, n + 1) = AppliedTo(args, n) \cup {args[n + 1]}
  BY <1>2, <1>3 DEF AppliedTo
<1>6. ~Fine(args, n + 1) => AppliedTo(args, n + 1) = AppliedTo(args, n)
  BY <1>2, <1>3 DEF AppliedTo
<1>7. AppliedTo(args, n) \in SUBSET Element
  <2>1. ASSUME NEW j \in 1 .. n, Fine(args, j) PROVE args[j] \in Element
    <3>1. args[j] \in Argument /\ args[j] # Bad
      BY <1>3, <2>1 DEF Fine
    <3>2. QED
      BY <3>1 DEF Argument
  <2>2. QED
    BY <2>1 DEF AppliedTo
<1>8. QED
  BY <1>1, <1>4, <1>5, <1>6, <1>7 DEF Argument

\* What n turns have done to string o.
Adding(s, o, args, n) ==
    /\ s \in AddState /\ (Valid(s.o) <=> Valid(o))
    /\ ~s.updated => s.o.card = o.card
    /\ Valid(o) => /\ s.ret = ERR <=> ~Fine(args, n)
                   /\ IsRaised(Registers(s.o), Registers(o), AppliedTo(args, n))
                   /\ s.updated <=> Registers(s.o) # Registers(o)

\* One turn of pfadd's loop.
LEMMA AddStepIs ==
    ASSUME NEW o, Good(o), NEW args \in Seq(Argument), NEW n \in Nat, n < Len(args), NEW s,
           Adding(s, o, args, n)
    PROVE  Adding(AddStep(s, args[n + 1]), o, args, n + 1)
<1> DEFINE arg == args[n + 1]
           t == AddStep(s, arg)
           A == AppliedTo(args, n)
           B == AppliedTo(args, n + 1)
<1>1. /\ arg \in Argument
      /\ Fine(args, n + 1) <=> Fine(args, n) /\ arg # Bad
      /\ Fine(args, n + 1) => arg \in Element /\ B = A \cup {arg}
      /\ ~Fine(args, n + 1) => B = A
      /\ A \in SUBSET Element
  BY AppliedNext
<1>2. s \in AddState /\ Good(s.o) /\ s.ret \in {0, ERR} /\ s.updated \in BOOLEAN
  BY GoodStrings DEF AddState, Adding
<1>3. t \in AddState
  BY <1>1, <1>2, AddStepType
<1>4. CASE s.ret < 0
  <2>1. t = s
    BY <1>4 DEF AddStep
  <2>2. s.ret = ERR
    BY <1>2, <1>4
  <2>3. Valid(o) => ~Fine(args, n + 1) /\ B = A
    BY <1>1, <2>2 DEF Adding
  <2> HIDE DEF t, A, B
  <2>4. QED
    BY <2>1, <2>2, <2>3 DEF Adding, t, A, B
<1>5. CASE ~(s.ret < 0) /\ arg = Bad
  <2>1. t.o = s.o /\ t.updated = s.updated /\ t.ret = ERR
    BY <1>2, <1>5 DEF AddStep, AddState
  <2>2. ~Fine(args, n + 1) /\ B = A
    BY <1>1, <1>5
  <2> HIDE DEF t, A, B
  <2>3. QED
    BY <1>3, <2>1, <2>2 DEF Adding, t, A, B
<1>6. CASE ~(s.ret < 0) /\ arg # Bad
  <2> DEFINE r == hllSet(s.o, arg[1], arg[2])
  <2>1. arg \in Element /\ arg[1] \in Index /\ arg[2] \in 1 .. (HLL_Q + 1)
    BY <1>1, <1>6 DEF Argument, Element
  <2>2. HasSet(r, s.o, arg[1], arg[2])
    BY <1>2, <2>1, SetIs
  <2>3. /\ t.o = r.o /\ t.updated = (s.updated \/ r.ret = 1)
        /\ t.ret = IF r.ret < 0 THEN r.ret ELSE 0
    BY <1>6 DEF AddStep
  <2>4. s.ret # ERR
    BY <1>6 DEF ERR
  <2> HIDE DEF t, r, A, B, arg
  <2>5. Valid(t.o) <=> Valid(o)
    BY <2>2, <2>3 DEF HasSet, Adding
  <2>6. ~t.updated => t.o.card = o.card
    <3>1. ~t.updated => ~s.updated /\ r.ret # 1
      BY <2>3
    <3>2. QED
      BY <2>2, <2>3, <3>1 DEF HasSet, Adding
  <2>7. ASSUME Valid(o)
        PROVE  /\ t.ret = ERR <=> ~Fine(args, n + 1)
               /\ IsRaised(Registers(t.o), Registers(o), B)
               /\ t.updated <=> Registers(t.o) # Registers(o)
    <3>1. Valid(s.o)
      BY <2>7 DEF Adding
    <3>2. Fine(args, n) /\ Fine(args, n + 1) /\ B = A \cup {arg}
      BY <1>1, <1>6, <2>4, <2>7 DEF Adding
    <3>3. r.ret \in {0, 1} /\ t.ret = 0
      BY <2>2, <2>3, <3>1 DEF HasSet, ERR
    <3>4. /\ Lifted(Registers(t.o), Registers(s.o), arg[1], arg[2])
          /\ r.ret = 1 <=> arg[2] > Registers(s.o)[arg[1]]
      BY <2>2, <2>3, <3>1 DEF HasSet
    <3>5. Registers(o) \in [Index -> Count]
      BY <2>7, RegistersType
    <3>6. IsRaised(Registers(s.o), Registers(o), A) /\ (s.updated <=> Registers(s.o) # Registers(o))
      BY <2>7 DEF Adding, A
    <3>7. /\ IsRaised(Registers(t.o), Registers(o), A \cup {arg})
          /\ (Registers(t.o) # Registers(o))
                <=> (Registers(s.o) # Registers(o) \/ arg[2] > Registers(s.o)[arg[1]])
      BY <1>1, <2>1, <3>4, <3>5, <3>6, RaisedMore
    <3>8. t.ret = ERR <=> ~Fine(args, n + 1)
      BY <3>2, <3>3 DEF ERR
    <3>9. t.updated <=> Registers(t.o) # Registers(o)
      BY <2>3, <3>4, <3>6, <3>7
    <3>10. QED
      BY <3>2, <3>7, <3>8, <3>9
  <2>8. QED
    BY <1>3, <2>5, <2>6, <2>7 DEF Adding, t, B, arg
<1>7. QED
  BY <1>4, <1>5, <1>6

AddTurnStep(args) ==
    [p \in (1 .. Len(args)) \X AddState |-> AddStep(p[2], args[p[1]])]

\* The loop of pfadd.
LEMMA AddTurnFold ==
    ASSUME NEW args \in Seq(Argument), NEW s0 \in AddState
    PROVE  \E g : /\ Accumulates(g, Len(args), s0, AddTurnStep(args), AddState)
                  /\ FoldLeft(AddStep, s0, args) = g[Len(args)]
<1> DEFINE N == Len(args)
           D == AddState
           b == s0
           F == AddTurnStep(args)
           Eqn(it) == it = [S \in SUBSET (1 .. N) |->
                        IF S = {} THEN b ELSE AddStep(it[S \ {Max(S)}], args[Max(S)])]
           it == CHOOSE it : Eqn(it)
<1>1. N \in Nat /\ DOMAIN args = 1 .. N /\ b \in D
  OBVIOUS
<1>2. F \in [(1 .. N) \X D -> D]
  <2>1. ASSUME NEW i \in 1 .. N, NEW y \in D
        PROVE  AddStep(y, args[i]) \in D
    BY AddStepType
  <2>2. QED
    BY <2>1 DEF AddTurnStep
<1>3. \E jt : Eqn(jt)
  <2>1. PICK jt \in [SUBSET (1 .. N) -> D] : Iterates(jt, N, b, F)
    <3> HIDE DEF F, N, D, b
    <3>1. QED
      BY <1>1, <1>2, IteratorExists
  <2>2. ASSUME NEW S \in SUBSET (1 .. N), S # {}
        PROVE  F[<<Max(S), jt[S \ {Max(S)}]>>] = AddStep(jt[S \ {Max(S)}], args[Max(S)])
    <3>1. Max(S) \in 1 .. N /\ S \ {Max(S)} \in SUBSET (1 .. N)
      BY <2>2, <1>1, MaxOfPart
    <3>2. jt[S \ {Max(S)}] \in D
      BY <3>1
    <3>3. QED
      BY <3>1, <3>2 DEF AddTurnStep
  <2>3. Eqn(jt)
    <3> HIDE DEF F, N, D, b
    <3>1. QED
      BY <2>1, <2>2 DEF Iterates
  <2>4. QED
    BY <2>3
<1>4. Eqn(it)
  <2> HIDE DEF Eqn
  <2>1. QED
    BY <1>3
<1>5. FoldLeft(AddStep, s0, args) = it[1 .. N]
  BY <1>1 DEF FoldLeft, MapThenFoldSet
<1> HIDE DEF it
<1>6. it[{}] = b
  BY <1>4
<1>7. ASSUME NEW n \in 1 .. N, it[1 .. (n - 1)] \in D
      PROVE  it[1 .. n] = F[<<n, it[1 .. (n - 1)]>>]
  <2>1. /\ 1 .. n \in SUBSET (1 .. N) /\ 1 .. n # {}
        /\ Max(1 .. n) = n /\ (1 .. n) \ {n} = 1 .. (n - 1)
    BY <1>1, MaxOfInitial
  <2>2. it[1 .. n] = AddStep(it[(1 .. n) \ {Max(1 .. n)}], args[Max(1 .. n)])
    BY <1>4, <2>1
  <2>3. it[1 .. n] = AddStep(it[1 .. (n - 1)], args[n])
    BY <2>1, <2>2
  <2>4. QED
    BY <1>7, <2>3 DEF AddTurnStep
<1>8. Accumulates([n \in 0 .. N |-> it[1 .. n]], N, b, F, D)
  <2> HIDE DEF F, N, D, b, Eqn
  <2>1. QED
    BY <1>1, <1>2, <1>6, <1>7, AccumulatorOf
<1>9. [n \in 0 .. N |-> it[1 .. n]][N] = it[1 .. N]
  BY <1>1
<1>10. QED
  BY <1>5, <1>8, <1>9, Zenon

\* The loop of pfadd as a whole.
LEMMA AddAllIs ==
    ASSUME NEW o, Good(o), NEW args \in Seq(Argument)
    PROVE  Adding(AddAll(o, args), o, args, Len(args))
<1> DEFINE s0 == [o |-> o, updated |-> FALSE, ret |-> 0]
           s == AddAll(o, args)
           N == Len(args)
<1>1. s0 \in AddState
  BY GoodStrings DEF AddState
<1>2. s = FoldLeft(AddStep, s0, args)
  BY DEF AddAll
<1>3. Adding(s0, o, args, 0)
  <2>1. AppliedTo(args, 0) = {}
    BY DEF AppliedTo
  <2>2. Fine(args, 0)
    BY DEF Fine
  <2>3. Valid(o) => IsRaised(Registers(o), Registers(o), {})
    BY RegistersType, RaisedNone
  <2>4. s0.o = o /\ s0.ret # ERR
    BY DEF ERR
  <2>5. ~s0.updated
    OBVIOUS
  <2> HIDE DEF s0
  <2>6. QED
    BY <1>1, <2>1, <2>2, <2>3, <2>4, <2>5, Zenon DEF Adding
<1> HIDE DEF s0, s
<1>4. PICK g : Accumulates(g, N, s0, AddTurnStep(args), AddState) /\ s = g[N]
  BY <1>1, <1>2, AddTurnFold
<1>5. N \in Nat /\ g \in [0 .. N -> AddState] /\ g[0] = s0
  BY <1>4 DEF Accumulates
<1>6. ASSUME NEW n \in 0 .. (N - 1), Adding(g[n], o, args, n)
      PROVE  Adding(g[n + 1], o, args, n + 1)
  <2>1. n \in Nat /\ n < N /\ n \in 0 .. N /\ n + 1 \in 1 .. N /\ (n + 1) - 1 = n
    BY <1>5
  <2>2. g[n] \in AddState
    BY <1>5, <2>1
  <2>3. g[n + 1] = AddTurnStep(args)[<<n + 1, g[n]>>]
    BY <1>4, <2>1 DEF Accumulates
  <2>4. g[n + 1] = AddStep(g[n], args[n + 1])
    BY <2>1, <2>2, <2>3 DEF AddTurnStep
  <2>5. QED
    BY <1>6, <2>1, <2>4, AddStepIs
<1> DEFINE S == {n \in 0 .. N : Adding(g[n], o, args, n)}
<1> HIDE DEF N
<1>7. \A n \in 0 .. N : n \in S
  <2>1. 0 \in S
    BY <1>3, <1>5
  <2>2. \A n \in 0 .. (N - 1) : n \in S => n + 1 \in S
    BY <1>5, <1>6
  <2> HIDE DEF S
  <2>3. QED
    BY <1>5, <2>1, <2>2, UpTo
<1>8. N \in 0 .. N
  BY <1>5
<1>9. Adding(g[N], o, args, N)
  BY <1>7, <1>8
<1>10. QED
  BY <1>4, <1>9 DEF s, N

\* The reply of pfadd, and the string it leaves.
LEMMA PfaddIs ==
    ASSUME NEW o, Good(o), NEW args \in Seq(Argument)
    PROVE  LET s == AddAll(o, args)
               r == Added(s)
           IN  /\ Good(r.o) /\ (Valid(r.o) <=> Valid(o))
               /\ Valid(o) => Registers(r.o) = Raised(Registers(o), Applied(args))
               /\ Valid(o) => r.ret = IF Bad \in ToSet(args) THEN ERR
                                      ELSE IF Registers(o) = Registers(r.o) THEN 0 ELSE 1
               /\ \/ r.ret = ERR /\ s.updated
                  \/ r.o.card = Invalid
                  \/ /\ r.o.card = o.card
                     /\ Valid(o) => Registers(r.o) = Registers(o)
<1> DEFINE s == AddAll(o, args)
           r == Added(s)
           N == Len(args)
<1>1. Adding(s, o, args, N)
  BY AddAllIs
<1> HIDE DEF s
<1>2. Good(s.o) /\ s.ret \in {0, ERR} /\ s.updated \in BOOLEAN
  BY <1>1, GoodStrings DEF Adding, AddState
<1>3. Fine(args, N) <=> Bad \notin ToSet(args)
  <2>1. DOMAIN args = 1 .. N
    OBVIOUS
  <2>2. QED
    BY <2>1 DEF Fine, ToSet
<1>4. AppliedTo(args, N) = Applied(args) /\ Applied(args) \in SUBSET Element
  <2>1. DOMAIN args = 1 .. N /\ N \in Nat
    OBVIOUS
  <2>2. AppliedTo(args, N) = Applied(args)
    BY <2>1 DEF AppliedTo, Applied, Fine
  <2>3. ASSUME NEW j \in 1 .. N, \A k \in 1 .. j : args[k] # Bad PROVE args[j] \in Element
    <3>1. args[j] \in Argument /\ j \in 1 .. j
      OBVIOUS
    <3>2. QED
      BY <2>3, <3>1 DEF Argument
  <2>4. Applied(args) \in SUBSET Element
    BY <2>1, <2>3 DEF Applied
  <2>5. QED
    BY <2>2, <2>4
<1>5. Valid(o) => Registers(s.o) = Raised(Registers(o), Applied(args))
  BY <1>1, <1>4, RegistersType, RaisedIs DEF Adding
<1>6. Valid(o) => /\ s.ret = ERR <=> Bad \in ToSet(args)
                  /\ s.updated <=> Registers(s.o) # Registers(o)
  BY <1>1, <1>3 DEF Adding
<1>7. (Valid(s.o) <=> Valid(o)) /\ (~s.updated => s.o.card = o.card)
  BY <1>1 DEF Adding
<1>8. CASE s.ret < 0
  <2>1. s.ret = ERR
    BY <1>2, <1>8
  <2>2. r.o = s.o /\ r.ret = ERR
    BY <1>8, <2>1 DEF Added, Result
  <2> HIDE DEF r
  <2>3. QED
    BY <1>2, <1>5, <1>6, <1>7, <2>1, <2>2 DEF r, s
<1>9. CASE ~(s.ret < 0) /\ s.updated
  <2>1. s.ret # ERR
    BY <1>9 DEF ERR
  <2>2. r.o = InvalidateCache(s.o) /\ r.ret = 1
    BY <1>9 DEF Added, Result
  <2>3. /\ Good(r.o) /\ r.o.card = Invalid /\ (Valid(r.o) <=> Valid(s.o))
        /\ Registers(r.o) = Registers(s.o)
    BY <1>2, <2>2, InvalidateIs
  <2> HIDE DEF r
  <2>4. QED
    BY <1>5, <1>6, <1>7, <1>9, <2>1, <2>2, <2>3 DEF r, s
<1>10. CASE ~(s.ret < 0) /\ ~s.updated
  <2>1. s.ret # ERR
    BY <1>10 DEF ERR
  <2>2. r.o = s.o /\ r.ret = 0
    BY <1>10 DEF Added, Result
  <2> HIDE DEF r
  <2>3. QED
    BY <1>2, <1>5, <1>6, <1>7, <1>10, <2>1, <2>2 DEF r, s
<1>11. QED
  BY <1>8, <1>9, <1>10

-----------------------------------------------------------------------------
(* pfmerge and pfcount. *)

\* The union of valid strings has a value for each register, and none of theirs is larger.
LEMMA MaxRegistersIs ==
    ASSUME NEW S, S # {}, \A o \in S : Good(o) /\ Valid(o)
    PROVE  /\ MaxRegisters(S) \in [Index -> Count]
           /\ \A o \in S : \A i \in Index : MaxRegisters(S)[i] >= Registers(o)[i]
<1> DEFINE regs == {Registers(o) : o \in S}
           max == MaxRegisters(S)
<1>1. \A reg \in regs : reg \in [Index -> Count]
  BY RegistersType
<1>2. ASSUME NEW i \in Index
      PROVE  /\ Max({reg[i] : reg \in regs}) \in Count
             /\ \A x \in regs : Max({reg[i] : reg \in regs}) >= x[i]
  <2> DEFINE T == {reg[i] : reg \in regs}
             N == HLL_Q + 1
  <2>1. T \in SUBSET (0 .. N)
    BY <1>1 DEF Count
  <2>2. T # {} /\ N \in Nat
    BY HllAssumption
  <2>3. \A x \in regs : x[i] \in T
    OBVIOUS
  <2> HIDE DEF T, N
  <2>4. Max(T) \in T /\ \A x \in T : Max(T) >= x
    BY <2>1, <2>2, MaxExists
  <2>5. Max(T) \in Count
    BY <2>1, <2>4 DEF Count, N
  <2>6. \A x \in regs : Max(T) >= x[i]
    BY <2>3, <2>4
  <2>7. QED
    BY <2>5, <2>6 DEF T
<1>3. max = [i \in Index |-> Max({reg[i] : reg \in regs})]
  BY DEF MaxRegisters
<1> HIDE DEF max
<1>4. max \in [Index -> Count]
  BY <1>2, <1>3
<1>5. \A i \in Index : max[i] = Max({reg[i] : reg \in regs})
  BY <1>3
<1>6. \A o \in S : Registers(o) \in regs
  OBVIOUS
<1> HIDE DEF regs
<1>7. \A o \in S : \A i \in Index : max[i] >= Registers(o)[i]
  BY <1>2, <1>5, <1>6
<1>8. QED
  BY <1>4, <1>7 DEF max

\* One register of the union is set.
SetOne(d, max, i) == IF max[i - 1] = 0 THEN d ELSE hllSet(d, i - 1, max[i - 1]).o

\* Setting one register of the union leaves a string.
LEMMA SetOneType ==
    ASSUME NEW d \in Strings, NEW max \in [Index -> Count], NEW i \in 1 .. HLL_REGISTERS
    PROVE  SetOne(d, max, i) \in Strings
<1>1. i - 1 \in Index /\ max[i - 1] \in Count
  BY HllAssumption DEF Index
<1>2. CASE max[i - 1] = 0
  BY <1>2 DEF SetOne
<1>3. CASE max[i - 1] # 0
  <2>1. max[i - 1] \in 1 .. (HLL_Q + 1)
    BY <1>1, <1>3, HllAssumption DEF Count
  <2>2. HasSet(hllSet(d, i - 1, max[i - 1]), d, i - 1, max[i - 1])
    BY <1>1, <2>1, GoodStrings, SetIs
  <2>3. QED
    BY <1>3, <2>2, GoodStrings DEF SetOne, HasSet
<1>4. QED
  BY <1>2, <1>3

SetTurnStep(all, max) ==
    [p \in (1 .. Len(all)) \X Strings |-> SetOne(p[2], max, all[p[1]])]

\* The last loop of pfmerge.
LEMMA SetTurnFold ==
    ASSUME NEW all \in Seq(1 .. HLL_REGISTERS), NEW max \in [Index -> Count], NEW s0 \in Strings
    PROVE  \E g : /\ Accumulates(g, Len(all), s0, SetTurnStep(all, max), Strings)
                  /\ FoldLeft(LAMBDA s, i : IF max[i - 1] = 0 THEN s ELSE hllSet(s, i - 1, max[i - 1]).o, s0, all) = g[Len(all)]
<1> DEFINE N == Len(all)
           D == Strings
           b == s0
           F == SetTurnStep(all, max)
           Eqn(it) == it = [S \in SUBSET (1 .. N) |->
                        IF S = {} THEN b ELSE SetOne(it[S \ {Max(S)}], max, all[Max(S)])]
           it == CHOOSE it : Eqn(it)
<1>1. N \in Nat /\ DOMAIN all = 1 .. N /\ b \in D
  OBVIOUS
<1>2. F \in [(1 .. N) \X D -> D]
  <2>1. ASSUME NEW i \in 1 .. N, NEW y \in D
        PROVE  SetOne(y, max, all[i]) \in D
    <3>1. all[i] \in 1 .. HLL_REGISTERS
      BY ElementOfSeq, Zenon
    <3>2. QED
      BY <3>1, SetOneType
  <2>2. QED
    BY <2>1 DEF SetTurnStep
<1>3. \E jt : Eqn(jt)
  <2>1. PICK jt \in [SUBSET (1 .. N) -> D] : Iterates(jt, N, b, F)
    <3> HIDE DEF F, N, D, b
    <3>1. QED
      BY <1>1, <1>2, IteratorExists
  <2>2. ASSUME NEW S \in SUBSET (1 .. N), S # {}
        PROVE  F[<<Max(S), jt[S \ {Max(S)}]>>] = SetOne(jt[S \ {Max(S)}], max, all[Max(S)])
    <3>1. Max(S) \in 1 .. N /\ S \ {Max(S)} \in SUBSET (1 .. N)
      BY <2>2, <1>1, MaxOfPart
    <3>2. jt[S \ {Max(S)}] \in D
      BY <3>1
    <3>3. QED
      BY <3>1, <3>2 DEF SetTurnStep
  <2>3. Eqn(jt)
    <3> HIDE DEF F, N, D, b
    <3>1. QED
      BY <2>1, <2>2 DEF Iterates
  <2>4. QED
    BY <2>3
<1>4. Eqn(it)
  <2> HIDE DEF Eqn
  <2>1. QED
    BY <1>3
<1>5. FoldLeft(LAMBDA s, i : IF max[i - 1] = 0 THEN s ELSE hllSet(s, i - 1, max[i - 1]).o, s0, all) = it[1 .. N]
  BY <1>1 DEF SetOne, FoldLeft, MapThenFoldSet
<1> HIDE DEF it
<1>6. it[{}] = b
  BY <1>4
<1>7. ASSUME NEW n \in 1 .. N, it[1 .. (n - 1)] \in D
      PROVE  it[1 .. n] = F[<<n, it[1 .. (n - 1)]>>]
  <2>1. /\ 1 .. n \in SUBSET (1 .. N) /\ 1 .. n # {}
        /\ Max(1 .. n) = n /\ (1 .. n) \ {n} = 1 .. (n - 1)
    BY <1>1, MaxOfInitial
  <2>2. it[1 .. n] = SetOne(it[(1 .. n) \ {Max(1 .. n)}], max, all[Max(1 .. n)])
    BY <1>4, <2>1
  <2>3. it[1 .. n] = SetOne(it[1 .. (n - 1)], max, all[n])
    BY <2>1, <2>2
  <2>4. QED
    BY <1>7, <2>3 DEF SetTurnStep
<1>8. Accumulates([n \in 0 .. N |-> it[1 .. n]], N, b, F, D)
  <2> HIDE DEF F, N, D, b, Eqn
  <2>1. QED
    BY <1>1, <1>2, <1>6, <1>7, AccumulatorOf
<1>9. [n \in 0 .. N |-> it[1 .. n]][N] = it[1 .. N]
  BY <1>1
<1>10. QED
  BY <1>5, <1>8, <1>9, Zenon

\* Registers below n are those of the union, the others are still the string's.
Merging(d, o, max, n) ==
    /\ d \in Strings /\ Valid(d)
    /\ \A k \in Index : Registers(d)[k] = IF k < n THEN max[k] ELSE Registers(o)[k]

\* One turn of pfmerge's last loop.
LEMMA SetOneIs ==
    ASSUME NEW o, Good(o), Valid(o), NEW max \in [Index -> Count],
           \A k \in Index : max[k] >= Registers(o)[k],
           NEW n \in 0 .. (HLL_REGISTERS - 1), NEW d, Merging(d, o, max, n)
    PROVE  Merging(SetOne(d, max, n + 1), o, max, n + 1)
<1> DEFINE t == SetOne(d, max, n + 1)
<1>1. n \in Index /\ n + 1 \in 1 .. HLL_REGISTERS /\ (n + 1) - 1 = n /\ n \in Int
  BY HllAssumption DEF Index
<1>2. d \in Strings /\ Good(d) /\ Valid(d)
  BY GoodStrings DEF Merging
<1>3. t \in Strings
  BY <1>1, <1>2, SetOneType
<1>4. t = IF max[n] = 0 THEN d ELSE hllSet(d, n, max[n]).o
  BY <1>1 DEF SetOne
<1>5. Registers(o) \in [Index -> Count] /\ Registers(d) \in [Index -> Count]
  BY <1>2, RegistersType
<1>6. max[n] \in Nat /\ Registers(o)[n] \in Nat /\ max[n] >= Registers(o)[n] /\ max[n] \in Count
  BY <1>1, <1>5, CountType, HllAssumption DEF Count
<1>7. Registers(d)[n] = Registers(o)[n]
  <2>1. ~(n < n)
    BY <1>1
  <2>2. QED
    BY <1>1, <2>1 DEF Merging
<1>8. \A k \in Index : k # n => (k < n <=> k < n + 1)
  BY <1>1, HllAssumption DEF Index
<1>9. n < n + 1
  BY <1>1
<1> HIDE DEF t
<1>10. Valid(t) /\ Registers(t)[n] = max[n] /\ \A k \in Index : k # n => Registers(t)[k] = Registers(d)[k]
  <2>1. CASE max[n] = 0
    <3>1. t = d
      BY <1>4, <2>1
    <3>2. Registers(o)[n] = 0
      BY <1>6, <2>1
    <3>3. QED
      BY <1>2, <1>7, <2>1, <3>1, <3>2
  <2>2. CASE max[n] # 0
    <3> DEFINE r == hllSet(d, n, max[n])
    <3>1. max[n] \in 1 .. (HLL_Q + 1)
      BY <1>6, <2>2, HllAssumption DEF Count
    <3>2. HasSet(r, d, n, max[n])
      BY <1>1, <1>2, <3>1, SetIs
    <3>3. t = r.o
      BY <1>4, <2>2
    <3> HIDE DEF r
    <3>4. Valid(t) /\ Lifted(Registers(t), Registers(d), n, max[n])
      BY <1>2, <3>2, <3>3 DEF HasSet
    <3>5. Registers(t)[n] = IF max[n] > Registers(d)[n] THEN max[n] ELSE Registers(d)[n]
      BY <3>4 DEF Lifted
    <3>6. Registers(t)[n] = max[n]
      BY <1>6, <1>7, <3>5
    <3>7. QED
      BY <3>4, <3>6 DEF Lifted
  <2>3. QED
    BY <2>1, <2>2
<1>11. ASSUME NEW k \in Index
       PROVE  Registers(t)[k] = IF k < n + 1 THEN max[k] ELSE Registers(o)[k]
  <2>1. CASE k = n
    BY <1>9, <1>10, <2>1
  <2>2. CASE k # n
    BY <1>8, <1>10, <2>2 DEF Merging
  <2>3. QED
    BY <2>1, <2>2
<1>12. Merging(t, o, max, n + 1)
  BY <1>3, <1>10, <1>11 DEF Merging
<1>13. QED
  BY <1>12 DEF t

\* Setting the registers of a union one by one makes the string's registers the union's.
LEMMA SetAllIs ==
    ASSUME NEW o, Good(o), Valid(o), NEW max \in [Index -> Count],
           \A k \in Index : max[k] >= Registers(o)[k]
    PROVE  LET d == SetAll(o, max) IN Good(d) /\ Valid(d) /\ Registers(d) = max
<1> DEFINE d == SetAll(o, max)
           N == HLL_REGISTERS
           all == [i \in 1 .. N |-> i]
<1>1. N \in Nat
  BY HllAssumption
<1>2. all \in Seq(1 .. N) /\ Len(all) = N /\ \A i \in 1 .. N : all[i] = i
  BY <1>1
<1>3. d = FoldLeft(LAMBDA s, i : IF max[i - 1] = 0 THEN s ELSE hllSet(s, i - 1, max[i - 1]).o, o, all)
  BY DEF SetAll
<1> HIDE DEF d, all
<1>4. o \in Strings
  BY GoodStrings
<1>5. PICK g : Accumulates(g, Len(all), o, SetTurnStep(all, max), Strings) /\ d = g[Len(all)]
  BY <1>2, <1>3, <1>4, SetTurnFold
<1>6. g \in [0 .. N -> Strings] /\ g[0] = o
  BY <1>2, <1>5 DEF Accumulates
<1>7. Merging(g[0], o, max, 0)
  <2>1. \A k \in Index : ~(k < 0)
    BY HllAssumption DEF Index
  <2>2. QED
    BY <1>4, <1>6, <2>1 DEF Merging
<1>8. ASSUME NEW n \in 0 .. (N - 1), Merging(g[n], o, max, n)
      PROVE  Merging(g[n + 1], o, max, n + 1)
  <2>1. n \in 0 .. N /\ n + 1 \in 1 .. N /\ (n + 1) - 1 = n /\ n + 1 \in 1 .. Len(all) /\ all[n + 1] = n + 1
    BY <1>1, <1>2
  <2>2. g[n] \in Strings
    BY <1>6, <2>1
  <2>3. g[n + 1] = SetTurnStep(all, max)[<<n + 1, g[n]>>]
    BY <1>5, <2>1 DEF Accumulates
  <2>4. g[n + 1] = SetOne(g[n], max, n + 1)
    BY <2>1, <2>2, <2>3 DEF SetTurnStep
  <2>5. QED
    BY <1>8, <2>4, SetOneIs
<1> DEFINE S == {n \in 0 .. N : Merging(g[n], o, max, n)}
<1>9. \A n \in 0 .. N : n \in S
  <2>1. 0 \in S
    BY <1>1, <1>7
  <2>2. \A n \in 0 .. (N - 1) : n \in S => n + 1 \in S
    BY <1>1, <1>8
  <2> HIDE DEF S
  <2>3. QED
    BY <1>1, <2>1, <2>2, UpTo
<1>10. Merging(d, o, max, N)
  <2>1. N \in 0 .. N
    BY <1>1
  <2>2. QED
    BY <1>2, <1>5, <1>9, <2>1
<1>11. Good(d) /\ Valid(d)
  BY <1>10, GoodStrings DEF Merging
<1>12. Registers(d) = max
  <2>1. Registers(d) \in [Index -> Count]
    BY <1>11, RegistersType
  <2>2. \A k \in Index : k < N
    BY HllAssumption DEF Index
  <2>3. \A k \in Index : Registers(d)[k] = max[k]
    BY <1>10, <2>2 DEF Merging
  <2>4. QED
    BY <2>1, <2>3
<1>13. QED
  BY <1>11, <1>12 DEF d

\* pfmerge of valid strings leaves their union, unmarked caches never.
LEMMA PfmergeIs ==
    ASSUME NEW dest, NEW srcs, \A o \in srcs \cup {dest} : Good(o)
    PROVE  LET all == srcs \cup {dest}
               r == pfmerge(dest, srcs)
           IN  IF \A o \in all : Valid(o)
               THEN /\ r.ret = OK /\ Good(r.o) /\ Valid(r.o) /\ r.o.card = Invalid
                    /\ Registers(r.o) = MaxRegisters(all)
               ELSE r = Result(dest, ERR)
<1> DEFINE all == srcs \cup {dest}
           r == pfmerge(dest, srcs)
           max == MaxRegisters(all)
<1>1. dest \in all /\ \A o \in all : Good(o)
  OBVIOUS
<1>2. CASE \E o \in all : ~Valid(o)
  <2>1. r = Result(dest, ERR)
    BY <1>2 DEF pfmerge
  <2>2. QED
    BY <1>2, <2>1
<1>3. ASSUME \A o \in all : Valid(o)
      PROVE  /\ r.ret = OK /\ Good(r.o) /\ Valid(r.o) /\ r.o.card = Invalid
             /\ Registers(r.o) = max
  <2>1. max \in [Index -> Count] /\ \A i \in Index : max[i] >= Registers(dest)[i]
    <3> HIDE DEF all
    <3>1. all # {}
      BY <1>1
    <3>2. QED
      BY <1>1, <1>3, <3>1, MaxRegistersIs
  <2>2. CASE \E o \in all : o.encoding = "dense"
    <3> DEFINE d == Dense(max, dest.card)
    <3>1. r.o = InvalidateCache(d) /\ r.ret = OK
      BY <1>3, <2>2 DEF pfmerge, Result
    <3>2. dest.card \in Cards
      BY <1>1, SparseFields, DenseFields DEF Good
    <3> HIDE DEF max
    <3>3. d \in DenseStr /\ d.registers = max
      BY <2>1, <3>2 DEF Dense, DenseStr
    <3> HIDE DEF d, r
    <3>4. Good(d) /\ Valid(d) /\ Registers(d) = max
      BY <3>3, DenseFields DEF Good
    <3>5. QED
      BY <3>1, <3>4, InvalidateIs
  <2>3. CASE ~\E o \in all : o.encoding = "dense"
    <3> DEFINE d == SetAll(dest, max)
    <3>1. r.o = InvalidateCache(d) /\ r.ret = OK
      BY <1>3, <2>3 DEF pfmerge, Result
    <3> HIDE DEF max
    <3>2. Good(dest) /\ Valid(dest)
      BY <1>1, <1>3
    <3>3. Good(d) /\ Valid(d) /\ Registers(d) = max
      BY <2>1, <3>2, SetAllIs
    <3> HIDE DEF d, r
    <3>4. QED
      BY <3>1, <3>3, InvalidateIs
  <2>4. QED
    BY <2>2, <2>3
<1>4. QED
  BY <1>2, <1>3

-----------------------------------------------------------------------------
(* The other commands. *)

\* A histogram counts registers.
LEMMA HistoType ==
    ASSUME NEW reg
    PROVE  Histo(reg) \in [Count -> 0 .. HLL_REGISTERS] /\ Histo(reg) \in Cards
<1>1. ASSUME NEW v \in Count
      PROVE  Cardinality({i \in Index : reg[i] = v}) \in 0 .. HLL_REGISTERS
  <2> DEFINE T == {i \in Index : reg[i] = v}
             N == HLL_REGISTERS
  <2>1. N \in Nat /\ 0 \in Int /\ N - 1 \in Int
    BY HllAssumption
  <2>2. IsFiniteSet(Index) /\ Cardinality(Index) = N
    <3>1. IsFiniteSet(0 .. (N - 1)) /\ Cardinality(0 .. (N - 1)) = IF 0 > N - 1 THEN 0 ELSE (N - 1) - 0 + 1
      BY <2>1, FS_Interval
    <3>2. QED
      BY <2>1, <3>1 DEF Index
  <2>3. T \subseteq Index
    OBVIOUS
  <2> HIDE DEF T, N
  <2>4. IsFiniteSet(T) /\ Cardinality(T) <= Cardinality(Index)
    BY <2>2, <2>3, FS_Subset
  <2>5. Cardinality(T) \in Nat
    BY <2>4, FS_CardinalityType
  <2>6. QED
    BY <2>1, <2>2, <2>4, <2>5 DEF T, N
<1>2. Histo(reg) \in [Count -> 0 .. HLL_REGISTERS]
  BY <1>1 DEF Histo
<1>3. QED
  BY <1>2 DEF Cards

\* The code has the header's bytes at least.
LEMMA SizeAtLeast ==
    ASSUME NEW ops \in Seq(Opcode)
    PROVE  sdslen(ops) >= HLL_HDR_SIZE
<1>1. HLL_HDR_SIZE \in Nat
  BY HllAssumption
<1>2. sdslen(<<>>) >= HLL_HDR_SIZE
  BY <1>1, NoOpcodes
<1>3. ASSUME NEW s \in Seq(Opcode), NEW c \in Opcode, sdslen(s) >= HLL_HDR_SIZE
      PROVE  sdslen(Append(s, c)) >= HLL_HDR_SIZE
  <2>1. sdslen(Append(s, c)) = sdslen(s) + Bytes(c) /\ sdslen(s) \in Nat
    BY SizeSnoc
  <2>2. Bytes(c) \in Nat
    BY OpcodeType
  <2>3. QED
    BY <1>1, <1>3, <2>1, <2>2
<1> DEFINE P == {s \in Seq(Opcode) : sdslen(s) >= HLL_HDR_SIZE}
<1>4. P = Seq(Opcode)
  <2>1. P \in SUBSET Seq(Opcode) /\ <<>> \in P
    BY <1>2
  <2>2. ASSUME NEW s \in P, NEW c \in Opcode PROVE Append(s, c) \in P
    <3>1. s \in Seq(Opcode) /\ Append(s, c) \in Seq(Opcode)
      OBVIOUS
    <3>2. QED
      BY <1>3, <3>1
  <2> HIDE DEF P
  <2>3. QED
    BY <2>1, <2>2, SeqSet
<1>5. QED
  BY <1>4

\* Some opcodes cover some register.
LEMMA SomeCovered ==
    ASSUME NEW ops \in Seq(Opcode), ops # <<>>
    PROVE  Len(Walk(ops)) >= 1
<1>1. PICK s \in Seq(Opcode), c \in Opcode : ops = Append(s, c)
  BY SequenceEmptyOrAppend
<1>2. Walk(ops) = Walk(s) \o Run(c)
  BY <1>1, WalkSnoc
<1>3. Walk(s) \in Seq(Nat) /\ Run(c) \in Seq(Nat) /\ Len(Run(c)) = c.len /\ c.len \in Nat \ {0}
  BY WalkType, OpcodeType, Zenon
<1>4. Joined(Walk(s), Run(c))
  BY <1>3, Join, Zenon
<1>5. QED
  BY <1>2, <1>3, <1>4 DEF Joined

\* A code that has lost its end is as tight as before and covers fewer registers.
LEMMA PrefixIs ==
    ASSUME NEW o \in SparseStr, Tight(o), NEW n \in 0 .. Len(o.ops)
    PROVE  LET ops == SubSeq(o.ops, 1, n)
               t == [o EXCEPT !.ops = ops, !.alloc = sdslen(ops)]
           IN  /\ t \in SparseStr /\ Tight(t) /\ t.card = o.card
               /\ Valid(t) => Valid(o) /\ Registers(t) = Registers(o)
<1> DEFINE all == o.ops
           ops == SubSeq(all, 1, n)
           rest == SubSeq(all, n + 1, Len(all))
           t == [o EXCEPT !.ops = ops, !.alloc = sdslen(ops)]
<1>1. all \in Seq(Opcode) /\ o.card \in Cards
  BY SparseFields
<1>2. /\ ops \in Seq(Opcode) /\ Len(ops) = n /\ \A k \in 1 .. n : ops[k] = all[k]
  BY <1>1
<1>3. /\ rest \in Seq(Opcode) /\ Len(rest) = Len(all) - n
      /\ \A k \in 1 .. (Len(all) - n) : rest[k] = all[n + k]
  BY <1>1
<1>4. all = ops \o rest
  <2>1. n \in Nat /\ Len(all) \in Nat /\ n <= Len(all)
    BY <1>1
  <2> HIDE DEF ops, rest, all
  <2>2. ops \o rest \in Seq(Opcode) /\ Joined(ops, rest)
    BY <1>2, <1>3, Join, Zenon
  <2>3. Len(ops \o rest) = Len(all)
    BY <1>2, <1>3, <2>1, <2>2 DEF Joined
  <2>4. ASSUME NEW k \in 1 .. Len(all) PROVE all[k] = (ops \o rest)[k]
    <3>1. CASE k <= n
      BY <1>2, <2>1, <2>2, <3>1 DEF Joined
    <3>2. CASE k > n
      <4>1. k - n \in 1 .. (Len(all) - n) /\ n + (k - n) = k
        BY <2>1, <3>2
      <4>2. (ops \o rest)[n + (k - n)] = rest[k - n]
        BY <1>2, <1>3, <2>2, <4>1 DEF Joined
      <4>3. QED
        BY <1>3, <4>1, <4>2
    <3>3. k <= n \/ k > n
      BY <2>1
    <3>4. QED
      BY <3>1, <3>2, <3>3, Zenon
  <2>5. QED
    BY <1>1, <2>2, <2>3, <2>4, SameElements
<1> DEFINE size == sdslen(ops)
<1>5. size \in Nat
  BY <1>2, WalkType
<1>6. t \in SparseStr /\ t.ops = ops /\ t.alloc = size /\ t.card = o.card
  <2> HIDE DEF ops, size
  <2>1. QED
    BY <1>2, <1>5 DEF SparseStr, size
<1> HIDE DEF ops, rest, t, all
<1>7. Walk(all) = Walk(ops) \o Walk(rest) /\ sdslen(all) = sdslen(ops) + sdslen(rest) - HLL_HDR_SIZE
  BY <1>2, <1>3, <1>4, WalkConcat
<1>8. sdslen(ops) <= sdslen(all)
  <2> DEFINE x == sdslen(rest)
             y == sdslen(all)
  <2>1. x \in Nat /\ x >= HLL_HDR_SIZE /\ HLL_HDR_SIZE \in Nat /\ y = size + x - HLL_HDR_SIZE
    BY <1>3, <1>7, WalkType, SizeAtLeast, HllAssumption
  <2> HIDE DEF x, y, size
  <2>2. size <= y
    BY <1>5, <2>1
  <2>3. QED
    BY <2>2 DEF size, y
<1>9. Len(Walk(all)) = Len(Walk(ops)) + Len(Walk(rest)) /\ Len(Walk(ops)) \in Nat /\ Len(Walk(rest)) \in Nat
  <2>1. Walk(ops) \in Seq(Nat) /\ Walk(rest) \in Seq(Nat)
    BY <1>2, <1>3, WalkType
  <2>2. Joined(Walk(ops), Walk(rest))
    BY <2>1, Join, Zenon
  <2>3. QED
    BY <1>7, <2>2 DEF Joined
<1>10. Total(ops) = Len(Walk(ops)) /\ Total(all) = Len(Walk(all))
  BY <1>1, <1>2, CoveredIs
<1>11. Len(Walk(all)) <= HLL_REGISTERS
  BY <1>10 DEF Tight, all
<1>12. Total(ops) <= HLL_REGISTERS
  <2>1. HLL_REGISTERS \in Nat
    BY HllAssumption
  <2>2. QED
    BY <1>9, <1>10, <1>11, <2>1
<1>13. n \in Nat /\ Len(all) \in Nat /\ n <= Len(all)
  BY <1>1 DEF all
<1>14. Alternate(ops)
  <2>1. ASSUME NEW j \in 1 .. (n - 1) PROVE ops[j].op = "VAL" \/ ops[j + 1].op = "VAL"
    <3>1. j \in 1 .. n /\ j + 1 \in 1 .. n /\ j \in 1 .. (Len(all) - 1)
      BY <1>13
    <3>2. ops[j] = all[j] /\ ops[j + 1] = all[j + 1]
      BY <1>2, <3>1
    <3>3. QED
      BY <3>1, <3>2 DEF Tight, Alternate, all
  <2>2. QED
    BY <1>2, <2>1 DEF Alternate
<1>15. NoneMergeable(ops)
  <2>1. SUFFICES ASSUME NEW j \in Nat \ {0}, Mergeable(ops, j) PROVE FALSE
    BY DEF NoneMergeable
  <2>2. j \in 1 .. n /\ j + 1 \in 1 .. n /\ j < Len(all)
    BY <1>2, <1>13, <2>1 DEF Mergeable
  <2>3. ops[j] = all[j] /\ ops[j + 1] = all[j + 1]
    BY <1>2, <2>2
  <2>4. Mergeable(all, j)
    BY <2>1, <2>2, <2>3 DEF Mergeable
  <2>5. QED
    BY <2>4 DEF Tight, NoneMergeable, all
<1>16. size <= hll_sparse_max_bytes /\ size <= size
  <2>1. sdslen(all) <= hll_sparse_max_bytes /\ sdslen(all) \in Nat /\ hll_sparse_max_bytes \in Nat
    BY <1>1, WalkType, HllAssumption DEF Tight, all
  <2>2. QED
    BY <1>5, <1>8, <2>1
<1>17. Tight(t)
  BY <1>6, <1>12, <1>14, <1>15, <1>16 DEF Tight
<1>18. ASSUME Valid(t) PROVE Valid(o) /\ Registers(t) = Registers(o)
  <2>1. Len(Walk(ops)) = HLL_REGISTERS /\ Registers(t) = Decode(ops)
    BY <1>6, <1>18, SparseFields
  <2>2. Len(Walk(rest)) = 0
    BY <1>9, <1>11, <2>1, HllAssumption
  <2>3. rest = <<>>
    BY <1>3, <2>2, SomeCovered
  <2>4. ops = all
    BY <1>2, <1>4, <2>3, ConcatEmptySeq
  <2>5. QED
    BY <2>1, <2>4, SparseFields DEF all
<1>19. QED
  BY <1>6, <1>17, <1>18 DEF t, ops, all

\* A new string.
LEMMA CreateIs == Good(createHLLObject) /\ CacheFits(createHLLObject)
<1> DEFINE o == createHLLObject
           c == XZERO(HLL_REGISTERS)
           N == HLL_REGISTERS
<1>1. N \in Nat \ {0} /\ HLL_HDR_SIZE \in Nat /\ hll_sparse_max_bytes \in Nat /\ HLL_HDR_SIZE + 2 <= hll_sparse_max_bytes
  BY HllAssumption
<1>2. c \in Opcode /\ c.op = "XZERO" /\ c.len = N /\ c.val = 0
  BY <1>1 DEF XZERO, Opcode
<1> HIDE DEF c
<1>3. <<c>> \in Seq(Opcode) /\ Walk(<<c>>) = Run(c) /\ sdslen(<<c>>) = HLL_HDR_SIZE + 2
  BY <1>2, OneOpcode DEF Bytes
<1>4. Histo(Empty) \in Cards
  BY HistoType
<1>5. /\ o \in SparseStr /\ o.ops = <<c>> /\ o.alloc = HLL_HDR_SIZE + 2 /\ o.card = Histo(Empty)
  BY <1>1, <1>3, <1>4 DEF createHLLObject, SparseStr, c
<1> HIDE DEF o
<1>6. Len(<<c>>) = 1
  OBVIOUS
<1>7. Alternate(<<c>>)
  BY <1>6 DEF Alternate
<1>8. NoneMergeable(<<c>>)
  <2>1. \A j \in Nat \ {0} : ~(j < 1)
    OBVIOUS
  <2>2. QED
    BY <1>6, <2>1 DEF NoneMergeable, Mergeable
<1>9. Run(c) = Repeat(0, N) /\ Len(Run(c)) = N
  BY <1>1, <1>2, OpcodeType DEF Run, Repeat
<1>10. Total(<<c>>) = N
  BY <1>3, <1>9, CoveredIs
<1>11. Tight(o)
  BY <1>1, <1>3, <1>5, <1>7, <1>8, <1>10 DEF Tight
<1>12. Registers(o) = Empty
  <2>1. Registers(o) = Decode(<<c>>)
    BY <1>5, SparseFields
  <2>2. Decode(<<c>>) = [k \in Index |-> Run(c)[k + 1]]
    BY <1>3 DEF Decode, FromZero
  <2>3. \A k \in Index : Run(c)[k + 1] = 0
    <3>1. \A k \in Index : k + 1 \in 1 .. N
      BY <1>1 DEF Index
    <3>2. QED
      BY <1>2, <3>1 DEF Run
  <2>4. QED
    BY <2>1, <2>2, <2>3 DEF Empty
<1>13. QED
  BY <1>5, <1>11, <1>12 DEF o, Good, CacheFits

\* pfcount caches what it counts.
LEMMA PfcountIs ==
    ASSUME NEW o, Good(o)
    PROVE  LET t == pfcount(o).o IN
           Good(t) /\ (o.card # Invalid => t = o) /\ (CacheFits(o) => CacheFits(t))
<1> DEFINE t == pfcount(o).o
           k == Histo(Registers(o))
           new == [o EXCEPT !.card = k]
<1>1. CASE o.card # Invalid \/ ~Valid(o)
  <2>1. t = o
    BY <1>1 DEF pfcount, Result
  <2>2. QED
    BY <2>1
<1>2. CASE ~(o.card # Invalid \/ ~Valid(o))
  <2>1. t = new
    BY <1>2 DEF pfcount, Result
  <2>2. k \in Cards
    BY HistoType
  <2> HIDE DEF k
  <2>3. Good(new) /\ Valid(new) /\ Registers(new) = Registers(o) /\ new.card = k
    <3>1. CASE o \in DenseStr
      <4>1. new \in DenseStr /\ new.registers = o.registers /\ new.card = k
        BY <2>2, <3>1 DEF DenseStr
      <4> HIDE DEF new
      <4>2. QED
        BY <3>1, <4>1, DenseFields DEF Good
    <3>2. CASE o \in SparseStr /\ Tight(o)
      <4>1. new \in SparseStr /\ new.ops = o.ops /\ new.alloc = o.alloc /\ new.card = k
        BY <2>2, <3>2 DEF SparseStr
      <4> HIDE DEF new
      <4>2. Valid(new) /\ Registers(new) = Registers(o)
        BY <1>2, <3>2, <4>1, SparseFields
      <4>3. QED
        BY <3>2, <4>1, <4>2 DEF Good, Tight
    <3>3. QED
      BY <3>1, <3>2 DEF Good
  <2>4. CacheFits(new)
    BY <2>3 DEF CacheFits, k
  <2> HIDE DEF new, t
  <2>5. QED
    BY <1>2, <2>1, <2>3, <2>4 DEF t
<1>3. QED
  BY <1>1, <1>2

\* todense keeps the registers and the cached cardinality.
LEMMA TodenseIs ==
    ASSUME NEW o, Good(o), Valid(o)
    PROVE  LET t == hllSparseToDense(o) IN
           /\ Good(t) /\ Valid(t) /\ Registers(t) = Registers(o) /\ t.card = o.card
<1> DEFINE t == hllSparseToDense(o)
<1>1. CASE o \in DenseStr
  <2>1. t = o
    BY <1>1, DenseFields DEF hllSparseToDense
  <2>2. QED
    BY <2>1
<1>2. CASE o \in SparseStr
  <2>1. Registers(o) = Decode(o.ops) /\ o.encoding = "sparse" /\ o.card \in Cards
    BY <1>2, SparseFields
  <2>2. Decode(o.ops) \in [Index -> Count]
    BY <2>1, RegistersType
  <2>3. t \in DenseStr /\ t.registers = Decode(o.ops) /\ t.card = o.card
    BY <2>1, <2>2 DEF hllSparseToDense, Dense, DenseStr
  <2> HIDE DEF t
  <2>4. Valid(t) /\ Registers(t) = Registers(o)
    BY <2>1, <2>3, DenseFields
  <2>5. QED
    BY <2>3, <2>4 DEF t, Good
<1>3. QED
  BY <1>1, <1>2 DEF Good

-----------------------------------------------------------------------------
(* The specification. *)

\* The inductive invariant: every string is well-formed, and CacheExact.
IInv ==
    /\ torn \in [Handles -> BOOLEAN]
    /\ obj \in [Handles -> Strings \cup {Freed}]
    /\ CacheExact

\* What the invariant says of a live handle.
LEMMA LiveGood ==
    ASSUME IInv, NEW h \in Live
    PROVE  /\ h \in Handles /\ obj[h] \in Strings /\ Good(obj[h])
           /\ torn[h] \/ CacheFits(obj[h])
<1>1. h \in Handles /\ obj[h] # Freed
  BY DEF Live
<1>2. obj[h] \in Strings
  BY <1>1 DEF IInv
<1>3. QED
  BY <1>1, <1>2, GoodStrings DEF IInv, CacheExact

\* No handle has a string at first.
LEMMA InitInv == Init => IInv
<1> SUFFICES ASSUME Init PROVE IInv
  OBVIOUS
<1>1. Live = {}
  BY DEF Init, Live
<1>2. torn \in [Handles -> BOOLEAN] /\ obj \in [Handles -> Strings \cup {Freed}]
  BY DEF Init
<1>3. QED
  BY <1>1, <1>2 DEF IInv, CacheExact

\* A command puts a new string into one handle.
LEMMA PutKeeps ==
    ASSUME IInv, NEW h \in Handles, NEW o \in Strings \cup {Freed}, NEW b \in BOOLEAN,
           obj' = [obj EXCEPT ![h] = o], torn' = [torn EXCEPT ![h] = b],
           o = Freed \/ b \/ CacheFits(o)
    PROVE  IInv'
<1>1. torn' \in [Handles -> BOOLEAN]
  BY DEF IInv
<1>2. obj' \in [Handles -> Strings \cup {Freed}]
  BY DEF IInv
<1>3. ASSUME NEW g \in Handles, obj'[g] # Freed PROVE torn'[g] \/ CacheFits(obj'[g])
  <2>1. CASE g = h
    <3>1. obj'[g] = o /\ (b => torn'[g])
      BY <2>1 DEF IInv
    <3>2. QED
      BY <1>3, <3>1
  <2>2. CASE g # h
    <3>1. obj'[g] = obj[g] /\ (torn[g] => torn'[g])
      BY <2>2 DEF IInv
    <3>2. g \in Live
      BY <1>3, <3>1 DEF Live
    <3>3. QED
      BY <3>1, <3>2 DEF IInv, CacheExact
  <2>3. QED
    BY <2>1, <2>2
<1>4. CacheExact'
  BY <1>3 DEF CacheExact, Live, CacheFits, Valid, Registers
<1>5. QED
  BY <1>1, <1>2, <1>4 DEF IInv

\* The same for a command that leaves the history alone or clears it.
LEMMA SetKeeps ==
    ASSUME IInv, NEW h \in Handles, NEW o \in Strings \cup {Freed}, Set(h, o),
           o = Freed \/ torn[h] \/ CacheFits(o)
    PROVE  IInv'
<1> DEFINE b == o # Freed /\ o.card # Invalid /\ torn[h]
<1>1. obj' = [obj EXCEPT ![h] = o] /\ torn' = [torn EXCEPT ![h] = b]
  BY DEF Set
<1>2. b \in BOOLEAN
  BY Zenon
<1>3. o = Freed \/ b \/ CacheFits(o)
  BY Zenon DEF CacheFits
<1> HIDE DEF b
<1>4. QED
  BY <1>1, <1>2, <1>3, PutKeeps

\* pfadd preserves the invariant: only an error after a change leaves a stale cache.
LEMMA PfaddKeeps ==
    ASSUME IInv, NEW h \in Handles, Pfadd(h)
    PROVE  IInv'
<1>1. h \in Live
  BY DEF Pfadd
<1> DEFINE o == obj[h]
<1>2. PICK args \in Calls[h] :
        LET s == AddAll(o, args)
            r == Added(s)
        IN  /\ obj' = [obj EXCEPT ![h] = r.o]
            /\ torn' = [torn EXCEPT ![h] =
                            r.o.card # Invalid /\ (@ \/ (r.ret = ERR /\ s.updated))]
  BY DEF Pfadd
<1> DEFINE s == AddAll(o, args)
           r == Added(s)
           b == r.o.card # Invalid /\ (torn[h] \/ (r.ret = ERR /\ s.updated))
<1>3. obj' = [obj EXCEPT ![h] = r.o] /\ torn' = [torn EXCEPT ![h] = b]
  BY <1>2
<1>4. args \in Seq(Argument)
  BY HllAssumption DEF Argument
<1>5. Good(o) /\ (torn[h] \/ CacheFits(o))
  BY <1>1, LiveGood
<1> HIDE DEF o
<1>6. /\ Good(r.o) /\ (Valid(r.o) <=> Valid(o))
      /\ \/ r.ret = ERR /\ s.updated
         \/ r.o.card = Invalid
         \/ /\ r.o.card = o.card
            /\ Valid(o) => Registers(r.o) = Registers(o)
  BY <1>4, <1>5, PfaddIs
<1> HIDE DEF s, r
<1>7. r.o \in Strings \cup {Freed}
  BY <1>6, GoodStrings
<1>8. b \in BOOLEAN
  BY Zenon
<1>9. b \/ CacheFits(r.o)
  <2>1. CASE r.o.card = Invalid
    BY <2>1 DEF CacheFits
  <2>2. CASE r.o.card # Invalid /\ (torn[h] \/ (r.ret = ERR /\ s.updated))
    BY <2>2
  <2>3. CASE r.o.card # Invalid /\ CacheFits(o) /\ ~(r.ret = ERR /\ s.updated)
    BY <1>6, <2>3 DEF CacheFits
  <2>4. QED
    BY <1>5, <2>1, <2>2, <2>3, Zenon
<1> HIDE DEF b
<1>10. QED
  BY <1>3, <1>7, <1>8, <1>9, PutKeeps

\* pfmerge preserves the invariant: it marks the cache, or changes nothing.
LEMMA PfmergeKeeps ==
    ASSUME IInv, NEW h \in Handles, Pfmerge(h)
    PROVE  IInv'
<1> DEFINE dest == obj[h]
<1>1. h \in Live
  BY DEF Pfmerge
<1>2. PICK S \in Sources[h] : S \subseteq Live /\ Set(h, pfmerge(dest, {obj[g] : g \in S}).o)
  BY DEF Pfmerge
<1> DEFINE srcs == {obj[g] : g \in S}
           r == pfmerge(dest, srcs)
<1>3. Good(dest) /\ (torn[h] \/ CacheFits(dest))
  BY <1>1, LiveGood
<1>4. \A o \in srcs \cup {dest} : Good(o)
  BY <1>2, <1>3, LiveGood
<1>5. Set(h, r.o)
  BY <1>2
<1> HIDE DEF srcs, dest
<1>6. \/ Good(r.o) /\ r.o.card = Invalid
      \/ r = Result(dest, ERR)
  BY <1>4, PfmergeIs
<1> HIDE DEF r
<1>7. Good(r.o) /\ (torn[h] \/ CacheFits(r.o))
  BY <1>3, <1>6 DEF CacheFits, Result
<1>8. r.o \in Strings \cup {Freed}
  BY <1>7, GoodStrings
<1>9. QED
  BY <1>5, <1>7, <1>8, SetKeeps

\* load preserves the invariant: a code that lost its end is not valid.
LEMMA LoadKeeps ==
    ASSUME IInv, NEW h \in Handles, Load(h)
    PROVE  IInv'
<1> DEFINE o == obj[h]
<1>1. h \in Live /\ o \in Strings /\ Good(o) /\ (torn[h] \/ CacheFits(o))
  <2>1. h \in Live
    BY DEF Load
  <2>2. QED
    BY <2>1, LiveGood
<1>2. CASE o.encoding = "dense" /\ Set(h, o)
  <2> HIDE DEF o
  <2>1. o \in Strings \cup {Freed}
    BY <1>1
  <2>2. QED
    BY <1>1, <1>2, <2>1, SetKeeps
<1>3. CASE /\ o.encoding = "sparse"
           /\ \E n \in (IF h \in Lossy THEN 0 ELSE Len(o.ops)) .. Len(o.ops) :
                LET ops == SubSeq(o.ops, 1, n) IN
                Set(h, [o EXCEPT !.ops = ops, !.alloc = sdslen(ops)])
  <2>1. o \in SparseStr /\ Tight(o)
    BY <1>1, <1>3, DenseFields DEF Good
  <2>2. o.ops \in Seq(Opcode)
    BY <2>1, SparseFields
  <2>3. PICK n \in 0 .. Len(o.ops) :
            LET ops == SubSeq(o.ops, 1, n) IN
            Set(h, [o EXCEPT !.ops = ops, !.alloc = sdslen(ops)])
    <3>1. PICK n \in (IF h \in Lossy THEN 0 ELSE Len(o.ops)) .. Len(o.ops) :
            LET ops == SubSeq(o.ops, 1, n) IN
            Set(h, [o EXCEPT !.ops = ops, !.alloc = sdslen(ops)])
      BY <1>3
    <3>2. n \in 0 .. Len(o.ops)
      BY <2>2
    <3>3. QED
      BY <3>1, <3>2
  <2> DEFINE t == [o EXCEPT !.ops = SubSeq(o.ops, 1, n), !.alloc = sdslen(SubSeq(o.ops, 1, n))]
  <2>4. Set(h, t)
    BY <2>3
  <2> HIDE DEF o
  <2>5. /\ t \in SparseStr /\ Tight(t) /\ t.card = o.card
        /\ Valid(t) => Valid(o) /\ Registers(t) = Registers(o)
    BY <2>1, PrefixIs
  <2> HIDE DEF t
  <2>6. t \in Strings \cup {Freed}
    BY <2>5 DEF Strings
  <2>7. torn[h] \/ CacheFits(t)
    BY <1>1, <2>5 DEF CacheFits
  <2>8. QED
    BY <2>4, <2>6, <2>7, SetKeeps
<1>4. QED
  BY <1>2, <1>3 DEF Load

\* Every command preserves the invariant.
LEMMA NextInv == IInv /\ [Next]_vars => IInv'
<1> SUFFICES ASSUME IInv, [Next]_vars PROVE IInv'
  OBVIOUS
<1>1. CASE UNCHANGED vars
  BY <1>1 DEF vars, IInv, CacheExact, Live, CacheFits, Valid, Registers
<1>2. ASSUME NEW h \in Handles, New(h) PROVE IInv'
  <2>1. createHLLObject \in Strings \cup {Freed} /\ CacheFits(createHLLObject)
    BY CreateIs, GoodStrings
  <2>2. QED
    BY <1>2, <2>1, SetKeeps DEF New
<1>3. ASSUME NEW h \in Handles, Free(h) PROVE IInv'
  BY <1>3, SetKeeps DEF Free
<1>4. ASSUME NEW h \in Handles, Pfadd(h) PROVE IInv'
  BY <1>4, PfaddKeeps
<1>5. ASSUME NEW h \in Handles, Pfcount(h) PROVE IInv'
  <2> DEFINE t == pfcount(obj[h]).o
  <2>1. h \in Live /\ Set(h, t)
    BY <1>5 DEF Pfcount
  <2>2. Good(t) /\ (torn[h] \/ CacheFits(t))
    BY <2>1, LiveGood, PfcountIs
  <2> HIDE DEF t
  <2>3. t \in Strings \cup {Freed}
    BY <2>2, GoodStrings
  <2>4. QED
    BY <2>1, <2>2, <2>3, SetKeeps
<1>6. ASSUME NEW h \in Handles, Pfmerge(h) PROVE IInv'
  BY <1>6, PfmergeKeeps
<1>7. ASSUME NEW h \in Handles, Todense(h) PROVE IInv'
  <2> DEFINE o == obj[h]
             t == hllSparseToDense(o)
  <2>1. h \in Live /\ Valid(o) /\ Set(h, t)
    BY <1>7 DEF Todense
  <2>2. Good(o) /\ (torn[h] \/ CacheFits(o))
    BY <2>1, LiveGood
  <2> HIDE DEF o
  <2>3. /\ Good(t) /\ Valid(t) /\ Registers(t) = Registers(o) /\ t.card = o.card
    BY <2>1, <2>2, TodenseIs
  <2> HIDE DEF t
  <2>4. torn[h] \/ CacheFits(t)
    BY <2>1, <2>2, <2>3 DEF CacheFits
  <2>5. t \in Strings \cup {Freed}
    BY <2>3, GoodStrings
  <2>6. QED
    BY <2>1, <2>4, <2>5, SetKeeps
<1>8. ASSUME NEW h \in Handles, Load(h) PROVE IInv'
  BY <1>8, LoadKeeps
<1>9. QED
  BY <1>1, <1>2, <1>3, <1>4, <1>5, <1>6, <1>7, <1>8 DEF Next

\* The invariant holds throughout.
LEMMA InvariantHolds == Spec => []IInv
BY InitInv, NextInv, PTL DEF Spec

\* Every register and every opcode stays within its bit field (hyperloglog.c:108-124),
\* for any number of registers and any limits.
THEOREM TypeCorrect == Spec => []TypeOK
<1>1. IInv => TypeOK
  <2> SUFFICES ASSUME IInv PROVE TypeOK
    OBVIOUS
  <2>1. ASSUME NEW h \in Live
        PROVE  /\ obj[h].card = Invalid \/ obj[h].card \in [Count -> 0 .. HLL_REGISTERS]
               /\ \/ obj[h].encoding = "dense" /\ obj[h].registers \in [Index -> Count]
                  \/ obj[h].encoding = "sparse" /\ \A i \in DOMAIN obj[h].ops : obj[h].ops[i] \in Opcode
    <3> DEFINE o == obj[h]
    <3>1. Good(o)
      BY <2>1, LiveGood
    <3> HIDE DEF o
    <3>2. CASE o \in DenseStr
      BY <3>2, DenseFields DEF Cards, o
    <3>3. CASE o \in SparseStr
      <4>1. o.encoding = "sparse" /\ o.ops \in Seq(Opcode) /\ o.card \in Cards
        BY <3>3, SparseFields
      <4>2. \A i \in DOMAIN o.ops : o.ops[i] \in Opcode
        BY <4>1
      <4>3. QED
        BY <4>1, <4>2 DEF Cards, o
    <3>4. QED
      BY <3>1, <3>2, <3>3 DEF Good
  <2>2. QED
    BY <2>1 DEF TypeOK, IInv
<1>2. QED
  BY <1>1, InvariantHolds, PTL

\* The in-place edits of hllSparseSet keep every sparse code within its limit and its
\* allocation, with no two zero runs next to each other and no two VALs that fit one:
\* five turns of the merge loop are always enough (hyperloglog.c:890-925).
THEOREM CodeStaysTight == Spec => []OpcodesTight
<1>1. IInv => OpcodesTight
  <2> SUFFICES ASSUME IInv, NEW h \in Live, obj[h].encoding = "sparse"
               PROVE  LET ops == obj[h].ops IN
                      /\ sdslen(ops) <= hll_sparse_max_bytes /\ sdslen(ops) <= obj[h].alloc
                      /\ \A i \in 1 .. (Len(ops) - 1) :
                          /\ ~Mergeable(ops, i)
                          /\ ops[i].op = "VAL" \/ ops[i + 1].op = "VAL"
    BY DEF OpcodesTight
  <2> DEFINE o == obj[h]
  <2>1. Good(o)
    BY LiveGood
  <2>2. o \in SparseStr /\ Tight(o)
    BY <2>1, DenseFields DEF Good
  <2> HIDE DEF o
  <2>3. \A i \in 1 .. (Len(o.ops) - 1) : ~Mergeable(o.ops, i)
    <3>1. \A i \in 1 .. (Len(o.ops) - 1) : i \in Nat \ {0}
      OBVIOUS
    <3>2. QED
      BY <2>2, <3>1 DEF Tight, NoneMergeable
  <2>4. QED
    BY <2>2, <2>3 DEF Tight, Alternate, o
<1>2. QED
  BY <1>1, InvariantHolds, PTL

\* pfadd leaves exactly the registers its elements imply, replies 1 exactly when one of
\* them changed and fails none of hllSparseSet's assertions, for every argument list and
\* every string the commands can make.
THEOREM PfaddCorrect == Spec => []PfaddExact
<1>1. IInv => PfaddExact
  <2> SUFFICES ASSUME IInv, NEW h \in Live, Valid(obj[h]), NEW args \in Calls[h]
               PROVE  LET before == Registers(obj[h])
                          r == pfadd(obj[h], args)
                          after == Raised(before, Applied(args))
                      IN  /\ Valid(r.o) /\ Registers(r.o) = after
                          /\ r.ret = IF Bad \in ToSet(args) THEN ERR
                                     ELSE IF before = after THEN 0 ELSE 1
    BY DEF PfaddExact
  <2> DEFINE o == obj[h]
             r == pfadd(o, args)
  <2>1. Good(o) /\ h \in Handles
    BY LiveGood
  <2>2. args \in Seq(Argument)
    BY <2>1, HllAssumption DEF Argument
  <2>3. Valid(o)
    OBVIOUS
  <2> HIDE DEF o
  <2>4. r = Added(AddAll(o, args))
    BY DEF pfadd
  <2>5. /\ Valid(r.o) /\ Registers(r.o) = Raised(Registers(o), Applied(args))
        /\ r.ret = IF Bad \in ToSet(args) THEN ERR
                   ELSE IF Registers(o) = Registers(r.o) THEN 0 ELSE 1
    BY <2>1, <2>2, <2>3, <2>4, PfaddIs
  <2> HIDE DEF r
  <2>6. QED
    BY <2>5 DEF r, o
<1>2. QED
  BY <1>1, InvariantHolds, PTL

\* pfmerge leaves the union of its operands, whichever are dense and wherever the
\* destination is promoted on the way, and pfcount agrees with it.
THEOREM PfmergeCorrect == Spec => []PfmergeExact
<1>1. IInv => PfmergeExact
  <2> SUFFICES ASSUME IInv, NEW h \in Live, NEW S \in Sources[h], S \subseteq Live
               PROVE  LET operands == {obj[g] : g \in S}
                          r == pfmerge(obj[h], operands)
                      IN  IF \A o \in operands \cup {obj[h]} : Valid(o)
                          THEN /\ r.ret = OK /\ Valid(r.o) /\ r.o.card = Invalid
                               /\ Registers(r.o) = MaxRegisters(operands \cup {obj[h]})
                               /\ pfcount(r.o).ret = pfcountUnion(operands \cup {obj[h]})
                          ELSE r = Result(obj[h], ERR)
    BY DEF PfmergeExact
  <2> DEFINE dest == obj[h]
             srcs == {obj[g] : g \in S}
             all == srcs \cup {dest}
             r == pfmerge(dest, srcs)
  <2>1. \A o \in all : Good(o)
    BY LiveGood
  <2> HIDE DEF dest, srcs
  <2>2. IF \A o \in all : Valid(o)
        THEN /\ r.ret = OK /\ Good(r.o) /\ Valid(r.o) /\ r.o.card = Invalid
             /\ Registers(r.o) = MaxRegisters(all)
        ELSE r = Result(dest, ERR)
    BY <2>1, PfmergeIs
  <2> HIDE DEF r, all
  <2>3. ASSUME \A o \in all : Valid(o) PROVE pfcount(r.o).ret = pfcountUnion(all)
    <3>1. pfcountUnion(all) = Histo(MaxRegisters(all))
      BY <2>3 DEF pfcountUnion
    <3>2. pfcount(r.o).ret = Histo(Registers(r.o))
      BY <2>2, <2>3 DEF pfcount, Result
    <3>3. QED
      BY <2>2, <2>3, <3>1, <3>2
  <2>4. QED
    BY <2>2, <2>3 DEF r, all, srcs, dest
<1>2. QED
  BY <1>1, InvariantHolds, PTL

\* A cached cardinality that is not marked is the one of the registers, unless an error
\* ended a pfadd after it had changed registers (hll.c's pfadd loop).
THEOREM CacheCorrect == Spec => []CacheExact
<1>1. IInv => CacheExact
  BY DEF IInv
<1>2. QED
  BY <1>1, InvariantHolds, PTL
=============================================================================
