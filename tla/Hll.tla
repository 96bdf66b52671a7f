-------------------------------- MODULE Hll ---------------------------------
(***************************************************************************)
(* redislib's HyperLogLog: facade/hll.c over kernel/hyperloglog.c.         *)
(*                                                                         *)
(* A handle owns a string: a header with the encoding and the cached       *)
(* cardinality, then either the registers themselves (dense) or a run      *)
(* length code of them (sparse).  A sparse string is edited in place,      *)
(* opcode by opcode, and promoted to dense when a value or the size does   *)
(* not fit; nothing turns it back.                                         *)
(*                                                                         *)
(* An element is what hllPatLen() makes of it: a register index and a      *)
(* count.  The estimate hllCount() computes depends on the registers only  *)
(* through their histogram, so the histogram stands for the cardinality    *)
(* here; an empty one estimates 0, the value a new header caches.  The     *)
(* 6-bit packing of dense registers and the SIMD variants are left out.    *)
(* The allocator gives exactly what is asked for.                          *)
(***************************************************************************)
EXTENDS Integers, Sequences, FiniteSets, SequencesExt, FiniteSetsExt

CONSTANTS
    Handles,
    Calls,                      \* argument lists of pfadd
    Sources,                    \* operand lists of pfmerge, as sets of handles
    Lossy,                      \* handles whose dumps may lose their end
    Bad,                        \* an argument that is no string or number
    Freed,                      \* no handle, or one released with free()
    Invalid,                    \* the cached cardinality is marked unusable
    HLL_REGISTERS,
    HLL_Q,                      \* hash bits left for the run of zeroes
    HLL_SPARSE_ZERO_MAX_LEN,
    HLL_SPARSE_VAL_MAX_LEN,
    HLL_SPARSE_VAL_MAX_VALUE,
    HLL_HDR_SIZE,
    hll_sparse_max_bytes

Index == 0 .. (HLL_REGISTERS - 1)
Count == 0 .. (HLL_Q + 1)

\* hllPatLen: any element of the stream.
Element == Index \X (1 .. (HLL_Q + 1))

ASSUME HllAssumption ==
    /\ HLL_REGISTERS \in Nat \ {0} /\ HLL_Q \in Nat
    /\ HLL_SPARSE_ZERO_MAX_LEN \in Nat \ {0}
    /\ HLL_SPARSE_VAL_MAX_LEN \in Nat \ {0}
    /\ HLL_SPARSE_VAL_MAX_VALUE \in 1 .. (HLL_Q + 1)
    /\ HLL_HDR_SIZE \in Nat
    /\ hll_sparse_max_bytes \in Nat /\ HLL_HDR_SIZE + 2 <= hll_sparse_max_bytes
    /\ \A h \in Handles : /\ Calls[h] \subseteq Seq(Element \cup {Bad})
                          /\ Sources[h] \subseteq SUBSET Handles

VARIABLES
    obj,    \* each handle's string
    torn    \* history: an error ended a pfadd that had changed registers

vars == <<obj, torn>>

-----------------------------------------------------------------------------
(* The sparse code. *)

ZERO(n) == [op |-> "ZERO", len |-> n, val |-> 0]
XZERO(n) == [op |-> "XZERO", len |-> n, val |-> 0]
VAL(v, n) == [op |-> "VAL", len |-> n, val |-> v]

\* Registers the first n opcodes cover, and all of them.
Covered(ops, n) == FoldLeft(LAMBDA s, c : s + c.len, 0, SubSeq(ops, 1, n))
Total(ops) == Covered(ops, Len(ops))

\* Bytes of the string.
sdslen(ops) ==
    FoldLeft(LAMBDA s, c : s + (IF c.op = "XZERO" THEN 2 ELSE 1), HLL_HDR_SIZE, ops)

\* The opcode that covers a register.
Covers(ops, i, index) == Covered(ops, i - 1) <= index /\ index < Covered(ops, i)

\* What a walk over valid opcodes reads.
Walk(ops) == FoldLeft(LAMBDA s, c : s \o [k \in 1 .. c.len |-> c.val], <<>>, ops)
FromZero(s) == [index \in Index |-> s[index + 1]]
Decode(ops) == FromZero(Walk(ops))

\* A run of zeroes, in the shorter opcode that holds it.
Zeroes(n) ==
    IF n = 0 THEN <<>>
    ELSE IF n > HLL_SPARSE_ZERO_MAX_LEN THEN <<XZERO(n)>> ELSE <<ZERO(n)>>

Vals(v, n) == IF n = 0 THEN <<>> ELSE <<VAL(v, n)>>

\* Mutant of Split: the run after the register is one too long.
SplitLong(c, before, count) ==
    LET after == c.len - before IN
    IF c.op = "VAL"
    THEN Vals(c.val, before) \o <<VAL(count, 1)>> \o Vals(c.val, after)
    ELSE Zeroes(before) \o <<VAL(count, 1)>> \o Zeroes(after)

\* Steps B, C and D of hllSparseSet: the opcodes that replace opcode c.
Split(c, before, count) ==
    LET after == c.len - before - 1 IN
    IF c.op = "VAL"
    THEN Vals(c.val, before) \o <<VAL(count, 1)>> \o Vals(c.val, after)
    ELSE Zeroes(before) \o <<VAL(count, 1)>> \o Zeroes(after)

\* Mutant of Mergeable: the length limit of a VAL is forgotten.
MergeableAny(ops, i) ==
    /\ i < Len(ops)
    /\ ops[i].op = "VAL" /\ ops[i + 1].op = "VAL"
    /\ ops[i].val = ops[i + 1].val

\* Two adjacent VALs that fit one.
Mergeable(ops, i) ==
    /\ i < Len(ops)
    /\ ops[i].op = "VAL" /\ ops[i + 1].op = "VAL"
    /\ ops[i].val = ops[i + 1].val
    /\ ops[i].len + ops[i + 1].len <= HLL_SPARSE_VAL_MAX_LEN

MergeAt(ops, i) ==
    ReplaceAt(RemoveAt(ops, i), i, VAL(ops[i].val, ops[i].len + ops[i + 1].len))

\* One turn of the merge loop; s.p is the opcode it looks at.
MergeStep(s) ==
    IF Mergeable(s.ops, s.p) THEN [s EXCEPT !.ops = MergeAt(s.ops, s.p)]
    ELSE [s EXCEPT !.p = @ + 1]

\* Mutant of MergeVals: the scan starts at the edited opcode.
MergeValsLate(ops, i) ==
    FoldLeft(LAMBDA s, k : MergeStep(s), [ops |-> ops, p |-> i], <<1, 2, 3, 4, 5>>).ops

\* Step 4: up to five turns from the opcode before the edited one.
MergeVals(ops, i) ==
    FoldLeft(LAMBDA s, k : MergeStep(s), [ops |-> ops, p |-> IF i > 1 THEN i - 1 ELSE 1],
             <<1, 2, 3, 4, 5>>).ops

-----------------------------------------------------------------------------
(* Strings. *)

\* The register histogram: all of the registers hllCount() looks at.
Histo(reg) == [v \in Count |-> Cardinality({i \in Index : reg[i] = v})]

Empty == [i \in Index |-> 0]

\* createHLLObject: one XZERO, cached cardinality 0.
createHLLObject ==
    [encoding |-> "sparse", ops |-> <<XZERO(HLL_REGISTERS)>>,
     alloc |-> HLL_HDR_SIZE + 2, card |-> Histo(Empty)]

Dense(reg, card) == [encoding |-> "dense", registers |-> reg, card |-> card]

\* The check at the end of every walk: the opcodes cover all registers.
Valid(o) == o.encoding = "sparse" => Total(o.ops) = HLL_REGISTERS

Registers(o) == IF o.encoding = "dense" THEN o.registers ELSE Decode(o.ops)

\* Mutant of InvalidateCache: the mark is not set.
KeepCache(o) == o

\* HLL_INVALIDATE_CACHE
InvalidateCache(o) == [o EXCEPT !.card = Invalid]

\* What a function leaves in the string, and returns.  A command replies OK or raises an
\* error; a failed assertion ends the process.
OK == 1
ERR == -1
ABORT == -2
Result(o, ret) == [o |-> o, ret |-> ret]

hllDenseSet(o, index, count) ==
    IF count > o.registers[index]
    THEN Result([o EXCEPT !.registers[index] = count], 1)
    ELSE Result(o, 0)

\* The header with its cached cardinality is copied.
hllSparseToDense(o) ==
    IF o.encoding = "dense" THEN o ELSE Dense(Decode(o.ops), o.card)

\* The end of hllSparseSet, and its assertion that the register changed.
Promoted(r) == IF r.ret = 1 THEN r ELSE Result(r.o, ABORT)
Promote(o, index, count) ==
    IF ~Valid(o) THEN Result(o, ERR)
    ELSE Promoted(hllDenseSet(hllSparseToDense(o), index, count))

\* Room for three bytes, doubled below 300 bytes, up to the limit.
GreedyLen(len) ==
    LET newlen == len + 3 + (IF len + 3 < 300 THEN len + 3 ELSE 300) IN
    IF newlen > hll_sparse_max_bytes THEN hll_sparse_max_bytes ELSE newlen

MakeRoom(o) ==
    IF o.alloc < hll_sparse_max_bytes /\ o.alloc - sdslen(o.ops) < 3
    THEN [o EXCEPT !.alloc = GreedyLen(sdslen(o.ops))]
    ELSE o

\* Step 3 and 4: seq replaces opcode i, if it fits the limit and the string.
Replace(o, i, seq, index, count) ==
    LET ops == SubSeq(o.ops, 1, i - 1) \o seq \o SubSeq(o.ops, i + 1, Len(o.ops))
        grown == sdslen(ops) > sdslen(o.ops)
    IN  IF grown /\ sdslen(ops) > hll_sparse_max_bytes THEN Promote(o, index, count)
        ELSE IF sdslen(ops) > o.alloc THEN Result(o, ABORT)
        ELSE Result(InvalidateCache([o EXCEPT !.ops = MergeVals(ops, i)]), 1)

\* Steps 2 and 3, at opcode i that covers the register.
EditAt(o, i, index, count) ==
    IF o.ops[i].val >= count THEN Result(o, 0)
    ELSE Replace(o, i, Split(o.ops[i], index - Covered(o.ops, i - 1), count), index, count)

hllSparseSet(o, index, count) ==
    IF count > HLL_SPARSE_VAL_MAX_VALUE THEN Promote(o, index, count)
    ELSE IF Total(o.ops) <= index THEN Result(MakeRoom(o), ERR)
    ELSE EditAt(MakeRoom(o), CHOOSE i \in DOMAIN o.ops : Covers(o.ops, i, index),
                index, count)

\* hllAdd, hllDenseAdd, hllSparseAdd, and the switch in pfmerge.
hllSet(o, index, count) ==
    IF o.encoding = "dense" THEN hllDenseSet(o, index, count)
    ELSE hllSparseSet(o, index, count)

\* hllMerge of several strings: the larger value of each register.
MaxRegisters(S) ==
    LET regs == {Registers(o) : o \in S} IN [i \in Index |-> Max({reg[i] : reg \in regs})]

-----------------------------------------------------------------------------
(* Commands: the string afterwards and the reply. *)

\* One turn of pfadd's loop; an error leaves the loop and the command.
AddStep(s, arg) ==
    IF s.ret < 0 THEN s
    ELSE IF arg = Bad THEN [s EXCEPT !.ret = ERR]
    ELSE LET r == hllSet(s.o, arg[1], arg[2]) IN
         [o |-> r.o, updated |-> s.updated \/ r.ret = 1,
          ret |-> IF r.ret < 0 THEN r.ret ELSE 0]

AddAll(o, args) ==
    FoldLeft(AddStep, [o |-> o, updated |-> FALSE, ret |-> 0], args)

\* The end of pfadd, which an error does not reach.
Added(s) ==
    IF s.ret < 0 THEN Result(s.o, s.ret)
    ELSE IF s.updated THEN Result(InvalidateCache(s.o), 1)
    ELSE Result(s.o, 0)

pfadd(o, args) == Added(AddAll(o, args))

\* pfcount of one value: the cached cardinality, or a fresh one that is cached.
pfcount(o) ==
    IF o.card # Invalid THEN Result(o, o.card)
    ELSE IF ~Valid(o) THEN Result(o, ERR)
    ELSE Result([o EXCEPT !.card = Histo(Registers(o))], Histo(Registers(o)))

\* pfcount of several values: nothing is written.
pfcountUnion(S) ==
    IF \E o \in S : ~Valid(o) THEN ERR ELSE Histo(MaxRegisters(S))

\* The registers of the union are set one by one, the results are not looked at.
SetAll(o, max) ==
    FoldLeft(LAMBDA d, i : IF max[i - 1] = 0 THEN d ELSE hllSet(d, i - 1, max[i - 1]).o,
             o, [i \in 1 .. HLL_REGISTERS |-> i])

\* Mutant of pfmerge: the destination's own registers are not among the operands.
pfmergeOver(dest, srcs) ==
    LET all == srcs \cup {createHLLObject} IN
    IF \E o \in all \cup {dest} : ~Valid(o) THEN Result(dest, ERR)
    ELSE IF \E o \in all \cup {dest} : o.encoding = "dense"
    THEN Result(InvalidateCache(Dense(MaxRegisters(all), dest.card)), OK)
    ELSE Result(InvalidateCache(SetAll(dest, MaxRegisters(all))), OK)

\* pfmerge dest srcs: the destination is an operand too; it becomes dense when an
\* operand is.
pfmerge(dest, srcs) ==
    LET all == srcs \cup {dest} IN
    IF \E o \in all : ~Valid(o) THEN Result(dest, ERR)
    ELSE IF \E o \in all : o.encoding = "dense"
    THEN Result(InvalidateCache(Dense(MaxRegisters(all), dest.card)), OK)
    ELSE Result(InvalidateCache(SetAll(dest, MaxRegisters(all))), OK)

-----------------------------------------------------------------------------
(* The application's calls. *)

Live == {h \in Handles : obj[h] # Freed}

Set(h, o) ==
    /\ obj' = [obj EXCEPT ![h] = o]
    /\ torn' = [torn EXCEPT ![h] = o # Freed /\ o.card # Invalid /\ @]

New(h) == h \notin Live /\ Set(h, createHLLObject)

Free(h) == h \in Live /\ Set(h, Freed)

Pfadd(h) ==
    /\ h \in Live
    /\ \E args \in Calls[h] :
        LET s == AddAll(obj[h], args)
            r == Added(s)
        IN  /\ obj' = [obj EXCEPT ![h] = r.o]
            /\ torn' = [torn EXCEPT ![h] =
                            r.o.card # Invalid /\ (@ \/ (r.ret = ERR /\ s.updated))]

Pfcount(h) == h \in Live /\ Set(h, pfcount(obj[h]).o)

Pfmerge(h) ==
    /\ h \in Live
    /\ \E S \in Sources[h] : S \subseteq Live /\ Set(h, pfmerge(obj[h], {obj[g] : g \in S}).o)

\* pfdebug todense and getreg; an error when the opcodes are not valid.
Todense(h) ==
    /\ h \in Live /\ Valid(obj[h])
    /\ Set(h, hllSparseToDense(obj[h]))

\* dump and load into a fresh string; the blob may have lost its end on the way.
Load(h) ==
    /\ h \in Live
    /\ \/ obj[h].encoding = "dense" /\ Set(h, obj[h])
       \/ /\ obj[h].encoding = "sparse"
          /\ \E n \in (IF h \in Lossy THEN 0 ELSE Len(obj[h].ops)) .. Len(obj[h].ops) :
              LET ops == SubSeq(obj[h].ops, 1, n) IN
              Set(h, [obj[h] EXCEPT !.ops = ops, !.alloc = sdslen(ops)])

Init ==
    /\ obj = [h \in Handles |-> Freed]
    /\ torn = [h \in Handles |-> FALSE]

Next ==
    \E h \in Handles :
        New(h) \/ Free(h) \/ Pfadd(h) \/ Pfcount(h) \/ Pfmerge(h) \/ Todense(h) \/ Load(h)

Spec == Init /\ [][Next]_vars

-----------------------------------------------------------------------------
(* Properties. *)

Opcode ==
    [op : {"ZERO"}, len : 1 .. HLL_SPARSE_ZERO_MAX_LEN, val : {0}]
    \cup [op : {"XZERO"}, len : 1 .. HLL_REGISTERS, val : {0}]
    \cup [op : {"VAL"}, len : 1 .. HLL_SPARSE_VAL_MAX_LEN, val : 1 .. HLL_SPARSE_VAL_MAX_VALUE]

\* Type invariant: a string is dense with every register in range, or sparse with
\* opcodes whose length and value fit their bit fields (hyperloglog.c:109-134).
TypeOK ==
    /\ torn \in [Handles -> BOOLEAN]
    /\ \A h \in Live :
        /\ obj[h].card = Invalid \/ obj[h].card \in [Count -> 0 .. HLL_REGISTERS]
        /\ \/ obj[h].encoding = "dense" /\ obj[h].registers \in [Index -> Count]
           \/ obj[h].encoding = "sparse" /\ \A i \in DOMAIN obj[h].ops : obj[h].ops[i] \in Opcode

\* The in-place edits of hllSparseSet keep the code tight: it stays within
\* hll_sparse_max_bytes and its allocation, two zero runs are never adjacent, and the
\* five turns of the merge loop leave no two VALs that fit one.
OpcodesTight ==
    \A h \in Live : obj[h].encoding = "sparse" =>
        LET ops == obj[h].ops IN
        /\ sdslen(ops) <= hll_sparse_max_bytes /\ sdslen(ops) <= obj[h].alloc
        /\ \A i \in 1 .. (Len(ops) - 1) :
            /\ ~Mergeable(ops, i)
            /\ ops[i].op = "VAL" \/ ops[i + 1].op = "VAL"

\* The elements of args that are applied: those before the first bad one.
Applied(args) ==
    {args[i] : i \in {j \in DOMAIN args : \A k \in 1 .. j : args[k] # Bad}}

\* What adding elements S makes of registers reg.
Raised(reg, S) == [i \in Index |-> Max({reg[i]} \cup {e[2] : e \in {f \in S : f[1] = i}})]

\* Whatever the encoding, the split and the promotion, pfadd leaves the registers that
\* the elements before the first bad argument imply, replies 1 exactly when one of them
\* changed, and reaches none of hllSparseSet's two assertions.
PfaddExact ==
    \A h \in Live : Valid(obj[h]) =>
        LET before == Registers(obj[h]) IN
        \A args \in Calls[h] :
            LET r == pfadd(obj[h], args)
                after == Raised(before, Applied(args))
            IN  /\ Valid(r.o) /\ Registers(r.o) = after
                /\ r.ret = IF Bad \in ToSet(args) THEN ERR
                           ELSE IF before = after THEN 0 ELSE 1

\* pfmerge leaves exactly the union of the destination and the operands, whichever of
\* them are dense and wherever the destination is promoted on the way; pfcount of the
\* same operands answers with that union's estimate.
PfmergeExact ==
    \A h \in Live : \A S \in Sources[h] : S \subseteq Live =>
        LET operands == {obj[g] : g \in S}
            r == pfmerge(obj[h], operands)
        IN  IF \A o \in operands \cup {obj[h]} : Valid(o)
            THEN /\ r.ret = OK /\ Valid(r.o) /\ r.o.card = Invalid
                 /\ Registers(r.o) = MaxRegisters(operands \cup {obj[h]})
                 /\ pfcount(r.o).ret = pfcountUnion(operands \cup {obj[h]})
            ELSE r = Result(obj[h], ERR)

CacheFits(o) == o.card = Invalid \/ ~Valid(o) \/ o.card = Histo(Registers(o))

\* A cardinality that is not marked is the one of the registers, so pfcount's shortcut
\* answers right, unless an error ended a pfadd after it had changed registers.
CacheExact == \A h \in Live : torn[h] \/ CacheFits(obj[h])

\* hyperloglog.c:85-87: the mark "means that the data structure was modified and we
\* can't reuse the cached value", so without it the value can be reused.
CacheReusable == \A h \in Live : CacheFits(obj[h])

=============================================================================
