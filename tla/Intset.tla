------------------------------- MODULE Intset -------------------------------
(***************************************************************************)
(* redislib-src/kernel/intset.c: a set of integers kept as a sorted array  *)
(* of 2-, 4- or 8-byte two's complement numbers, little endian.            *)
(*                                                                         *)
(* An intset is its header and the bytes of its contents, so that what the *)
(* in-place upgrade and the moves of the tail do to overlapping bytes is   *)
(* part of the model.  A byte has BASE values; with BASE = 2 the three     *)
(* encodings hold -2..1, -8..7 and -128..127.  Positions count from 0, as  *)
(* in the code.                                                            *)
(***************************************************************************)
EXTENDS Integers, Sequences, SequencesExt

CONSTANT BASE   \* values of a byte: UCHAR_MAX + 1

ASSUME IntsetAssumption == BASE \in Nat \ {0} /\ BASE % 2 = 0

INTSET_ENC_INT16 == 2
INTSET_ENC_INT32 == 4
INTSET_ENC_INT64 == 8
Encodings == {INTSET_ENC_INT16, INTSET_ENC_INT32, INTSET_ENC_INT64}

Bytes == 0 .. (BASE - 1)

\* A byte zrealloc() added and nothing has been stored in yet.
Uninitialized == BASE

Cell == 0 .. BASE

\* The intsets in memory.
Blocks == [encoding : Encodings, length : Nat, contents : Seq(Cell)]

\* How many values i bytes have.
Values[i \in 0 .. INTSET_ENC_INT64] == IF i = 0 THEN 1 ELSE Values[i - 1] * BASE

\* The numbers an encoding holds: INT16_MIN .. INT16_MAX and so on.
Holds(enc) == (-(Values[enc] \div 2)) .. ((Values[enc] \div 2) - 1)

\* The bytes of v in memory and the number in some bytes.
Encode(v, enc) == [i \in 1 .. enc |-> (v \div Values[i - 1]) % BASE]

Signed(u, values) == IF u < values \div 2 THEN u ELSE u - values

Decode(bytes) ==
    LET low[i \in 0 .. Len(bytes)] ==
            IF i = 0 THEN 0 ELSE low[i - 1] + (bytes[i] * Values[i - 1])
    IN  Signed(low[Len(bytes)], Values[Len(bytes)])

\* Mutant of intsetValueEncoding: the first value past INT16_MAX passes.
ValueEncodingOffByOne(v) ==
    IF v \notin Holds(INTSET_ENC_INT32) THEN INTSET_ENC_INT64
    ELSE IF v \notin Holds(INTSET_ENC_INT16) \cup {Values[2] \div 2}
    THEN INTSET_ENC_INT32
    ELSE INTSET_ENC_INT16

intsetValueEncoding(v) ==
    IF v \notin Holds(INTSET_ENC_INT32) THEN INTSET_ENC_INT64
    ELSE IF v \notin Holds(INTSET_ENC_INT16) THEN INTSET_ENC_INT32
    ELSE INTSET_ENC_INT16

-----------------------------------------------------------------------------

intsetGetEncoded(is, pos, enc) ==
    Decode(SubSeq(is.contents, pos * enc + 1, (pos + 1) * enc))

intsetGetAt(is, pos) == intsetGetEncoded(is, pos, is.encoding)

intsetSet(is, pos, value) ==
    LET from == pos * is.encoding
        new == Encode(value, is.encoding)
    IN  [is EXCEPT !.contents =
            [k \in DOMAIN @ |-> IF k - from \in DOMAIN new
                                THEN new[k - from] ELSE @[k]]]

intsetNew == [encoding |-> INTSET_ENC_INT16, length |-> 0, contents |-> <<>>]

\* A longer block keeps its bytes and gains uninitialized ones.
intsetResize(is, len) ==
    [is EXCEPT !.contents =
        [k \in 1 .. len * is.encoding |->
            IF k \in DOMAIN @ THEN @[k] ELSE Uninitialized]]

\* memmove() of everything from position `from' to position `to'.
intsetMoveTail(is, from, to) ==
    LET enc == is.encoding
        moved == SubSeq(is.contents, from * enc + 1, is.length * enc)
    IN  [is EXCEPT !.contents =
            [k \in DOMAIN @ |-> IF k - to * enc \in DOMAIN moved
                                THEN moved[k - to * enc] ELSE @[k]]]

\* Mutant of intsetSearch: an interval of one element is not looked at.
SearchStopsAtOne(is, value) ==
    LET n == is.length
        bisect[q \in (0 .. n) \X (-1 .. n - 1)] ==
            LET min == q[1]
                max == q[2]
                mid == (min + max) \div 2
                cur == intsetGetAt(is, mid)
            IN  IF max <= min THEN [found |-> FALSE, pos |-> min]
                ELSE IF value > cur THEN bisect[<<mid + 1, max>>]
                ELSE IF value < cur THEN bisect[<<min, mid - 1>>]
                ELSE [found |-> TRUE, pos |-> mid]
    IN  IF n = 0 THEN [found |-> FALSE, pos |-> 0]
        ELSE IF value > intsetGetAt(is, n - 1) THEN [found |-> FALSE, pos |-> n]
        ELSE IF value < intsetGetAt(is, 0) THEN [found |-> FALSE, pos |-> 0]
        ELSE bisect[<<0, n - 1>>]

\* Whether value is there, and where it is or would be inserted.  The first
\* and the last element are looked at before the binary search.
intsetSearch(is, value) ==
    LET n == is.length
        bisect[q \in (0 .. n) \X (-1 .. n - 1)] ==
            LET min == q[1]
                max == q[2]
                mid == (min + max) \div 2
                cur == intsetGetAt(is, mid)
            IN  IF max < min THEN [found |-> FALSE, pos |-> min]
                ELSE IF value > cur THEN bisect[<<mid + 1, max>>]
                ELSE IF value < cur THEN bisect[<<min, mid - 1>>]
                ELSE [found |-> TRUE, pos |-> mid]
    IN  IF n = 0 THEN [found |-> FALSE, pos |-> 0]
        ELSE IF value > intsetGetAt(is, n - 1) THEN [found |-> FALSE, pos |-> n]
        ELSE IF value < intsetGetAt(is, 0) THEN [found |-> FALSE, pos |-> 0]
        ELSE bisect[<<0, n - 1>>]

\* The elements are widened in place, in the order given, and make room for
\* value in front of them (prepend = 1) or behind.
Upgrade(is, value, prepend, order) ==
    LET newenc == intsetValueEncoding(value)
        wide == intsetResize([is EXCEPT !.encoding = newenc], is.length + 1)
        widen(s, i) ==
            intsetSet(s, i + prepend, intsetGetEncoded(s, i, is.encoding))
    IN  [intsetSet(FoldLeft(widen, wide, order),
                   IF prepend = 1 THEN 0 ELSE is.length, value)
            EXCEPT !.length = @ + 1]

\* Mutant of intsetUpgradeAndAdd: the first element is widened first.
UpgradeFrontToBack(is, value) ==
    Upgrade(is, value, IF value < 0 THEN 1 ELSE 0,
            [k \in 1 .. is.length |-> k - 1])

\* A value that needs the wider encoding is below or above all the others;
\* going from the last element to the first overwrites none still to be read.
intsetUpgradeAndAdd(is, value) ==
    Upgrade(is, value, IF value < 0 THEN 1 ELSE 0,
            [k \in 1 .. is.length |-> is.length - k])

\* A gap is opened at pos and value put there.
InsertValue(is, value, pos) ==
    LET room == intsetResize(is, is.length + 1)
    IN  [intsetSet(IF pos < is.length THEN intsetMoveTail(room, pos, pos + 1)
                   ELSE room, pos, value)
            EXCEPT !.length = @ + 1]

\* The tail is moved over what is at pos.
DeleteAt(is, pos) ==
    [intsetResize(IF pos < is.length - 1
                  THEN intsetMoveTail(is, pos + 1, pos) ELSE is,
                  is.length - 1)
        EXCEPT !.length = @ - 1]

AddUnlessFound(is, value, at) ==
    IF at.found THEN [is |-> is, success |-> 0]
    ELSE [is |-> InsertValue(is, value, at.pos), success |-> 1]

RemoveIfFound(is, at) ==
    IF at.found THEN [is |-> DeleteAt(is, at.pos), success |-> 1]
    ELSE [is |-> is, success |-> 0]

\* The intset with value in it and whether it was new.
intsetAdd(is, value) ==
    IF intsetValueEncoding(value) > is.encoding
    THEN [is |-> intsetUpgradeAndAdd(is, value), success |-> 1]
    ELSE AddUnlessFound(is, value, intsetSearch(is, value))

\* A value too wide for the encoding is not looked for.
intsetRemove(is, value) ==
    IF intsetValueEncoding(value) > is.encoding
    THEN [is |-> is, success |-> 0]
    ELSE RemoveIfFound(is, intsetSearch(is, value))

intsetFind(is, value) ==
    /\ intsetValueEncoding(value) <= is.encoding
    /\ intsetSearch(is, value).found

\* The elements in the order a walk by position meets them.
intsetElements(is) == [i \in 1 .. is.length |-> intsetGetAt(is, i - 1)]

=============================================================================
