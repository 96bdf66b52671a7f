------------------------------ MODULE RedisSet ------------------------------
(***************************************************************************)
(* redislib's set: facade/set.c over kernel/t_set.c and kernel/intset.c.   *)
(*                                                                         *)
(* A handle is a Lua userdata whose payload is NULL (the empty set), an    *)
(* intset, a listpack or a hash table.  The first write picks the          *)
(* encoding, later writes convert it one way (intset, listpack, table),    *)
(* and a command that empties the set releases the payload.  A command     *)
(* runs to its end before another starts.                                  *)
(*                                                                         *)
(* A member is a byte string; the ones that are the canonical decimal text *)
(* of a 64-bit integer (string2ll) are that integer here, the others are   *)
(* model values.  A listpack is the sequence of its entries and a hash     *)
(* table the set of its keys with the pause counter of its auto-resize:    *)
(* neither's bytes are modelled.  A table is walked in the order ByteOrder *)
(* lists its keys, standing for the unspecified order of its buckets.      *)
(* Arguments of the wrong kind are refused before anything changes, and    *)
(* lpSafeToAdd()'s limit of one gigabyte is out of reach: both left out.   *)
(***************************************************************************)
EXTENDS Intset, FiniteSets, FiniteSetsExt, Functions

CONSTANTS
    Handles,
    Ints,                       \* members that are integers
    Strings,                    \* all other members
    Long,                       \* those over set_max_listpack_value bytes
    ByteOrder,                  \* all members in ascending byte order
    NULL,                       \* a handle's payload: none
    Freed,                      \* no handle, or one released with free()
    set_max_intset_entries,
    set_max_listpack_entries,
    RL_SPOP_MOVE_STRATEGY_MUL,
    ARGS,                       \* bound: members one call brings
    OPERANDS,                   \* bound: operands of one set operation
    LIMIT                       \* bound: LIMIT of the cardinality forms

Members == Ints \cup Strings

\* The payloads, by encoding.
Objects ==
    [encoding : {"intset"}, ptr : Blocks]
    \cup [encoding : {"listpack"}, ptr : Seq(Members)]
    \cup [encoding : {"ht"}, ptr : [keys : SUBSET Members, pauseAutoResize : Nat]]

ASSUME RedisSetAssumption ==
    /\ Ints \subseteq Holds(INTSET_ENC_INT64)
    /\ Ints \cap Strings = {} /\ Long \subseteq Strings
    /\ ByteOrder \in Seq(Members)
    /\ ToSet(ByteOrder) = Members /\ IsInjective(ByteOrder)
    /\ NULL # Freed /\ NULL \notin Objects /\ Freed \notin Objects
    /\ set_max_listpack_entries \in Nat
    /\ set_max_intset_entries \in Nat
    /\ RL_SPOP_MOVE_STRATEGY_MUL \in Nat \ {0}
    /\ ARGS \in Nat /\ OPERANDS \in Nat /\ LIMIT \in Nat

VARIABLE sobj   \* each handle's payload

-----------------------------------------------------------------------------
(* Sequences. *)

\* The elements of seq that are in S, in their order.
Select(seq, S) ==
    FoldLeft(LAMBDA acc, x: IF x \in S THEN Append(acc, x) ELSE acc, <<>>, seq)

\* A sorted sequence with x behind the elements that are not larger.
Insert(acc, x, key) ==
    InsertAt(acc, Cardinality({j \in DOMAIN acc: key[acc[j]] <= key[x]}) + 1, x)

\* seq sorted by ascending key.
SortBy(seq, key) == FoldLeft(LAMBDA acc, x: Insert(acc, x, key), <<>>, seq)

-----------------------------------------------------------------------------
(* Payloads. *)

createIntsetObject == [encoding |-> "intset", ptr |-> intsetNew]

createSetListpackObject == [encoding |-> "listpack", ptr |-> <<>>]

createSetObject ==
    [encoding |-> "ht", ptr |-> [keys |-> {}, pauseAutoResize |-> 0]]

\* What a full walk with setTypeNext() meets, in order.
setTypeWalk(set) ==
    CASE set.encoding = "intset" -> intsetElements(set.ptr)
      [] set.encoding = "listpack" -> set.ptr
      [] set.encoding = "ht" ->
            Select(ByteOrder, set.ptr.keys)

setTypeSize(set) ==
    CASE set.encoding = "intset" -> set.ptr.length
      [] set.encoding = "listpack" -> Len(set.ptr)
      [] set.encoding = "ht" -> Cardinality(set.ptr.keys)

setTypeIsMember(set, m) ==
    CASE set.encoding = "intset" -> m \in Ints /\ intsetFind(set.ptr, m)
      [] set.encoding = "listpack" -> Contains(set.ptr, m)
      [] set.encoding = "ht" -> m \in set.ptr.keys

\* A walk of the old payload fills the new one.
Filled(enc, walk) ==
    IF enc = "ht"
    THEN [createSetObject EXCEPT !.ptr.keys = ToSet(walk)]
    ELSE [createSetListpackObject EXCEPT !.ptr = walk]

setTypeConvert(set, enc) == Filled(enc, setTypeWalk(set))

setTypeCreate(m, size_hint) ==
    IF m \in Ints /\ size_hint <= set_max_intset_entries
    THEN createIntsetObject
    ELSE IF size_hint <= set_max_listpack_entries
    THEN createSetListpackObject
    ELSE createSetObject

setTypeMaybeConvert(set, size_hint) ==
    IF \/ set.encoding = "listpack" /\ size_hint > set_max_listpack_entries
       \/ set.encoding = "intset" /\ size_hint > set_max_intset_entries
    THEN setTypeConvert(set, "ht")
    ELSE set

maybeConvertIntset(set) ==
    IF set.ptr.length > set_max_intset_entries
    THEN setTypeConvert(set, "ht") ELSE set

\* Mutant of FitsListpack: <= for <.
FitsOneTooMany(n, m) == n <= set_max_listpack_entries /\ m \notin Long

\* Whether a listpack of n entries takes m as one more.
FitsListpack(n, m) == n < set_max_listpack_entries /\ m \notin Long

AppendTo(set, m) == [set EXCEPT !.ptr = Append(@, m)]

DictAdd(set, m) == [set EXCEPT !.ptr.keys = @ \cup {m}]

Unchanged(set) == [set |-> set, n |-> 0]

\* The payload with m, which is not in it yet: a listpack, also one made of
\* an intset, as long as m fits, a table otherwise.
Enlarged(set, m) ==
    IF set.encoding = "ht" THEN DictAdd(set, m)
    ELSE IF ~ FitsListpack(setTypeSize(set), m)
    THEN DictAdd(setTypeConvert(set, "ht"), m)
    ELSE AppendTo(IF set.encoding = "intset"
                  THEN setTypeConvert(set, "listpack") ELSE set, m)

AddedInteger(set, r) ==
    [set |-> IF r.success = 0 THEN set
             ELSE maybeConvertIntset([set EXCEPT !.ptr = r.is]),
     n |-> r.success]

\* The set with m in it, and 1 if m was new to it, 0 otherwise.
setTypeAdd(set, m) ==
    IF set.encoding = "intset" /\ m \in Ints
    THEN AddedInteger(set, intsetAdd(set.ptr, m))
    ELSE IF setTypeIsMember(set, m) THEN Unchanged(set)
    ELSE [set |-> Enlarged(set, m), n |-> 1]

RemovedInteger(set, r) ==
    [set |-> [set EXCEPT !.ptr = r.is], n |-> r.success]

\* The set without m, and 1 if m was in it, 0 otherwise.
setTypeRemove(set, m) ==
    IF set.encoding = "intset" /\ m \in Ints
    THEN RemovedInteger(set, intsetRemove(set.ptr, m))
    ELSE IF ~ setTypeIsMember(set, m) THEN Unchanged(set)
    ELSE [set |-> IF set.encoding = "ht"
                  THEN [set EXCEPT !.ptr.keys = @ \ {m}]
                  ELSE [set EXCEPT !.ptr = RemoveFirst(@, m)],
          n |-> 1]

\* Adding, and removing, every member of a sequence in turn.
Counted(n, r) == [set |-> r.set, n |-> n + r.n]

AddAll(set, seq) ==
    FoldLeft(LAMBDA acc, m: Counted(acc.n, setTypeAdd(acc.set, m)),
             Unchanged(set), seq)

RemoveAll(set, seq) ==
    FoldLeft(LAMBDA acc, m: Counted(acc.n, setTypeRemove(acc.set, m)),
             Unchanged(set), seq)

-----------------------------------------------------------------------------
(* The commands that change a set: the payload they leave and the reply.   *)

\* Mutant of resetIfEmpty: the empty payload stays.
KeepEmptied(set) == set

\* A set that has just been emptied has its payload released.
resetIfEmpty(set) == IF setTypeSize(set) = 0 THEN NULL ELSE set

lsadd(o, args) ==
    LET n == Len(args)
        set == IF o = NULL THEN setTypeCreate(args[1], n)
               ELSE setTypeMaybeConvert(o, n)
    IN  AddAll(set, args)

Pause(set, by) ==
    IF set.encoding = "ht" THEN [set EXCEPT !.ptr.pauseAutoResize = @ + by]
    ELSE set

StopIfEmptied(n, r) ==
    [set |-> r.set, n |-> n + r.n, emptied |-> setTypeSize(r.set) = 0]

\* A table is resumed only if it is not released.
Removed(all) ==
    [set |-> IF all.emptied THEN resetIfEmpty(all.set) ELSE Pause(all.set, -1),
     n |-> all.n]

\* The loop stops once the set is empty.
lsrem(o, args) ==
    LET step(acc, m) ==
            IF acc.emptied THEN acc
            ELSE StopIfEmptied(acc.n, setTypeRemove(acc.set, m))
    IN  IF o = NULL THEN Unchanged(o)
        ELSE Removed(FoldLeft(step, [set |-> Pause(o, 1), n |-> 0,
                                     emptied |-> FALSE], args))

Unmoved(n) == [sobj |-> sobj, n |-> n]

PutMember(rest, dst, m) ==
    [rest EXCEPT ![dst] =
        setTypeAdd(IF @ = NULL THEN setTypeCreate(m, 1) ELSE @, m).set]

TakenAndPut(src, dst, m, r) ==
    IF r.n = 0 THEN Unmoved(0)
    ELSE [sobj |-> PutMember([sobj EXCEPT ![src] = resetIfEmpty(r.set)], dst, m),
          n |-> 1]

\* The member goes from the source, whose payload may go with it, to what
\* the destination then is.
MoveMember(src, dst, m) ==
    TakenAndPut(src, dst, m, setTypeRemove(sobj[src], m))

\* Mutant of lsmove: the two handles are not compared.
MoveToItself(src, dst, m) ==
    IF sobj[src] = NULL THEN Unmoved(0) ELSE MoveMember(src, dst, m)

\* src and dst are handles; the reply of moving to the same set is membership.
lsmove(src, dst, m) ==
    IF sobj[src] = NULL THEN Unmoved(0)
    ELSE IF src # dst THEN MoveMember(src, dst, m)
    ELSE Unmoved(IF setTypeIsMember(sobj[src], m) THEN 1 ELSE 0)

\* k draws of setTypeRandomElement(), each from what the earlier ones left.
Draws(set, k) == {d \in [1 .. k -> ToSet(setTypeWalk(set))] : IsInjective(d)}

\* A random member is taken out.
lspop(set) ==
    {[set |-> resetIfEmpty(setTypeRemove(set, d[1]).set), reply |-> d] :
        d \in Draws(set, 1)}

\* The payload the elements that stay are drawn into.  An intset's elements
\* and a listpack's integers come back as numbers, all others as text.
drawInto(set, first) ==
    IF set.encoding # "ht" /\ first \in Ints
    THEN createIntsetObject ELSE createSetListpackObject

lspopCount(set, count) ==
    LET left == setTypeSize(set) - count
    IN  CASE count = 0 -> {[set |-> set, reply |-> <<>>]}
          [] left <= 0 -> {[set |-> NULL, reply |-> setTypeWalk(set)]}
          [] count > 0 /\ left * RL_SPOP_MOVE_STRATEGY_MUL > count ->
                {[set |-> RemoveAll(set, d).set, reply |-> d] :
                    d \in Draws(set, count)}
          [] OTHER ->
                {[set |-> AddAll(drawInto(set, d[1]), d).set,
                  reply |-> setTypeWalk(RemoveAll(set, d).set)] :
                    d \in Draws(set, left)}

\* The sequences `want' elements of a listpack are picked as, walking it once
\* from position i: an entry may be passed over as long as more entries are
\* left than are wanted.  Running off the end would cut the reply short.
lpPicks(lp, count) ==
    LET pick[q \in (1 .. Len(lp) + 1) \X (0 .. count)] ==
            LET i == q[1]
                want == q[2]
            IN  IF want = 0 THEN {<<>>}
                ELSE IF i > Len(lp) THEN {<<>>}
                ELSE {<<lp[i]>> \o rest : rest \in pick[<<i + 1, want - 1>>]}
                     \cup (IF want < Len(lp) - i + 1 THEN pick[<<i + 1, want>>] ELSE {})
    IN  pick[<<1, count>>]

\* The possible replies to a count; a negative one allows repetition.
Samples(set, members, count, uniq) ==
    IF ~ uniq \/ count = 1 THEN [1 .. count -> ToSet(members)]
    ELSE IF count >= Len(members) THEN {members}
    ELSE IF set.encoding = "listpack" THEN lpPicks(set.ptr, count)
    ELSE {Select(ByteOrder, S) :
            S \in {T \in SUBSET ToSet(members): Cardinality(T) = count}}

lsrandmember(set, l) ==
    Samples(set, setTypeWalk(set), IF l < 0 THEN -l ELSE l, l >= 0)

\* The reads: a handle without payload is the empty set.
lscard(o) == IF o = NULL THEN 0 ELSE setTypeSize(o)

lsmembers(o) == IF o = NULL THEN <<>> ELSE setTypeWalk(o)

lsmismember(o, args) ==
    [i \in DOMAIN args |->
        IF o # NULL /\ setTypeIsMember(o, args[i]) THEN 1 ELSE 0]

\* Mutant of rl_dump_set: the members are not sorted.
DumpInWalkOrder(o) == lsmembers(o)

\* dump(): the members in byte order.  load() gives the first of them and
\* their number to setTypeCreate().
rl_dump_set(o) ==
    SortBy(lsmembers(o),
           [m \in Members |-> CHOOSE i \in DOMAIN ByteOrder: ByteOrder[i] = m])

rl_load_set(blob) ==
    IF blob = <<>> THEN NULL
    ELSE AddAll(setTypeCreate(blob[1], Len(blob)), blob).set

-----------------------------------------------------------------------------
(* The operations on several sets, over a sequence of handles.  Two        *)
(* operands are the same set when they are the same handle.                *)

Present(ops) == Select(ops, {h \in Handles: sobj[h] # NULL})

Size(h) == lscard(sobj[h])

\* Counting stops at a limit other than 0.
Limited(n, limit) == IF limit > 0 /\ n > limit THEN limit ELSE n

\* The members found, in order, and how many of them were counted.
Found(members, limit) ==
    [reply |-> members, n |-> Limited(Len(members), limit)]

\* The members of the first of these sets that every other one has.
InAll(sets) ==
    Select(setTypeWalk(sobj[sets[1]]),
           {m \in Members: \A j \in 2 .. Len(sets):
                \/ sets[j] = sets[1]
                \/ setTypeIsMember(sobj[sets[j]], m)})

\* The smallest set is walked.
lsinter_generic(ops, limit) ==
    IF \E j \in DOMAIN ops: sobj[ops[j]] = NULL THEN Found(<<>>, limit)
    ELSE Found(InAll(SortBy(ops, [h \in ToSet(ops) |-> Size(h)])), limit)

\* The result is collected in an intset when every operand is one.
dstset(ops) ==
    IF \A j \in DOMAIN ops:
            sobj[ops[j]] # NULL => sobj[ops[j]].encoding = "intset"
    THEN createIntsetObject ELSE createSetObject

\* The walks of all operands that are there, one after the other.
Walks(ops) == FlattenSeq([j \in DOMAIN ops |-> lsmembers(sobj[ops[j]])])

Collected(all) == [reply |-> setTypeWalk(all.set), n |-> all.n]

lsunion_generic(ops, limit) ==
    LET step(acc, m) ==
            IF limit > 0 /\ acc.n >= limit THEN acc
            ELSE Counted(acc.n, setTypeAdd(acc.set, m))
    IN  Collected(FoldLeft(step, Unchanged(dstset(ops)), Walks(ops)))

\* The members of the first set no set of the others has.
OnlyIn(first, rest) ==
    Select(lsmembers(sobj[first]),
           {m \in Members: \A j \in DOMAIN rest:
                ~ setTypeIsMember(sobj[rest[j]], m)})

\* Algorithm 1: the first set's elements no other set has, larger sets asked
\* first.  A count needs no result set.
diff1(ops, limit) ==
    LET rest == SortBy(Present(Tail(ops)), [h \in ToSet(ops) |-> -Size(h)])
        only == OnlyIn(ops[1], rest)
    IN  IF limit > 0 THEN Found(only, limit)
        ELSE Collected(AddAll(dstset(ops), only))

CountOutside(first, aux, limit) ==
    Found(Select(lsmembers(sobj[first]),
                 {m \in Members: ~ setTypeIsMember(aux, m)}), limit)

\* Mutant of diff2b: the first operand is collected too.
diff2bCollectsFirst(ops, limit) ==
    CountOutside(ops[1], AddAll(dstset(ops), Walks(ops)).set, limit)

\* Algorithm 2b, for a limited count: the other sets are collected first.
diff2b(ops, limit) ==
    CountOutside(ops[1], AddAll(dstset(ops), Walks(Tail(ops))).set, limit)

\* Algorithm 2: the first set is copied, the others removed from the copy
\* until nothing is left.
diff2(ops) ==
    LET less(n, r) == [set |-> r.set, n |-> n - r.n]
        step(acc, h) ==
            IF acc.n = 0 THEN acc
            ELSE less(acc.n, RemoveAll(acc.set, lsmembers(sobj[h])))
    IN  Collected(FoldLeft(step, AddAll(dstset(ops), lsmembers(sobj[ops[1]])),
                           Tail(ops)))

\* The estimate the choice between the algorithms is made from.
diff_algo(ops) ==
    LET sizes == FoldLeft(LAMBDA sum, h: sum + Size(h), 0, ops)
    IN  IF (Size(ops[1]) * Len(Present(ops))) \div 2 <= sizes THEN 1 ELSE 2

lsdiff_generic(ops, limit) ==
    IF \/ sobj[ops[1]] = NULL
       \/ \E j \in 2 .. Len(ops): ops[j] = ops[1]
    THEN Found(<<>>, limit)
    ELSE IF diff_algo(ops) = 1 THEN diff1(ops, limit)
    ELSE IF limit > 0 THEN diff2b(ops, limit)
    ELSE diff2(ops)

-----------------------------------------------------------------------------
(* Handles and commands as actions. *)

ArgLists == UNION {[1 .. n -> Members] : n \in 1 .. ARGS}

Live(h) == sobj[h] # Freed

Init == sobj = [h \in Handles |-> Freed]

lset_new(h) ==
    /\ ~ Live(h)
    /\ sobj' = [sobj EXCEPT ![h] = NULL]

\* A blob the loader refuses leaves a handle nobody has.
lset_load(h) ==
    /\ ~ Live(h)
    /\ \E blob \in ArgLists \cup {<<>>}:
            sobj' = [sobj EXCEPT ![h] = rl_load_set(blob)]

\* free() and the collector's finaliser.
lset_free(h) ==
    /\ Live(h)
    /\ sobj' = [sobj EXCEPT ![h] = Freed]

Sadd(h) ==
    /\ Live(h)
    /\ \E args \in ArgLists:
            sobj' = [sobj EXCEPT ![h] = lsadd(@, args).set]

Srem(h) ==
    /\ Live(h)
    /\ \E args \in ArgLists:
            sobj' = [sobj EXCEPT ![h] = lsrem(@, args).set]

Smove(src, dst) ==
    /\ Live(src) /\ Live(dst)
    /\ \E m \in Members: sobj' = lsmove(src, dst, m).sobj

Spop(h) ==
    /\ Live(h) /\ sobj[h] # NULL
    /\ \E out \in lspop(sobj[h]): sobj' = [sobj EXCEPT ![h] = out.set]

SpopCount(h) ==
    /\ Live(h) /\ sobj[h] # NULL
    /\ \E count \in 0 .. setTypeSize(sobj[h]) + 1:
        \E out \in lspopCount(sobj[h], count):
            sobj' = [sobj EXCEPT ![h] = out.set]

Next ==
    \E h \in Handles:
        \/ lset_new(h)
        \/ lset_load(h)
        \/ lset_free(h)
        \/ Sadd(h)
        \/ Srem(h)
        \/ \E g \in Handles: Smove(h, g)
        \/ Spop(h)
        \/ SpopCount(h)

Spec == Init /\ [][Next]_sobj

-----------------------------------------------------------------------------
(* Properties. *)

Payloads == {h \in Handles: sobj[h] \notin {NULL, Freed}}

\* What a handle stands for.
Value(o) == ToSet(lsmembers(o))

\* Every payload has the shape of its encoding and holds members only.
TypeOK ==
    /\ DOMAIN sobj = Handles
    /\ \A h \in Payloads:
        LET set == sobj[h]
        IN  \/ /\ set.encoding = "intset"
               /\ set.ptr.encoding \in Encodings
               /\ ToSet(intsetElements(set.ptr)) \subseteq Ints
            \/ /\ set.encoding = "listpack"
               /\ set.ptr \in Seq(Members)
            \/ /\ set.encoding = "ht"
               /\ set.ptr.keys \subseteq Members
               /\ set.ptr.pauseAutoResize \in Nat

\* After any number of insertions, removals and upgrades of the encoding an
\* intset is what intsetValidateIntegrity() asks for: exactly its length of
\* elements in the block, every byte of it written, and the elements
\* strictly ascending, which the binary search relies on.
IntsetOrdered ==
    \A h \in Payloads: sobj[h].encoding = "intset" =>
        LET is == sobj[h].ptr
        IN  /\ Len(is.contents) = is.length * is.encoding
            /\ ToSet(is.contents) \subseteq Bytes
            /\ \A i \in 1 .. is.length - 1:
                    intsetGetAt(is, i - 1) < intsetGetAt(is, i)

\* No sequence of commands leaves a compact payload over its limits, or one
\* that lists a member twice (dictAdd() asserts that a conversion meets no
\* duplicate).
CompactWithinLimits ==
    \A h \in Payloads:
        LET set == sobj[h]
        IN  /\ set.encoding = "intset" =>
                    setTypeSize(set) <= set_max_intset_entries
            /\ set.encoding = "listpack" =>
                    /\ setTypeSize(set) <= set_max_listpack_entries
                    /\ Value(set) \cap Long = {}
            /\ IsInjective(setTypeWalk(set))

\* Between commands no payload is empty (Redis deletes a set the moment it
\* empties, and SPOP's and SRANDMEMBER's draws divide by the size) and no
\* table has its auto-resize paused.
Settled ==
    \A h \in Payloads:
        /\ setTypeSize(sobj[h]) > 0
        /\ sobj[h].encoding = "ht" => sobj[h].ptr.pauseAutoResize = 0

\* Whatever the encodings and the conversions on the way, every command
\* leaves the set a server would have and replies what it would: the reads
\* agree with each other, SADD and SREM count the members that came or went,
\* SPOP gives distinct members that are then gone from the set, SRANDMEMBER
\* as many as it can without repeating.
CommandsExact ==
    LET live == {g \in Handles: Live(g)}
        added(r, old, new) == Value(r.set) = old \cup new
                              /\ r.n = Cardinality(new \ old)
        removed(r, old, new) == Value(r.set) = old \ new
                                /\ r.n = Cardinality(old \cap new)
        distinct(reply, n) == IsInjective(reply) /\ Len(reply) = n
        popped(out, old) ==
            /\ ToSet(out.reply) \cap Value(out.set) = {}
            /\ ToSet(out.reply) \cup Value(out.set) = old
    IN  \A h \in live:
        LET o == sobj[h]
            old == Value(o)
        IN  /\ lscard(o) = Cardinality(old)
            /\ lsmismember(o, ByteOrder) =
                    [i \in DOMAIN ByteOrder |->
                        IF ByteOrder[i] \in old THEN 1 ELSE 0]
            /\ \A args \in ArgLists:
                /\ added(lsadd(o, args), old, ToSet(args))
                /\ removed(lsrem(o, args), old, ToSet(args))
            /\ o # NULL => \A count \in 0 .. Cardinality(old) + 1:
                LET n == Min({count, Cardinality(old)})
                IN  /\ \A out \in lspopCount(o, count):
                        popped(out, old) /\ distinct(out.reply, n)
                    /\ \A r \in lsrandmember(o, count):
                        distinct(r, n) /\ ToSet(r) \subseteq old

\* Moving a member takes it from the source and puts it in the destination,
\* also when both are one set, whatever their encodings.
SmoveExact ==
    LET moved(r, g, h, m) ==
            /\ r.n = IF m \in Value(sobj[g]) THEN 1 ELSE 0
            /\ r.n = 0 \/ g = h => r.sobj = sobj
            /\ r.n = 1 /\ g # h =>
                    /\ Value(r.sobj[g]) = Value(sobj[g]) \ {m}
                    /\ Value(r.sobj[h]) = Value(sobj[h]) \cup {m}
    IN  \A g, h \in {k \in Handles: Live(k)}: \A m \in Members:
            moved(lsmove(g, h, m), g, h, m)

\* SINTER, SUNION and SDIFF list the members of the set they name, each
\* once, and the cardinality forms count them up to LIMIT, for every choice
\* of algorithm and order of the operands.
OperationsExact ==
    LET live == {h \in Handles: Live(h)}
        lists == UNION {[1 .. n -> live] : n \in 1 .. OPERANDS}
        value == [h \in live |-> Value(sobj[h])]
        exact(r, S, limit) ==
            /\ r.n = Limited(Cardinality(S), limit)
            /\ limit = 0 => IsInjective(r.reply) /\ ToSet(r.reply) = S
    IN  \A ops \in lists: \A limit \in 0 .. LIMIT:
        LET all == UNION {value[ops[j]]: j \in DOMAIN ops}
            rest == UNION {value[ops[j]]: j \in 2 .. Len(ops)}
            inter == {m \in all: \A j \in DOMAIN ops: m \in value[ops[j]]}
        IN  /\ exact(lsinter_generic(ops, limit), inter, limit)
            /\ exact(lsunion_generic(ops, limit), all, limit)
            /\ exact(lsdiff_generic(ops, limit), value[ops[1]] \ rest, limit)

\* One set writes one blob: equal sets dump equally whatever their history
\* and encoding, and loading a dump gives the set back.
DumpCanonical ==
    \A g, h \in {k \in Handles: Live(k)}:
        /\ Value(sobj[g]) = Value(sobj[h]) =>
                rl_dump_set(sobj[g]) = rl_dump_set(sobj[h])
        /\ Value(rl_load_set(rl_dump_set(sobj[g]))) = Value(sobj[g])

=============================================================================
