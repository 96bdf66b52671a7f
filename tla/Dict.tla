-------------------------------- MODULE Dict --------------------------------
(***************************************************************************)
(* redislib's hash table, kernel/dict.c, as operators on a value.          *)
(*                                                                         *)
(* A dict holds two bucket arrays.  Growing or shrinking allocates the     *)
(* second one, and the ordinary calls then move the entries over bucket by *)
(* bucket; until the last one has moved a key may be in either array.  A   *)
(* bucket is a chain, the newest entry first.  A dict without values       *)
(* (no_value) keeps the last key of a chain in the pointer itself, without *)
(* an entry: such a key has no room for a successor ("inline" here).       *)
(*                                                                         *)
(* Arrays are numbered 1 and 2 where the code has 0 and 1.  Left out:      *)
(* dictScan, the safe iterators and with them pauserehash (nothing outside *)
(* dict.c uses them), dict_can_resize (never changed from ENABLE), the     *)
(* callbacks of dictType that redislib's types leave NULL, overflow of the *)
(* size and failing allocations.                                           *)
(***************************************************************************)
EXTENDS Integers, Sequences, FiniteSets, SequencesExt

CONSTANTS
    Hash,                   \* the hash of every key
    DICT_HT_INITIAL_EXP,
    HASHTABLE_MIN_FILL,
    EMPTY_VISITS            \* empty buckets one step of rehashing may skip

ASSUME DictAssumption ==
    /\ Hash \in [DOMAIN Hash -> Nat]
    /\ DICT_HT_INITIAL_EXP \in Nat /\ HASHTABLE_MIN_FILL \in Nat /\ EMPTY_VISITS \in Nat

\* No key, no bucket.
NoLink == <<0, 0>>

\* 1 << e
Pow2[e \in Nat] == IF e = 0 THEN 1 ELSE 2 * Pow2[e - 1]

DICTHT_SIZE(exp) == IF exp = -1 THEN 0 ELSE Pow2[exp]

\* hash & DICTHT_SIZE_MASK(exp); the mask of a missing array is 0.
Slot(hash, exp) == IF exp = -1 THEN 0 ELSE hash % Pow2[exp]

EmptyTable(exp) == [i \in 0 .. (DICTHT_SIZE(exp) - 1) |-> <<>>]

dictCreate(noValue) ==
    [table |-> <<EmptyTable(-1), EmptyTable(-1)>>, exp |-> <<-1, -1>>, used |-> <<0, 0>>,
     rehashidx |-> -1, pauseAutoResize |-> 0, no_value |-> noValue, asserts |-> TRUE]

dictSize(d) == d.used[1] + d.used[2]
dictIsRehashing(d) == d.rehashidx # -1

-----------------------------------------------------------------------------
(* Resizing. *)

_dictNextExp(size) ==
    CHOOSE e \in DICT_HT_INITIAL_EXP .. (DICT_HT_INITIAL_EXP + size) :
        /\ size <= Pow2[e]
        /\ e = DICT_HT_INITIAL_EXP \/ Pow2[e - 1] < size

\* An empty first array is replaced at once, any other one is left to rehashing.
ResizeTo(d, exp) ==
    IF exp = d.exp[1]
    THEN d
    ELSE IF d.used[1] = 0
         THEN [d EXCEPT !.table = <<EmptyTable(exp), EmptyTable(-1)>>,
                        !.exp = <<exp, -1>>, !.used = <<0, 0>>, !.rehashidx = -1]
         ELSE [d EXCEPT !.table[2] = EmptyTable(exp), !.exp[2] = exp, !.used[2] = 0,
                        !.rehashidx = 0]

_dictResize(d, size) ==
    ResizeTo([d EXCEPT !.asserts = @ /\ ~dictIsRehashing(d)], _dictNextExp(size))

dictExpand(d, size) ==
    IF dictIsRehashing(d) \/ d.used[1] > size \/ DICTHT_SIZE(d.exp[1]) >= size
    THEN d
    ELSE _dictResize(d, size)

dictShrink(d, size) ==
    IF dictIsRehashing(d) \/ d.used[1] > size \/ DICTHT_SIZE(d.exp[1]) <= size
    THEN d
    ELSE _dictResize(d, size)

dictExpandIfNeeded(d) ==
    IF dictIsRehashing(d)
    THEN d
    ELSE IF d.exp[1] = -1
         THEN dictExpand(d, Pow2[DICT_HT_INITIAL_EXP])
         ELSE IF d.used[1] >= DICTHT_SIZE(d.exp[1])
              THEN dictExpand(d, d.used[1] + 1)
              ELSE d

dictShrinkIfNeeded(d) ==
    IF \/ dictIsRehashing(d)
       \/ DICTHT_SIZE(d.exp[1]) <= Pow2[DICT_HT_INITIAL_EXP]
       \/ d.used[1] * HASHTABLE_MIN_FILL > DICTHT_SIZE(d.exp[1])
    THEN d
    ELSE dictShrink(d, d.used[1])

\* The two above behind dictPauseAutoResize().
_dictExpandIfNeeded(d) == IF d.pauseAutoResize > 0 THEN d ELSE dictExpandIfNeeded(d)
_dictShrinkIfNeeded(d) == IF d.pauseAutoResize > 0 THEN d ELSE dictShrinkIfNeeded(d)

dictPauseAutoResize(d) == [d EXCEPT !.pauseAutoResize = @ + 1]
dictResumeAutoResize(d) == [d EXCEPT !.pauseAutoResize = @ - 1]

-----------------------------------------------------------------------------
(* Rehashing. *)

\* A key in front of a chain.
Push(d, key, chain) == <<[key |-> key, inline |-> d.no_value /\ chain = <<>>]>> \o chain

\* Where a key of bucket idx goes: by its hash when growing, by idx when shrinking.
Destination(d, key, idx) ==
    Slot(IF d.exp[2] > d.exp[1] THEN Hash[key] ELSE idx, d.exp[2])

MoveEntry(d, key, h) ==
    [d EXCEPT !.table[2][h] = Push(d, key, @), !.used[1] = @ - 1, !.used[2] = @ + 1]

rehashEntriesInBucketAtIndex(d, idx) ==
    [FoldLeft(LAMBDA e, entry : MoveEntry(e, entry.key, Destination(d, entry.key, idx)),
              d, d.table[1][idx])
        EXCEPT !.table[1][idx] = <<>>]

dictCheckRehashingCompleted(d) ==
    IF d.used[1] # 0
    THEN d
    ELSE [d EXCEPT !.table = <<d.table[2], EmptyTable(-1)>>, !.exp = <<d.exp[2], -1>>,
                   !.used = <<d.used[2], 0>>, !.rehashidx = -1]

\* The first bucket with entries at or after rehashidx.
NextFull(d) ==
    CHOOSE i \in d.rehashidx .. (DICTHT_SIZE(d.exp[1]) - 1) :
        /\ d.table[1][i] # <<>>
        /\ \A j \in d.rehashidx .. (i - 1) : d.table[1][j] = <<>>

RehashBucket(d, i) ==
    IF i - d.rehashidx >= EMPTY_VISITS
    THEN [d EXCEPT !.rehashidx = @ + EMPTY_VISITS]
    ELSE dictCheckRehashingCompleted(
             [rehashEntriesInBucketAtIndex(d, i) EXCEPT !.rehashidx = i + 1])

\* dictRehash(d, 1): the only count the library asks for.
dictRehash(d) ==
    IF ~dictIsRehashing(d)
    THEN d
    ELSE IF d.used[1] = 0
         THEN dictCheckRehashingCompleted(d)
         ELSE RehashBucket(d, NextFull(d))

_dictRehashStepIfNeeded(d, idx) ==
    IF dictIsRehashing(d) /\ idx >= d.rehashidx /\ d.table[1][idx] # <<>>
    THEN dictCheckRehashingCompleted(rehashEntriesInBucketAtIndex(d, idx))
    ELSE dictRehash(d)

-----------------------------------------------------------------------------
(* Looking up, adding, deleting. *)

\* The place of a key in a chain, 0 when it is not there.
Position(chain, key) == SelectInSeq(chain, LAMBDA entry : entry.key = key)

\* The arrays a lookup reads: idx is the bucket of the first array as it was
\* before the step of rehashing.
Searched(d, idx) ==
    {t \in {1, 2} : (t = 1 => idx >= d.rehashidx) /\ (t = 2 => dictIsRehashing(d))}

\* The bucket the key is in, and the last one the search looked at.
LinksIn(d, key, tables) ==
    LET full == {t \in tables : Position(d.table[t][Slot(Hash[key], d.exp[t])], key) > 0}
        Link(t) == <<t, Slot(Hash[key], d.exp[t])>>
    IN  [dict |-> d,
         found |-> IF 1 \in full THEN Link(1) ELSE IF 2 \in full THEN Link(2) ELSE NoLink,
         bucket |-> IF 2 \in tables THEN Link(2) ELSE IF 1 \in tables THEN Link(1) ELSE NoLink]

LinkAfterStep(d, key, idx) == LinksIn(d, key, Searched(d, idx))

dictFindLinkInternal(d, key) ==
    LET idx == Slot(Hash[key], d.exp[1])
    IN  LinkAfterStep(_dictRehashStepIfNeeded(d, idx), key, idx)

dictFindLink(d, key) ==
    IF dictSize(d) = 0
    THEN [dict |-> d, found |-> NoLink, bucket |-> NoLink]
    ELSE dictFindLinkInternal(d, key)

\* The array of the link must be the one that accepts new keys.
dictInsertKeyAtLink(d, key, link) ==
    LET htidx == IF dictIsRehashing(d) THEN 2 ELSE 1
    IN  IF link[1] # htidx \/ link[2] \notin DOMAIN d.table[htidx]
        THEN [d EXCEPT !.asserts = FALSE]
        ELSE [d EXCEPT !.table[htidx][link[2]] = Push(d, key, @), !.used[htidx] = @ + 1]

\* Mutant: the link is used although the arrays may have changed.
InsertStale(d, e, key, link) ==
    IF link = NoLink
    THEN LET r == dictFindLinkInternal(e, key)
         IN  dictInsertKeyAtLink([r.dict EXCEPT !.asserts = @ /\ r.found = NoLink],
                                 key, r.bucket)
    ELSE dictInsertKeyAtLink(e, key, link)

\* A link survives dictExpandIfNeeded() only while the arrays stay the same.
InsertExpanded(d, e, key, link) ==
    IF e.exp # d.exp \/ link = NoLink
    THEN LET r == dictFindLinkInternal(e, key)
         IN  dictInsertKeyAtLink([r.dict EXCEPT !.asserts = @ /\ r.found = NoLink],
                                 key, r.bucket)
    ELSE dictInsertKeyAtLink(e, key, link)

\* dictSetKeyAtLink(d, key, &link, 1): a link from dictFindLink(), and a new key.
dictSetKeyAtLink(d, key, link) == InsertExpanded(d, dictExpandIfNeeded(d), key, link)

InsertUnlessFound(r, key) ==
    IF r.found # NoLink THEN r.dict ELSE dictInsertKeyAtLink(r.dict, key, r.bucket)

\* dictAdd, dictAddRaw with dictFindLinkForInsert: nothing when the key is there.
dictAdd(d, key) ==
    LET idx == Slot(Hash[key], d.exp[1])
    IN  InsertUnlessFound(
            LinkAfterStep(_dictExpandIfNeeded(_dictRehashStepIfNeeded(d, idx)), key, idx), key)

Unlink(d, key, link) ==
    [d EXCEPT !.table[link[1]][link[2]] = RemoveAt(@, Position(@, key)), !.used[link[1]] = @ - 1]

DeleteAt(r, key) ==
    IF r.found = NoLink
    THEN r
    ELSE [r EXCEPT !.dict = _dictShrinkIfNeeded(Unlink(@, key, r.found))]

\* dictUnlink, dictDelete: the dict afterwards, and where the key was.
dictGenericDelete(d, key) ==
    IF dictSize(d) = 0
    THEN [dict |-> d, found |-> NoLink, bucket |-> NoLink]
    ELSE DeleteAt(dictFindLinkInternal(d, key), key)

\* dictGetFairRandomKey: dictGetSomeKeys() steps the rehashing once per key it
\* is asked for, dictGetRandomKey() once more when no key came of it.
dictGetSomeKeys(d, count) == FoldLeft(LAMBDA e, i : dictRehash(e), d, [i \in 1 .. count |-> i])

-----------------------------------------------------------------------------
(* The contents. *)

\* The keys in the order an iterator returns them.
TableKeys(table, size) ==
    FoldLeft(LAMBDA s, i : s \o [j \in 1 .. Len(table[i - 1]) |-> table[i - 1][j].key],
             <<>>, [i \in 1 .. size |-> i])
Iterate(d) ==
    TableKeys(d.table[1], DICTHT_SIZE(d.exp[1])) \o TableKeys(d.table[2], DICTHT_SIZE(d.exp[2]))

\* Every key sits in the bucket its hash names, in an array lookups read for it.
WellPlaced(d) ==
    \A t \in {1, 2} : \A i \in DOMAIN d.table[t] : \A j \in DOMAIN d.table[t][i] :
        /\ Slot(Hash[d.table[t][i][j].key], d.exp[t]) = i
        /\ t = 1 => i >= d.rehashidx
        /\ d.table[t][i][j].inline => d.no_value /\ j = Len(d.table[t][i])

\* The dict holds exactly these keys, once each, and counts them right.
Holds(d, keys) ==
    /\ {Iterate(d)[i] : i \in 1 .. Len(Iterate(d))} = keys
    /\ Len(Iterate(d)) = Cardinality(keys)
    /\ \A t \in {1, 2} :
           d.used[t] = Len(TableKeys(d.table[t], DICTHT_SIZE(d.exp[t])))
    /\ dictIsRehashing(d) <=> d.exp[2] # -1
    /\ d.rehashidx <= DICTHT_SIZE(d.exp[1])
=============================================================================
