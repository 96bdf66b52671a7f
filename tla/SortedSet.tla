----------------------------- MODULE SortedSet ------------------------------
(***************************************************************************)
(* redislib's sorted set: facade/sortedset.c over kernel/t_zset.c, and     *)
(* under it the skiplist (Skiplist) and the hash table (Dict).             *)
(*                                                                         *)
(* A handle owns a small sorted array (listpack) of members and scores, or *)
(* a skiplist ordered by score together with a hash table of the same      *)
(* nodes.  Every command has to leave the two in step, through the random  *)
(* heights of the nodes and the buckets the table still has to move.       *)
(*                                                                         *)
(* The module follows one handle.  The other operand of the store commands *)
(* is a listpack some other handle holds.  A member is a number that says  *)
(* its lexicographic place, a score an integer or an infinity.  Weights,   *)
(* the option words and the reply shapes are left out, and so are the      *)
(* errors that arguments raise before anything has changed.                *)
(***************************************************************************)
EXTENDS Integers, Sequences, FiniteSets, SequencesExt, Dict, Skiplist

CONSTANTS
    Members,
    LongMembers,            \* members too long for a listpack
    Scores,                 \* bound: the scores the handle may hold
    INF,
    Deltas,                 \* increments
    Adds,                   \* argument lists of zadd: sequences of <<score, member>>
    Removals,               \* argument lists of zrem
    Bad,                    \* an argument that is no string or number
    Operands,               \* the other operand of the store commands
    Aggregates,
    Flags,                  \* option words of zadd
    Spans,                  \* rank ranges, <<start, end>>
    Ranges,                 \* score and lexicographic ranges
    Offsets,                \* LIMIT offsets
    PAUSES,                 \* bound: times a failed zrem may leave resizing paused
    zset_max_listpack_entries

ASSUME SortedSetAssumption ==
    /\ Members \subseteq Nat \ {HEAD} /\ Members \subseteq DOMAIN Hash /\ LongMembers \subseteq Members
    /\ INF \in Nat /\ Scores \subseteq (-INF) .. INF /\ Deltas \subseteq (-INF) .. INF
    /\ Adds \subseteq Seq(Scores \X Members) /\ \A flags \in Flags : "incr" \notin flags
    /\ Removals \subseteq Seq(Members \cup {Bad}) /\ Bad \notin Members
    /\ \A lp \in Operands :
          /\ lp \in Seq([ele : Members, score : (-INF) .. INF])
          /\ \A i, j \in DOMAIN lp :
                i < j => /\ lp[i].ele # lp[j].ele
                         /\ \/ lp[i].score < lp[j].score
                            \/ lp[i].score = lp[j].score /\ lp[i].ele < lp[j].ele
    /\ Spans \subseteq Int \X Int /\ Offsets \subseteq Int
    /\ Ranges \subseteq [lex : BOOLEAN, min : Int, max : Int, minex : BOOLEAN, maxex : BOOLEAN]
    /\ zset_max_listpack_entries \in Nat /\ PAUSES \in Nat

VARIABLES
    zobj,   \* the handle's object
    want,   \* history: the scores the commands so far should have left
    exact   \* history: the last command replied what it should have

vars == <<zobj, want, exact>>

-----------------------------------------------------------------------------
(* Scores. *)

NaN == INF + 1

\* Only opposite infinities have no sum; a sum that is out of range is infinite.
Plus(a, b) ==
    IF {a, b} = {INF, -INF}
    THEN NaN
    ELSE IF INF \in {a, b} THEN INF
         ELSE IF -INF \in {a, b} THEN -INF
              ELSE IF a + b > INF THEN INF ELSE IF a + b < -INF THEN -INF ELSE a + b

zunionInterAggregate(target, val, aggregate) ==
    IF aggregate = "min"
    THEN IF val < target THEN val ELSE target
    ELSE IF aggregate = "max"
         THEN IF val > target THEN val ELSE target
         ELSE IF Plus(target, val) = NaN THEN 0 ELSE Plus(target, val)

\* Of a set with weight 1.
zuiWeightedScore(score, aggregate) == IF aggregate = "count" THEN 1 ELSE score

-----------------------------------------------------------------------------
(* Listpacks: sequences of [ele, score], in the order of the skiplist. *)

zzlFind(lp, ele) == SelectInSeq(lp, LAMBDA e : e.ele = ele)

\* In front of the first entry that belongs after the new one.
zzlInsert(lp, ele, score) ==
    LET i == SelectInSeq(lp, LAMBDA e : e.score > score \/ (e.score = score /\ e.ele > ele))
    IN  InsertAt(lp, IF i = 0 THEN Len(lp) + 1 ELSE i, [ele |-> ele, score |-> score])

zzlDelete(lp, ele) == RemoveAt(lp, zzlFind(lp, ele))

-----------------------------------------------------------------------------
(* Objects. *)

Listpack(lp) == [encoding |-> "listpack", lp |-> lp, zsl |-> zslCreate, dict |-> dictCreate(TRUE)]
SkiplistOf(zsl, dict) == [encoding |-> "skiplist", lp |-> <<>>, zsl |-> zsl, dict |-> dict]

createZsetObject == SkiplistOf(zslCreate, dictCreate(TRUE))

zsetLength(z) == IF z.encoding = "listpack" THEN Len(z.lp) ELSE z.zsl.length

\* zslInsert and dictAdd of one member; lv has the random heights.
InsertBoth(z, ele, score, lv) ==
    SkiplistOf(zslInsert(z.zsl, score, ele, lv[ele]), dictAdd(z.dict, ele))

\* zsetConvertAndExpand to a skiplist, its dict sized for cap members.
zsetConvertAndExpand(z, cap, lv) ==
    FoldLeft(LAMBDA y, e : InsertBoth(y, e.ele, e.score, lv),
             SkiplistOf(zslCreate, dictExpand(dictCreate(TRUE), cap)), z.lp)

zsetTypeMaybeConvert(z, hint, lv) ==
    IF z.encoding = "listpack" /\ hint > zset_max_listpack_entries
    THEN zsetConvertAndExpand(z, hint, lv)
    ELSE z

zsetTypeCreate(hint) ==
    IF hint <= zset_max_listpack_entries
    THEN Listpack(<<>>)
    ELSE SkiplistOf(zslCreate, dictExpand(dictCreate(TRUE), hint))

\* The members from first to last.
Walk(z) ==
    IF z.encoding = "listpack"
    THEN z.lp
    ELSE [i \in 1 .. z.zsl.length |->
             [ele |-> Walked(z.zsl)[i], score |-> z.zsl.score[Walked(z.zsl)[i]]]]

zsetConvertToListpackIfNeeded(z) ==
    IF z.zsl.length <= zset_max_listpack_entries /\ Nodes(z.zsl) \cap LongMembers = {}
    THEN Listpack(Walk(z))
    ELSE z

-----------------------------------------------------------------------------
(* Adding. *)

\* Mutant: GT and LT compare the increment, not the sum.
RescoreEarly(score, cur, flags) ==
    LET new == IF "incr" \in flags THEN Plus(score, cur) ELSE score
    IN  IF "nx" \in flags \/ ("lt" \in flags /\ score >= cur) \/ ("gt" \in flags /\ score <= cur)
        THEN [out |-> "nop", score |-> cur]
        ELSE IF new = NaN
             THEN [out |-> "nan", score |-> cur]
             ELSE [out |-> IF new # cur THEN "updated" ELSE "same", score |-> new]

\* What zsetAdd does with a member that is there: NX, INCR, GT and LT.
Rescore(score, cur, flags) ==
    LET new == IF "incr" \in flags THEN Plus(score, cur) ELSE score
    IN  IF "nx" \in flags
        THEN [out |-> "nop", score |-> cur]
        ELSE IF new = NaN
             THEN [out |-> "nan", score |-> cur]
             ELSE IF ("lt" \in flags /\ new >= cur) \/ ("gt" \in flags /\ new <= cur)
                  THEN [out |-> "nop", score |-> cur]
                  ELSE [out |-> IF new # cur THEN "updated" ELSE "same", score |-> new]

Result(z, out, score) == [zobj |-> z, out |-> out, score |-> score]

AddListpack(z, ele, r) ==
    Result(IF r.out = "updated"
           THEN Listpack(zzlInsert(zzlDelete(z.lp, ele), ele, r.score))
           ELSE z,
           r.out, r.score)

AddSkiplist(zsl, dict, ele, r) ==
    Result(SkiplistOf(IF r.out = "updated" THEN zslUpdateScore(zsl, ele, r.score) ELSE zsl, dict),
           r.out, r.score)

\* link is what dictFindLink returned; the node goes into the dict at its bucket.
AddFound(zsl, link, ele, score, flags, lv) ==
    IF link.found # NoLink
    THEN AddSkiplist(zsl, link.dict, ele, Rescore(score, zsl.score[ele], flags))
    ELSE IF "xx" \in flags
         THEN Result(SkiplistOf(zsl, link.dict), "nop", score)
         ELSE Result(SkiplistOf(zslInsert(zsl, score, ele, lv[ele]),
                                dictSetKeyAtLink(link.dict, ele, link.bucket)),
                     "added", score)

AddTo(z, ele, score, flags, lv) ==
    AddFound(z.zsl, dictFindLink(z.dict, ele), ele, score, flags, lv)

\* Mutant: the number of entries is not looked at.
TooLong(z, ele) == ele \in LongMembers

TooLarge(z, ele) == Len(z.lp) + 1 > zset_max_listpack_entries \/ ele \in LongMembers

\* flags is a set of option words, incr among them.
zsetAdd(z, score, ele, flags, lv) ==
    IF z.encoding = "skiplist"
    THEN AddTo(z, ele, score, flags, lv)
    ELSE IF zzlFind(z.lp, ele) > 0
         THEN AddListpack(z, ele, Rescore(score, z.lp[zzlFind(z.lp, ele)].score, flags))
         ELSE IF "xx" \in flags
              THEN Result(z, "nop", score)
              ELSE IF TooLarge(z, ele)
                   THEN AddTo(zsetConvertAndExpand(z, zsetLength(z) + 1, lv),
                              ele, score, flags, lv)
                   ELSE Result(Listpack(zzlInsert(z.lp, ele, score)), "added", score)

\* lzadd_generic: a NaN ends the loop and keeps what was added before.
AddStep(acc, pair, flags, lv) ==
    IF acc.out = "nan"
    THEN acc
    ELSE LET r == zsetAdd(acc.zobj, pair[1], pair[2], flags, lv)
         IN  [zobj |-> r.zobj, out |-> r.out, score |-> r.score,
              added |-> acc.added + (IF r.out = "added" THEN 1 ELSE 0),
              updated |-> acc.updated + (IF r.out = "updated" THEN 1 ELSE 0)]

zadd(z, pairs, flags, lv) ==
    FoldLeft(LAMBDA acc, pair : AddStep(acc, pair, flags, lv),
             [zobj |-> zsetTypeMaybeConvert(z, Len(pairs), lv), out |-> "same", score |-> 0,
              added |-> 0, updated |-> 0],
             pairs)

-----------------------------------------------------------------------------
(* Removing. *)

\* dictUnlink first, then the node it returned.
RemoveUnlinked(zsl, r, ele) ==
    SkiplistOf(IF r.found # NoLink THEN zslDelete(zsl, ele) ELSE zsl, r.dict)
zsetRemoveFromSkiplist(z, ele) == RemoveUnlinked(z.zsl, dictGenericDelete(z.dict, ele), ele)

zsetDel(z, ele) ==
    IF z.encoding = "skiplist"
    THEN zsetRemoveFromSkiplist(z, ele)
    ELSE IF zzlFind(z.lp, ele) > 0 THEN Listpack(zzlDelete(z.lp, ele)) ELSE z

\* zrem and zremrange keep the dict from shrinking until they are done.
Pause(z) ==
    IF z.encoding = "skiplist" THEN [z EXCEPT !.dict = dictPauseAutoResize(@)] ELSE z
Resume(z) ==
    IF z.encoding = "skiplist"
    THEN [z EXCEPT !.dict = dictShrinkIfNeeded(dictResumeAutoResize(@))]
    ELSE z

\* The loop of lzrem: it ends early when the set is empty or rl_member raises.
RemStep(acc, ele) ==
    IF acc.stop \/ acc.raised
    THEN acc
    ELSE IF ele = Bad
         THEN [acc EXCEPT !.raised = TRUE]
         ELSE LET z == zsetDel(acc.zobj, ele)
              IN  [zobj |-> z, raised |-> FALSE, stop |-> zsetLength(z) = 0,
                   deleted |-> acc.deleted + zsetLength(acc.zobj) - zsetLength(z)]

RemDone(acc) == IF acc.raised THEN acc ELSE [acc EXCEPT !.zobj = Resume(@)]

zrem(z, eles) ==
    RemDone(FoldLeft(RemStep, [zobj |-> Pause(z), raised |-> FALSE, stop |-> FALSE, deleted |-> 0],
                     eles))

\* The rank form's bounds: negative ones count from the end.
Sanitize(llen, start, end) ==
    LET lo == Max({0, IF start < 0 THEN llen + start ELSE start})
        hi == IF end < 0 THEN llen + end ELSE end
    IN  IF lo > hi \/ lo >= llen THEN <<0, -1>> ELSE <<lo, Min({hi, llen - 1})>>

\* zzlFirstInRange, zzlLastInRange: an index, 0 for none.
LpBound(e, r) == IF r.lex THEN e.ele ELSE e.score
LpInRange(e, r) == GteMin(LpBound(e, r), r) /\ LteMax(LpBound(e, r), r)
zzlIsInRange(lp, r) ==
    /\ ~EmptyRange(r) /\ lp # <<>>
    /\ GteMin(LpBound(lp[Len(lp)], r), r) /\ LteMax(LpBound(lp[1], r), r)
zzlFirstInRange(lp, r) ==
    LET i == SelectInSeq(lp, LAMBDA e : GteMin(LpBound(e, r), r))
    IN  IF ~zzlIsInRange(lp, r) \/ i = 0 THEN 0 ELSE IF LpInRange(lp[i], r) THEN i ELSE 0
zzlLastInRange(lp, r) ==
    LET i == SelectLastInSeq(lp, LAMBDA e : LteMax(LpBound(e, r), r))
    IN  IF ~zzlIsInRange(lp, r) \/ i = 0 THEN 0 ELSE IF LpInRange(lp[i], r) THEN i ELSE 0

\* Without the first n entries; the first n entries.
Skip(s, n) == IF n >= Len(s) THEN <<>> ELSE SubSeq(s, n + 1, Len(s))
Take(s, n) == SubSeq(s, 1, Min({n, Len(s)}))

\* The longest run of s from place i on whose entries all satisfy Ok.
RunFrom(s, i, Ok(_)) ==
    IF i \notin DOMAIN s
    THEN <<>>
    ELSE LET stop == SelectInSubSeq(s, i, Len(s), LAMBDA e : ~Ok(e))
         IN  SubSeq(s, i, IF stop = 0 THEN Len(s) ELSE stop - 1)

\* The place of a node in the walk, 0 for NIL.
PlaceOf(w, x) == SelectInSeq(w, LAMBDA e : e.ele = x)

\* rl_collect_range: from the first member of the range while the bound holds.
CollectRank(z, lo, hi) ==
    IF hi < lo
    THEN <<>>
    ELSE SubSeq(Walk(z),
                IF z.encoding = "listpack"
                THEN lo + 1
                ELSE PlaceOf(Walk(z), zslGetElementByRank(z.zsl, lo + 1)),
                hi + 1)

CollectRange(z, r) ==
    RunFrom(Walk(z),
            IF z.encoding = "listpack"
            THEN zzlFirstInRange(z.lp, r)
            ELSE PlaceOf(Walk(z), zslNthInRange(z.zsl, r, 0).node),
            LAMBDA e : LteMax(LpBound(e, r), r))

DeleteAll(z, entries) == FoldLeft(LAMBDA y, e : zsetDel(y, e.ele), z, entries)

\* lzremrange_generic: an empty rank range returns before the pause.
zremrangebyrank(z, bounds) ==
    IF bounds[2] < bounds[1]
    THEN z
    ELSE Resume(DeleteAll(Pause(z), CollectRank(z, bounds[1], bounds[2])))

zremrange(z, r) == Resume(DeleteAll(Pause(z), CollectRange(z, r)))

\* rl_pop_collect: the first or the last member, again and again.
PopOne(acc, where) ==
    IF zsetLength(acc.zobj) = 0
    THEN acc
    ELSE LET z == acc.zobj
             ele == IF z.encoding = "listpack"
                    THEN z.lp[IF where = "max" THEN Len(z.lp) ELSE 1].ele
                    ELSE IF where = "max" THEN z.zsl.tail ELSE z.zsl.forward[HEAD][0]
         IN  [zobj |-> zsetDel(z, ele), popped |-> Append(acc.popped, ele)]

zpop(z, where, count) ==
    FoldLeft(LAMBDA acc, i : PopOne(acc, where), [zobj |-> z, popped |-> <<>>],
             [i \in 1 .. count |-> i])

-----------------------------------------------------------------------------
(* Reading. *)

\* zsetScore: the lookup may move buckets of the dict.
zsetScore(z, ele) ==
    IF z.encoding = "listpack"
    THEN IF zzlFind(z.lp, ele) = 0 THEN NaN ELSE z.lp[zzlFind(z.lp, ele)].score
    ELSE IF dictFindLink(z.dict, ele).found = NoLink THEN NaN ELSE z.zsl.score[ele]

Touch(z, ele) ==
    IF z.encoding = "listpack" THEN z ELSE [z EXCEPT !.dict = dictFindLink(@, ele).dict]

\* zsetRank, 0-based; -1 for a member that is not there.
RankFrom(llen, rank, reverse) ==
    IF rank = 0 THEN -1 ELSE IF reverse THEN llen - rank ELSE rank - 1
zsetRank(z, ele, reverse) ==
    RankFrom(zsetLength(z),
             IF z.encoding = "listpack"
             THEN zzlFind(z.lp, ele)
             ELSE IF dictFindLink(z.dict, ele).found = NoLink
                  THEN 0
                  ELSE zslGetRankByNode(z.zsl, ele),
             reverse)

zcount(z, r) ==
    IF z.encoding = "listpack"
    THEN Len(CollectRange(z, r))
    ELSE LET first == zslNthInRange(z.zsl, r, 0)
             last == zslNthInRange(z.zsl, r, -1)
         IN  IF first.node = NIL
             THEN 0
             ELSE z.zsl.length - (first.rank - 1)
                  - (IF last.node = NIL THEN 0 ELSE z.zsl.length - last.rank)

\* Members from ln on, along level 0 or backward.
Along(zsl, ln, reverse) ==
    LET Next(x) == IF x = NIL THEN NIL ELSE IF reverse THEN zsl.backward[x] ELSE zsl.forward[x][0]
        all == [i \in 1 .. zsl.length |-> Steps(ln, i - 1, Next)]
        stop == SelectInSeq(all, LAMBDA x : x = NIL)
        run == IF stop = 0 THEN all ELSE SubSeq(all, 1, stop - 1)
    IN  [i \in DOMAIN run |-> [ele |-> run[i], score |-> zsl.score[run[i]]]]

\* rl_zrange_byrank: the node the walk of a skiplist starts at.
RankStart(zsl, start, reverse) ==
    IF reverse
    THEN IF start > 0 THEN zslGetElementByRank(zsl, zsl.length - start) ELSE zsl.tail
    ELSE IF start > 0 THEN zslGetElementByRank(zsl, start + 1) ELSE zsl.forward[HEAD][0]

zrangebyrank(z, bounds, reverse) ==
    LET rangelen == bounds[2] - bounds[1] + 1
    IN  IF rangelen <= 0
        THEN <<>>
        ELSE Take(IF z.encoding = "skiplist"
                  THEN Along(z.zsl, RankStart(z.zsl, bounds[1], reverse), reverse)
                  ELSE Skip(IF reverse THEN Reverse(z.lp) ELSE z.lp, bounds[1]),
                  rangelen)

\* rl_zrange_byscore, rl_zrange_bylex: where the walk starts.
RangeStart(z, r, offset, reverse) ==
    IF z.encoding = "skiplist"
    THEN Along(z.zsl, zslNthInRange(z.zsl, r, IF reverse THEN -offset - 1 ELSE offset).node,
               reverse)
    ELSE IF reverse
         THEN Skip(Reverse(Take(z.lp, zzlLastInRange(z.lp, r))), offset)
         ELSE IF zzlFirstInRange(z.lp, r) = 0
              THEN <<>>
              ELSE Skip(z.lp, zzlFirstInRange(z.lp, r) - 1 + offset)

zrangebyscore(z, r, offset, limit, reverse) ==
    IF offset < 0 \/ (offset > 0 /\ offset >= zsetLength(z))
    THEN <<>>
    ELSE LET run == RunFrom(RangeStart(z, r, offset, reverse), 1,
                        LAMBDA e : IF reverse
                                   THEN GteMin(LpBound(e, r), r) ELSE LteMax(LpBound(e, r), r))
         IN  IF limit < 0 THEN run ELSE Take(run, limit)

-----------------------------------------------------------------------------
(* Storing into the handle. *)

\* zrangestore, rl_load_zset: a fresh object, then zsetAdd of every entry.
Rebuild(entries, hint, lv) ==
    FoldLeft(LAMBDA z, e : zsetAdd(z, e.score, e.ele, {}, lv).zobj, zsetTypeCreate(hint), entries)

\* The by-rank form knows its length, the others start with a listpack.
zrangestorebyrank(entries, lv) == Rebuild(entries, Len(entries), lv)
zrangestore(entries, lv) == Rebuild(entries, 0, lv)

\* load(dump()) of the same set.
load(z, lv) == Rebuild(Walk(z), zsetLength(z), lv)

\* qsort by zuiCompareByCardinality; equal sets keep their order.
BySize(a, b) == IF zsetLength(b) < zsetLength(a) THEN <<b, a>> ELSE <<a, b>>

\* zuiNext goes from the last entry to the first.
Backwards(z) == IF z.encoding = "listpack" THEN Reverse(z.lp) ELSE Along(z.zsl, z.zsl.tail, TRUE)

\* A dict of members with a score each, where unions and differences are made.
Staging(size) == [dict |-> dictExpand(dictCreate(FALSE), size), score |-> [x \in {} |-> 0]]

StageNew(acc, d, ele, s) ==
    [dict |-> dictAdd(d, ele),
     score |-> [x \in DOMAIN acc.score \cup {ele} |-> IF x = ele THEN s ELSE acc.score[x]]]

StageFound(acc, link, ele, s, aggregate) ==
    IF link.found = NoLink
    THEN StageNew(acc, link.dict, ele, s)
    ELSE [dict |-> link.dict,
          score |-> [acc.score EXCEPT ![ele] = zunionInterAggregate(@, s, aggregate)]]

StageStep(acc, e, aggregate) ==
    StageFound(acc, dictFindLink(acc.dict, e.ele), e.ele,
               zuiWeightedScore(e.score, aggregate), aggregate)

UnstageStep(acc, link, ele) ==
    IF link.found = NoLink
    THEN [acc EXCEPT !.dict = link.dict]
    ELSE [acc EXCEPT !.dict = dictGenericDelete(link.dict, ele).dict]

Staged(acc) ==
    LET keys == Iterate(acc.dict)
    IN  [i \in DOMAIN keys |-> [ele |-> keys[i], score |-> acc.score[keys[i]]]]

UnionOf(srcs, aggregate) ==
    Staged(FoldLeft(LAMBDA acc, e : StageStep(acc, e, aggregate), Staging(zsetLength(srcs[2])),
                    Backwards(srcs[1]) \o Backwards(srcs[2])))

\* The members of the smallest set, looked up in the other.
InterStep(acc, e, other, aggregate) ==
    IF other = NaN
    THEN [acc EXCEPT !.zobj = Touch(@, e.ele)]
    ELSE [zobj |-> Touch(acc.zobj, e.ele),
          out |-> Append(acc.out,
                    [ele |-> e.ele,
                     score |-> zunionInterAggregate(zuiWeightedScore(e.score, aggregate),
                                   zuiWeightedScore(other, aggregate), aggregate)])]

InterOf(srcs, aggregate) ==
    FoldLeft(LAMBDA acc, e : InterStep(acc, e, zsetScore(acc.zobj, e.ele), aggregate),
             [zobj |-> srcs[2], out |-> <<>>], Backwards(srcs[1])).out

\* The first set, without the members of the second.
DiffOf(a, b) ==
    Staged(FoldLeft(
        LAMBDA acc, e : IF dictSize(acc.dict) = 0 THEN acc
                        ELSE UnstageStep(acc, dictFindLink(acc.dict, e.ele), e.ele),
        FoldLeft(LAMBDA acc, e : StageNew(acc, acc.dict, e.ele, e.score),
                 Staging(zsetLength(a)), Backwards(a)),
        Backwards(b)))

SetOp(op, a, b, aggregate) ==
    IF op = "diff" THEN DiffOf(a, b)
    ELSE IF op = "union" THEN UnionOf(BySize(a, b), aggregate)
         ELSE InterOf(BySize(a, b), aggregate)

\* rl_setop_generic, store form: the result replaces the destination.
setopstore(entries, lv) ==
    IF entries = <<>>
    THEN zsetTypeCreate(0)
    ELSE zsetConvertToListpackIfNeeded(
             FoldLeft(LAMBDA z, e : InsertBoth(z, e.ele, e.score, lv), createZsetObject, entries))

-----------------------------------------------------------------------------
(* What the commands promise: a function from members to scores. *)

Put(map, x, s) == [y \in DOMAIN map \cup {x} |-> IF y = x THEN s ELSE map[y]]
Only(map, kept) == [y \in kept |-> map[y]]
Without(map, gone) == Only(map, DOMAIN map \ gone)
Of(entries) == [x \in {entries[i].ele : i \in DOMAIN entries} |-> entries[PlaceOf(entries, x)].score]

\* A pair that is refused by its options, or whose sum is no number, changes nothing.
Wanted(map, x, s, flags) ==
    IF x \notin DOMAIN map
    THEN "xx" \notin flags
    ELSE /\ "nx" \notin flags /\ s # NaN
         /\ "gt" \in flags => s > map[x]
         /\ "lt" \in flags => s < map[x]

Sum(map, x, delta) == IF x \in DOMAIN map THEN Plus(map[x], delta) ELSE delta

AddAll(map, pairs, flags) ==
    FoldLeft(LAMBDA m, p : IF Wanted(m, p[2], p[1], flags) THEN Put(m, p[2], p[1]) ELSE m,
             map, pairs)

\* The pairs that give a member that was there another score.
Updates(map, pairs, flags) ==
    {i \in DOMAIN pairs :
        LET before == AddAll(map, SubSeq(pairs, 1, i - 1), flags)
        IN  /\ pairs[i][2] \in DOMAIN before
            /\ AddAll(map, SubSeq(pairs, 1, i), flags) # before}

\* Bounds on members only mean something among equal scores.
Meant(map, r) == r.lex => \A x, y \in DOMAIN map : map[x] = map[y]
InRange(map, r, x) == LET v == IF r.lex THEN x ELSE map[x] IN GteMin(v, r) /\ LteMax(v, r)

\* Sorted members, or those of a range, in either direction.
Listed(map, reverse) == IF reverse THEN Reverse(Sorted(map)) ELSE Sorted(map)
ListedIn(map, r, reverse) == Listed(Only(map, {x \in DOMAIN map : InRange(map, r, x)}), reverse)
Paired(map, s) == [i \in DOMAIN s |-> [ele |-> s[i], score |-> map[s[i]]]]

\* start and end count from 0, or from the end when negative.
ListedAt(map, span, reverse) ==
    LET n == Cardinality(DOMAIN map)
        At(i) == IF i < 0 THEN n + i ELSE i
        places == {i \in 0 .. (n - 1) : At(span[1]) <= i /\ i <= At(span[2])}
    IN  Listed(Only(map, {Listed(map, reverse)[i + 1] : i \in places}), reverse)

Limited(s, offset, limit) ==
    IF offset < 0 THEN <<>> ELSE IF limit < 0 THEN Skip(s, offset) ELSE Take(Skip(s, offset), limit)

Merged(op, a, b, aggregate) ==
    LET Value(map, x) == IF aggregate = "count" THEN 1 ELSE map[x]
        Both(x) == zunionInterAggregate(Value(a, x), Value(b, x), aggregate)
        keys == CASE op = "union" -> DOMAIN a \cup DOMAIN b
                  [] op = "inter" -> DOMAIN a \cap DOMAIN b
                  [] op = "diff" -> DOMAIN a \ DOMAIN b
    IN  [x \in keys |->
            IF op = "diff" THEN a[x]
            ELSE IF x \in DOMAIN a \cap DOMAIN b THEN Both(x)
            ELSE IF x \in DOMAIN a THEN Value(a, x) ELSE Value(b, x)]

-----------------------------------------------------------------------------
(* The commands of the handle. *)

\* Random heights for the nodes a command may create.
Heights(eles) == [eles -> Levels]
ElesOf(entries) == {entries[i].ele : i \in DOMAIN entries}
MayCreate(z, eles) == eles \cup ElesOf(z.lp)

\* The bound on scores.
Bounded(z) == \A i \in DOMAIN Walk(z) : Walk(z)[i].score \in Scores

Become(z, map, ok) == Bounded(z) /\ zobj' = z /\ want' = map /\ exact' = ok

Init == zobj = zsetTypeCreate(0) /\ want = Of(<<>>) /\ exact = TRUE

\* r is what zadd returned.
Added(r, map, updates) ==
    Become(r.zobj, map,
           r.added = Cardinality(DOMAIN map \ DOMAIN want) /\ r.updated = Cardinality(updates))
Zadd ==
    \E pairs \in Adds, flags \in Flags :
        \E lv \in Heights(MayCreate(zobj, {pairs[i][2] : i \in DOMAIN pairs})) :
            Added(zadd(zobj, pairs, flags, lv), AddAll(want, pairs, flags),
                  Updates(want, pairs, flags))

\* zincrby and zadd with INCR.
Incremented(r, ele, flags, sum) ==
    IF Wanted(want, ele, sum, flags)
    THEN Become(r.zobj, Put(want, ele, sum), r.out \in {"added", "updated", "same"} /\ r.score = sum)
    ELSE Become(r.zobj, want, r.out = IF sum = NaN /\ "nx" \notin flags THEN "nan" ELSE "nop")
Zincrby ==
    \E delta \in Deltas, ele \in Members, flags \in Flags :
        \E lv \in Heights(MayCreate(zobj, {ele})) :
            Incremented(zadd(zobj, <<<<delta, ele>>>>, flags \cup {"incr"}, lv),
                        ele, flags, Sum(want, ele, delta))

\* The arguments before the one that raises are removed.
Removed(r, gone) ==
    Become(r.zobj, Without(want, gone),
           r.raised \/ r.deleted = Cardinality(gone \cap DOMAIN want))
Zrem ==
    \E eles \in Removals :
        /\ Bad \in Range(eles) => zobj.dict.pauseAutoResize < PAUSES
        /\ Removed(zrem(zobj, eles), Range(RunFrom(eles, 1, LAMBDA e : e # Bad)))

Zremrangebyrank ==
    \E span \in Spans :
        Become(zremrangebyrank(zobj, Sanitize(zsetLength(zobj), span[1], span[2])),
               Without(want, Range(ListedAt(want, span, FALSE))), TRUE)

RemovedRange(z, r) ==
    Become(z, IF Meant(want, r) THEN Without(want, Range(ListedIn(want, r, FALSE))) ELSE Of(Walk(z)),
           TRUE)
Zremrange == \E r \in Ranges : RemovedRange(zremrange(zobj, r), r)

Popped(r, first) == Become(r.zobj, Without(want, Range(first)), r.popped = first)
Zpop ==
    \E where \in {"min", "max"}, count \in 1 .. 2 :
        Popped(zpop(zobj, where, count), Take(Listed(want, where = "max"), count))

\* zscore, zmscore, zrank, zrevrank, and the lookups of zinter.
Lookup == \E ele \in Members : Become(Touch(zobj, ele), want, TRUE)

\* zrandmember of a skiplist.
Zrandmember ==
    /\ zobj.encoding = "skiplist" /\ zsetLength(zobj) > 0
    /\ \E more \in {0, 1} :
           Become([zobj EXCEPT !.dict = dictGetSomeKeys(@, zsetLength(zobj) + more)], want, TRUE)

StoreRank(entries, members) ==
    \E lv \in Heights(ElesOf(entries)) :
        Become(zrangestorebyrank(entries, lv), Of(Paired(want, members)), TRUE)
StoreRange(entries, r, members) ==
    \E lv \in Heights(ElesOf(entries)) :
        Become(zrangestore(entries, lv),
               IF Meant(want, r) THEN Of(Paired(want, members)) ELSE Of(entries), TRUE)
Zrangestore ==
    \E reverse \in BOOLEAN :
        \/ \E span \in Spans :
               StoreRank(zrangebyrank(zobj, Sanitize(zsetLength(zobj), span[1], span[2]), reverse),
                         ListedAt(want, span, reverse))
        \/ \E r \in Ranges, offset \in Offsets :
               StoreRange(zrangebyscore(zobj, r, offset, -1, reverse), r,
                          Limited(ListedIn(want, r, reverse), offset, -1))

Load == \E lv \in Heights(ElesOf(Walk(zobj))) : Become(load(zobj, lv), want, TRUE)

Store(entries, map) ==
    \E lv \in Heights(ElesOf(entries)) : Become(setopstore(entries, lv), map, TRUE)

\* zunionstore, zinterstore, zdiffstore with the handle as destination and operand.
Zsetopstore ==
    \E lp \in Operands, aggregate \in Aggregates :
        \/ \E op \in {"union", "inter", "diff"} :
               Store(SetOp(op, zobj, Listpack(lp), aggregate), Merged(op, want, Of(lp), aggregate))
        \/ Store(SetOp("diff", Listpack(lp), zobj, aggregate),
                 Merged("diff", Of(lp), want, aggregate))

Next ==
    \/ Zadd \/ Zincrby \/ Zrem \/ Zremrangebyrank \/ Zremrange \/ Zpop
    \/ Lookup \/ Zrandmember \/ Zrangestore \/ Load \/ Zsetopstore

Spec == Init /\ [][Next]_vars

-----------------------------------------------------------------------------
(* Properties. *)

\* The object has one of two encodings; a listpack holds members with bounded
\* scores and is within its limits, and only failed removals leave the dict paused.
TypeOK ==
    /\ zobj.encoding \in {"listpack", "skiplist"}
    /\ zobj.lp \in Seq([ele : Members \ LongMembers, score : Scores])
    /\ Len(zobj.lp) <= zset_max_listpack_entries
    /\ Nodes(zobj.zsl) \subseteq Members /\ zobj.zsl.score \in [Nodes(zobj.zsl) -> Scores]
    /\ zobj.dict.pauseAutoResize \in 0 .. PAUSES
    /\ exact \in BOOLEAN

\* The skiplist is the one its members and scores call for: every level links
\* exactly the nodes tall enough in order of score and member, every span counts
\* the nodes its pointer jumps, backward pointers, tail, length and level agree,
\* and no assertion of zslDelete or zslUpdateScore failed.
SkiplistSound == zobj.zsl.asserts /\ LinkedAs(zobj.zsl, Sorted(zobj.zsl.score))

\* The hash table holds exactly the nodes of the skiplist, however far a rehash has
\* come: each one once, in a bucket its lookup reads, counted in its array, with no
\* chain behind a key without entry, and no assertion about links failed.
DictSound ==
    /\ zobj.dict.asserts /\ WellPlaced(zobj.dict)
    /\ Holds(zobj.dict, Nodes(zobj.zsl))

\* Every command leaves the members and scores, and replies the counts, the score or
\* the members, that its documentation promises for any history of commands before.
CommandsExact == exact /\ Of(Walk(zobj)) = want /\ zsetLength(zobj) = Cardinality(DOMAIN want)

\* Every query answers from the current members: score, rank from either end, range
\* by rank, by score and by member with offset and limit, and the count of a range.
QueriesExact ==
    /\ \A x \in Members :
          /\ zsetScore(zobj, x) = IF x \in DOMAIN want THEN want[x] ELSE NaN
          /\ \A reverse \in BOOLEAN :
                zsetRank(zobj, x, reverse) + 1
                    = SelectInSeq(Listed(want, reverse), LAMBDA y : y = x)
    /\ \A span \in Spans, reverse \in BOOLEAN :
          zrangebyrank(zobj, Sanitize(zsetLength(zobj), span[1], span[2]), reverse)
              = Paired(want, ListedAt(want, span, reverse))
    /\ \A r \in {q \in Ranges : Meant(want, q)} :
          /\ zcount(zobj, r) = Len(ListedIn(want, r, FALSE))
          /\ \A offset \in Offsets, limit \in {-1, 1}, reverse \in BOOLEAN :
                zrangebyscore(zobj, r, offset, limit, reverse)
                    = Paired(want, Limited(ListedIn(want, r, reverse), offset, limit))
=============================================================================
