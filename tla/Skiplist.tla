------------------------------ MODULE Skiplist ------------------------------
(***************************************************************************)
(* The skiplist of kernel/t_zset.c, as operators on a value.               *)
(*                                                                         *)
(* A node is its element: the nodes of one list have different elements,   *)
(* and an element is a number that says its lexicographic place.  Beside   *)
(* every forward pointer is a span, the number of nodes the pointer jumps  *)
(* over; ranks are sums of spans.  The span of level 0 holds something     *)
(* else (zslSetNodeInfo) and is taken as 1, or 0 at the end, when read.    *)
(***************************************************************************)
EXTENDS Integers, Sequences, FiniteSets, FiniteSetsExt, SequencesExt

CONSTANTS
    ZSKIPLIST_MAXLEVEL,
    ZSKIPLIST_MAX_SEARCH    \* offsets from here on are found by rank, not step by step

ASSUME SkiplistAssumption == ZSKIPLIST_MAXLEVEL \in Nat \ {0} /\ ZSKIPLIST_MAX_SEARCH \in Nat

HEAD == 0
NIL == -1

Levels == 1 .. ZSKIPLIST_MAXLEVEL
Each(v) == [i \in 0 .. (ZSKIPLIST_MAXLEVEL - 1) |-> v]

zslCreate ==
    [level |-> 1, length |-> 0, tail |-> NIL, asserts |-> TRUE,
     score |-> [x \in {} |-> 0], levels |-> [x \in {} |-> 1], backward |-> [x \in {} |-> NIL],
     forward |-> [x \in {HEAD} |-> Each(NIL)], span |-> [x \in {HEAD} |-> Each(0)]]

Nodes(z) == DOMAIN z.score

zslGetNodeSpanAtLevel(z, x, i) ==
    IF i > 0 THEN z.span[x][i] ELSE IF z.forward[x][0] # NIL THEN 1 ELSE 0

\* The position {score, ele} is after node n.
After(z, s, ele, n) == n # NIL /\ (s > z.score[n] \/ (s = z.score[n] /\ ele > n))

-----------------------------------------------------------------------------
(* Walking. A position is a node and the spans crossed to reach it. *)

Start == [node |-> HEAD, rank |-> 0]

Hop(z, p, i) ==
    [node |-> z.forward[p.node][i], rank |-> p.rank + zslGetNodeSpanAtLevel(z, p.node, i)]

\* Along level i while Pass says so; a list of n nodes takes at most n hops.
Advance(z, p, i, Pass(_, _)) ==
    LET go[n \in 0 .. z.length] ==
            IF n = 0
            THEN p
            ELSE LET q == go[n - 1] IN IF Pass(q, i) THEN Hop(z, q, i) ELSE q
    IN  go[z.length]

\* From p at level top down to level 0: the position where each level was left.
Descend(z, p, top, Pass(_, _)) ==
    LET at[i \in 0 .. (top + 1)] == IF i > top THEN p ELSE Advance(z, at[i + 1], i, Pass)
    IN  [i \in 0 .. top |-> at[i]]

\* update[] and rank[] of the insertions and deletions.
Path(z, s, ele) ==
    Descend(z, Start, z.level - 1, LAMBDA p, i : After(z, s, ele, z.forward[p.node][i]))

-----------------------------------------------------------------------------
(* Insertion and deletion. *)

\* Mutant: levels the new node does not reach keep their spans.
SpansUntouched(z, lv, upd, n) ==
    [i \in DOMAIN z.span[n] |->
        IF i > 0 /\ i < lv /\ i \in DOMAIN upd /\ upd[i].node = n
        THEN upd[0].rank - upd[i].rank + 1
        ELSE z.span[n][i]]

\* The spans of node n when a node of lv levels is put behind the positions of upd.
SpansWith(z, lv, upd, n) ==
    [i \in DOMAIN z.span[n] |->
        IF i > 0 /\ i \in DOMAIN upd /\ upd[i].node = n
        THEN IF i < lv THEN upd[0].rank - upd[i].rank + 1 ELSE z.span[n][i] + 1
        ELSE z.span[n][i]]

\* The spans of the new node; a new level spans the whole list before.
SpansOf(z, lv, upd) ==
    [i \in 0 .. (lv - 1) |->
        IF i = 0
        THEN 0
        ELSE (IF i >= z.level THEN z.length ELSE zslGetNodeSpanAtLevel(z, upd[i].node, i))
             - (upd[0].rank - upd[i].rank)]

LinkBehind(z, x, s, lv, upd, next) ==
    LET all == Nodes(z) \cup {x}
    IN  [z EXCEPT
            !.level = IF lv > @ THEN lv ELSE @,
            !.length = @ + 1,
            !.tail = IF next = NIL THEN x ELSE @,
            !.score = [n \in all |-> IF n = x THEN s ELSE z.score[n]],
            !.levels = [n \in all |-> IF n = x THEN lv ELSE z.levels[n]],
            !.backward = [n \in all |->
                IF n = x
                THEN IF upd[0].node = HEAD THEN NIL ELSE upd[0].node
                ELSE IF n = next THEN x ELSE z.backward[n]],
            !.forward = [n \in all \cup {HEAD} |->
                IF n = x
                THEN [i \in 0 .. (lv - 1) |-> z.forward[upd[i].node][i]]
                ELSE [i \in DOMAIN z.forward[n] |->
                         IF i < lv /\ i \in DOMAIN upd /\ upd[i].node = n
                         THEN x ELSE z.forward[n][i]]],
            !.span = [n \in all \cup {HEAD} |->
                IF n = x THEN SpansOf(z, lv, upd) ELSE SpansWith(z, lv, upd, n)]]

LinkAt(z, x, s, lv, path) ==
    LET upd == [i \in 0 .. ((IF lv > z.level THEN lv ELSE z.level) - 1) |->
                    IF i < z.level THEN path[i] ELSE Start]
    IN  LinkBehind(z, x, s, lv, upd, z.forward[upd[0].node][0])

\* zslInsert with zslInsertNode: lv is what zslRandomLevel() returned.
zslInsert(z, s, ele, lv) == LinkAt(z, ele, s, lv, Path(z, s, ele))

\* Levels whose list is empty are dropped from the top, and their spans cleared.
DropLevels(z, level) ==
    [z EXCEPT !.level = level,
              !.span[HEAD] = [i \in DOMAIN @ |->
                                 IF level <= i /\ i < z.level THEN 0 ELSE @[i]]]

UsedLevels(z) == Max({1} \cup {i + 1 : i \in {j \in 1 .. (z.level - 1) : z.forward[HEAD][j] # NIL}})

TrimLevels(z) == DropLevels(z, UsedLevels(z))

UnlinkFrom(z, x, upd, next) ==
    LET rest == Nodes(z) \ {x}
        on(n) == {i \in DOMAIN upd : upd[i].node = n}
    IN  [z EXCEPT
            !.length = @ - 1,
            !.tail = IF next = NIL THEN z.backward[x] ELSE @,
            !.score = [n \in rest |-> z.score[n]],
            !.levels = [n \in rest |-> z.levels[n]],
            !.backward = [n \in rest |-> IF n = next THEN z.backward[x] ELSE z.backward[n]],
            !.forward = [n \in rest \cup {HEAD} |->
                [i \in DOMAIN z.forward[n] |->
                    IF i \in on(n) /\ z.forward[n][i] = x
                    THEN z.forward[x][i] ELSE z.forward[n][i]]],
            !.span = [n \in rest \cup {HEAD} |->
                [i \in DOMAIN z.span[n] |->
                    IF i = 0 \/ i \notin on(n)
                    THEN z.span[n][i]
                    ELSE IF z.forward[n][i] = x
                         THEN z.span[n][i] + zslGetNodeSpanAtLevel(z, x, i) - 1
                         ELSE z.span[n][i] - 1]]]

zslUnlinkNode(z, x, upd) == TrimLevels(UnlinkFrom(z, x, upd, z.forward[x][0]))

DeleteBehind(z, x, upd) ==
    IF z.forward[upd[0].node][0] # x
    THEN [z EXCEPT !.asserts = FALSE]
    ELSE zslUnlinkNode(z, x, upd)

zslDelete(z, x) == DeleteBehind(z, x, Path(z, z.score[x], x))

\* The node would stay where it is.
InPlace(z, x, s) ==
    /\ z.backward[x] = NIL \/ z.score[z.backward[x]] < s
    /\ z.forward[x][0] = NIL \/ z.score[z.forward[x][0]] > s

zslUpdateScore(z, x, s) ==
    IF InPlace(z, x, s)
    THEN [z EXCEPT !.score[x] = s]
    ELSE zslInsert(zslDelete(z, x), s, x, z.levels[x])

-----------------------------------------------------------------------------
(* Ranks and ranges. *)

\* By each node's top level to the end.
zslGetRankByNode(z, x) ==
    LET far[n \in 0 .. z.length] ==
            IF n = 0
            THEN [node |-> x, rank |-> 0]
            ELSE LET p == far[n - 1]
                 IN  IF p.node = NIL THEN p ELSE Hop(z, p, z.levels[p.node] - 1)
    IN  z.length - far[z.length].rank

\* rank is unsigned: below 0 it is larger than any sum of spans.
zslGetElementByRankFromNode(z, x, top, rank) ==
    LET at == Descend(z, [node |-> x, rank |-> 0], top,
                      LAMBDA p, i : /\ z.forward[p.node][i] # NIL
                                    /\ rank < 0 \/ Hop(z, p, i).rank <= rank)
        hit == {i \in DOMAIN at : at[i].rank = rank}
    IN  IF hit = {} THEN NIL ELSE at[Max(hit)].node

zslGetElementByRank(z, rank) == zslGetElementByRankFromNode(z, HEAD, z.level - 1, rank)

\* A range of scores, or of elements.
Bound(z, r, x) == IF r.lex THEN x ELSE z.score[x]
GteMin(v, r) == IF r.minex THEN v > r.min ELSE v >= r.min
LteMax(v, r) == IF r.maxex THEN v < r.max ELSE v <= r.max

EmptyRange(r) == r.min > r.max \/ (r.min = r.max /\ (r.minex \/ r.maxex))

zslIsInRange(z, r) ==
    /\ ~EmptyRange(r)
    /\ z.tail # NIL /\ GteMin(Bound(z, r, z.tail), r)
    /\ z.forward[HEAD][0] # NIL /\ LteMax(Bound(z, r, z.forward[HEAD][0]), r)

\* k steps along Next from x, node by node.
Steps(x, k, Next(_)) ==
    LET s[j \in 0 .. k] == IF j = 0 THEN x ELSE Next(s[j - 1]) IN s[k]

Nowhere == [node |-> NIL, rank |-> 0]

Reached(x, rank, ok(_)) == IF x = NIL THEN Nowhere
                           ELSE IF ok(x) THEN [node |-> x, rank |-> rank] ELSE Nowhere

\* last is where the search left the top level, edge the last node before the range.
NthFromFirst(z, r, n, last, edge) ==
    IF edge.rank + n >= z.length
    THEN Nowhere
    ELSE Reached(
             IF n < ZSKIPLIST_MAX_SEARCH
             THEN Steps(edge.node, n + 1, LAMBDA x : z.forward[x][0])
             ELSE zslGetElementByRankFromNode(z, last.node, z.level - 1,
                                              edge.rank + 1 + n - last.rank),
             edge.rank + n + 1, LAMBDA x : LteMax(Bound(z, r, x), r))

\* Mutant: the rank is counted from the head although the search goes on from last.
NthFromLastFar(z, r, n, last, edge) ==
    IF edge.rank < -n
    THEN Nowhere
    ELSE Reached(
             IF n + 1 > -ZSKIPLIST_MAX_SEARCH
             THEN Steps(edge.node, -n - 1, LAMBDA x : z.backward[x])
             ELSE zslGetElementByRankFromNode(z, last.node, z.level - 1,
                                              edge.rank + 1 + n),
             edge.rank + n + 1, LAMBDA x : GteMin(Bound(z, r, x), r))

\* edge is the last node in the range.
NthFromLast(z, r, n, last, edge) ==
    IF edge.rank < -n
    THEN Nowhere
    ELSE Reached(
             IF n + 1 > -ZSKIPLIST_MAX_SEARCH
             THEN Steps(edge.node, -n - 1, LAMBDA x : z.backward[x])
             ELSE zslGetElementByRankFromNode(z, last.node, z.level - 1,
                                              edge.rank + 1 + n - last.rank),
             edge.rank + n + 1, LAMBDA x : GteMin(Bound(z, r, x), r))

NthFrom(z, r, n, below) ==
    IF n >= 0
    THEN NthFromFirst(z, r, n, below[z.level - 1], below[0])
    ELSE NthFromLast(z, r, n, below[z.level - 1],
             Descend(z, below[z.level - 1], z.level - 1,
                     LAMBDA p, i : /\ z.forward[p.node][i] # NIL
                                   /\ LteMax(Bound(z, r, z.forward[p.node][i]), r))[0])

\* zslNthInRange and zslNthInLexRange: node and 1-based rank.
zslNthInRange(z, r, n) ==
    IF ~zslIsInRange(z, r)
    THEN Nowhere
    ELSE NthFrom(z, r, n,
             Descend(z, Start, z.level - 1,
                     LAMBDA p, i : /\ z.forward[p.node][i] # NIL
                                   /\ ~GteMin(Bound(z, r, z.forward[p.node][i]), r)))

-----------------------------------------------------------------------------
(* The list a set of scored elements should be. *)

\* The order of the list.
Precedes(score, a, b) == score[a] < score[b] \/ (score[a] = score[b] /\ a < b)

\* The elements of a score map in the order of the list.
Sorted(score) ==
    CHOOSE ord \in [1 .. Cardinality(DOMAIN score) -> DOMAIN score] :
        \A i, j \in DOMAIN ord : i < j => Precedes(score, ord[i], ord[j])

\* The elements of the list as level 0 links them.
Walked(z) ==
    FoldLeft(LAMBDA s, i : LET x == z.forward[IF s = <<>> THEN HEAD ELSE s[i - 1]][0]
                           IN  Append(s, x),
             <<>>, [i \in 1 .. z.length |-> i])

\* Every pointer, span and counter, given the sorted elements.
LinkedAs(z, ord) ==
    LET Place(x) == IF x = HEAD THEN 0 ELSE CHOOSE i \in DOMAIN ord : ord[i] = x
        Height(x) == IF x = HEAD THEN ZSKIPLIST_MAXLEVEL ELSE z.levels[x]
        Behind(x, i) == {j \in DOMAIN ord : j > Place(x) /\ z.levels[ord[j]] > i}
    IN  /\ z.length = Cardinality(DOMAIN ord)
        /\ z.level = Max({1} \cup {z.levels[x] : x \in Nodes(z)})
        /\ z.tail = (IF z.length = 0 THEN NIL ELSE ord[z.length])
        /\ \A x \in Nodes(z) :
               z.backward[x] = (IF Place(x) = 1 THEN NIL ELSE ord[Place(x) - 1])
        /\ \A x \in Nodes(z) \cup {HEAD} : \A i \in 0 .. (Height(x) - 1) :
               IF Behind(x, i) = {}
               THEN /\ z.forward[x][i] = NIL
                    /\ i > 0 => z.span[x][i] = (IF i < z.level THEN z.length - Place(x) ELSE 0)
               ELSE /\ z.forward[x][i] = ord[Min(Behind(x, i))]
                    /\ i > 0 => z.span[x][i] = Min(Behind(x, i)) - Place(x)
=============================================================================
