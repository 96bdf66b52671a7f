---------------------------- MODULE MCSortedSet -----------------------------
(* An instance of SortedSet for TLC. *)
EXTENDS SortedSet

MCHash == <<0, 2, 1>>

Between(lex, min, max, minex, maxex) ==
    [lex |-> lex, min |-> min, max |-> max, minex |-> minex, maxex |-> maxex]

MCAdds == {<<<<s, m>>>> : s \in Scores, m \in Members}
          \cup {<<<<1, 3>>, <<INF, 1>>, <<1, 2>>>>, <<<<INF, 2>>, <<1, 2>>>>}
MCRemovals == {<<1>>, <<3>>, <<2, Bad>>, <<2, 3>>}
MCOperands == {<<[ele |-> 1, score |-> 1], [ele |-> 2, score |-> INF]>>}
MCFlags == {{}, {"nx"}, {"xx", "gt"}, {"lt"}}
MCSpans == {<<0, 0>>, <<1, -1>>}
MCRanges == {Between(FALSE, 1, 9, TRUE, FALSE), Between(FALSE, 1, 9, FALSE, TRUE), Between(TRUE, 2, 3, FALSE, FALSE)}
MCOffsets == {0, 1}
MCDeltas == {INF, -INF}
=============================================================================
