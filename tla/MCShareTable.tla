---------------------------- MODULE MCShareTable ----------------------------
(* Instances of ShareTable for TLC. *)
EXTENDS ShareTable, TLC

CONSTANTS a, b, a1, a2, b1

\* Who runs which coroutine.
OneEach == (a1 :> a) @@ (b1 :> b)
Single == a1 :> a
Alone == (a1 :> a) @@ (a2 :> a)

\* query of each name, and queryall of a list with a name twice.
Singly == {<<x>> : x \in Names}
Twice == Singly \cup {<<x, x>> : x \in Names}

Symmetry == Permutations(Ptr)

=============================================================================
