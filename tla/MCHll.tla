------------------------------- MODULE MCHll --------------------------------
(* Instances of Hll for TLC. *)
EXTENDS Hll, TLC

CONSTANTS h1, h2

\* The first handle takes every element alone, and some before or after another
\* argument; the second one takes one element.
TwoFeeds ==
    (h1 :> ({<<>>} \cup {<<e>> : e \in Element}
            \cup {<<e, Bad>> : e \in {<<0, 1>>, <<1, 3>>, <<2, 2>>}}
            \cup {<<<<1, 1>>, <<2, 1>>>>, <<<<2, 2>>, <<1, 3>>>>}))
    @@ (h2 :> {<<<<1, 2>>>>})

\* The first handle is merged with itself and with the second.
TwoSources == (h1 :> {{h1}, {h2}}) @@ (h2 :> {{}})

=============================================================================
