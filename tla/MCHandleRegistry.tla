--------------------------- MODULE MCHandleRegistry -------------------------
(* Instances of HandleRegistry for TLC. *)
EXTENDS HandleRegistry, TLC

\* Threads are interchangeable in everything the run checks.
Symmetry == Permutations(Threads)

=============================================================================
