------------------------------ MODULE ByteStream ----------------------------
(***************************************************************************)
(* What forwarding a stream promises: the bytes of a source come out in    *)
(* order, each once, none missing, until the stream is cut; after that     *)
(* nothing more comes out.  Byte n of the source is the number n.          *)
(***************************************************************************)
EXTENDS Naturals, Sequences

CONSTANT CHUNK    \* the most bytes that enter at once

VARIABLES
    queue,      \* bytes taken from the source and not delivered yet
    delivered,  \* bytes that came out
    cut         \* the stream was closed

stream == <<queue, delivered, cut>>

Init == queue = <<>> /\ delivered = <<>> /\ cut = FALSE

\* The next k bytes of the source enter.
Put(k) ==
    /\ ~cut
    /\ queue' = queue \o [i \in 1 .. k |-> Len(delivered) + Len(queue) + i]
    /\ UNCHANGED <<delivered, cut>>

\* The first k bytes come out.
Get(k) ==
    /\ ~cut
    /\ delivered' = delivered \o SubSeq(queue, 1, k)
    /\ queue' = SubSeq(queue, k + 1, Len(queue))
    /\ UNCHANGED cut

Cut == ~cut /\ cut' = TRUE /\ queue' = <<>> /\ UNCHANGED delivered

Next == Cut \/ (\E k \in 1 .. CHUNK : Put(k)) \/ (\E k \in 1 .. Len(queue) : Get(k))

Spec == Init /\ [][Next]_stream

=============================================================================
