----------------------------- MODULE MCRedisSet -----------------------------
(* Instances of RedisSet for TLC, with bytes of two values. *)
EXTENDS RedisSet

CONSTANTS short, long, other

\* Both ends of the 2-byte and the 4-byte encoding and what lies beyond.
EdgeInts == {-9, -8, 1, 2, 8}
EdgeOrder == <<-8, -9, 1, 2, 8, long, short>>

FewInts == {-9, 1, 2}
FewOrder == <<-9, 1, 2, other, short>>

=============================================================================
