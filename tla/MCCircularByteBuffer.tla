------------------------ MODULE MCCircularByteBuffer ------------------------
(* Instances of CircularByteBuffer for TLC: which calls the clients make. *)
EXTENDS CircularByteBuffer

\* Every call but skip and the reading of one byte, which GrowingCalls has.
ArrayCalls == AllOps \ {"readByte", "skip"}

\* What a client does with a buffer that grows.
GrowingCalls == {"read", "readByte", "skip", "reset", "mark", "write"}

\* The constructor's arguments: buffers that block, one that throws when
\* it is full, and one that doubles.
Made(n, inf, blocks) == [size |-> n, infinite |-> inf, blockingWrite |-> blocks]
Streaming == {Made(4, FALSE, TRUE), Made(2, FALSE, TRUE), Made(3, FALSE, FALSE)}
Growing == {Made(3, FALSE, TRUE), Made(3, TRUE, TRUE)}
=============================================================================
