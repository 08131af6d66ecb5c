--------------------------- MODULE MCBufferReader ---------------------------
(* An instance of BufferReader for TLC: buffers of one to three bytes, and   *)
(* a stream long enough to go round the three buffers twice.                 *)
EXTENDS BufferReader

SmallCapacities == {1, 2, 3}
TwoCapacities == {1, 2}
=============================================================================
