--------------------------- MODULE MCVideoDisplay ---------------------------
(* VideoDisplay with the bounds of its run. *)
EXTENDS VideoDisplay

\* One decoding thread and its surfaces; two of one view, or of two views one
\* after the other; and pictures to be saved.
One == [frames |-> 3, room |-> 1, threads |-> 1, windows |-> 2, changes |-> 1, clears |-> 1, clicks |-> 0]
Two == [frames |-> 2, room |-> 1, threads |-> 2, windows |-> 2, changes |-> 0, clears |-> 0, clicks |-> 0]
Pictures == [frames |-> 3, room |-> 3, threads |-> 1, windows |-> 1, changes |-> 0, clears |-> 0, clicks |-> 2]
SomeLimits == {One, Two, Pictures}
=============================================================================
