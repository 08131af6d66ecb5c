-------------------------- MODULE MCAudioPlayback ---------------------------
(* Instances of AudioPlayback for TLC. *)
EXTENDS AudioPlayback

AllThreads == Players \cup {Net, Ui}
Packets == 1..MaxPackets

\* One player and an array that grows up to twice more, clears by the user
\* interface, or sound switched off and on again.
OnceOrAgain == {[players |-> 1, packets |-> 4, clears |-> 0],
                [players |-> 1, packets |-> 3, clears |-> 1],
                [players |-> 1, packets |-> 2, clears |-> 2],
                [players |-> 2, packets |-> 2, clears |-> 1]}
Once == {[players |-> 1, packets |-> 3, clears |-> 1]}
=============================================================================
