------------------------- MODULE MCServerConnection -------------------------
(* Instances of ServerConnection for TLC. *)
EXTENDS ServerConnection

AllThreads == Connectors \cup {Receiver}

\* Servers that answer; some that cannot be reached or answer in parts; an app in
\* the background; heartbeats to an agent that falls silent or goes away.
Good == [faults |-> {}, races |-> TRUE, beats |-> FALSE, leaves |-> TRUE]
Bad == [faults |-> {"refused", "split"}, races |-> TRUE, beats |-> FALSE, leaves |-> FALSE]
Behind == [faults |-> {"refused", "background"}, races |-> FALSE, beats |-> FALSE, leaves |-> FALSE]
Beats == [faults |-> {"silent", "end"}, races |-> FALSE, beats |-> TRUE, leaves |-> FALSE]
SomeLimits == {Good, Bad, Behind, Beats}
=============================================================================
