--------------------------- MODULE MCCommandQueue ---------------------------
(* CommandQueue with the bounds of its run. *)
EXTENDS CommandQueue

AllCallers == {Ui} \cup {Dispatcher(g) : g \in Generations} \cup {Receiver(g) : g \in Generations}

CONSTANTS c1, c2

\* Three commands of one generation, each naming a camera; two commands and
\* a restart or an edit; one command and two dispatchers at a time.
Lists == [commands |-> 3, says |-> {c1, c2}, acts |-> 1, dispatchers |-> 1]
Restarts == [commands |-> 2, says |-> {c1, "kick", "status"}, acts |-> 2, dispatchers |-> 1]
Overlaps == [commands |-> 1, says |-> Contents, acts |-> 2, dispatchers |-> 2]
SomeLimits == {Lists, Restarts, Overlaps}
=============================================================================
