--------------------------- MODULE MCVideoSession ---------------------------
(* VideoSession with the bounds of its run. *)
EXTENDS VideoSession

\* Two sessions with their timers; two sessions that punch, with the timers at
\* rest, for two cameras that do not answer or for one that does; and one
\* session with a camera that punches too.
Watching == [sessions |-> 2, acts |-> 3, decoders |-> 1, rounds |-> 2, silence |-> 1, messages |-> 2, answers |-> {"watch", "full"},
  punching |-> FALSE, cameras |-> 1, scans |-> 0, directs |-> 0, ones |-> 0, cameraOnes |-> 0]
Reaching == [sessions |-> 2, acts |-> 3, decoders |-> 0, rounds |-> 0, silence |-> 0, messages |-> 2, answers |-> {"watch"},
  punching |-> TRUE, cameras |-> 2, scans |-> 1, directs |-> 1, ones |-> 0, cameraOnes |-> 0]
Meeting == [Reaching EXCEPT !.cameras = 1, !.scans = 0, !.ones = 1]
Answering == [sessions |-> 1, acts |-> 2, decoders |-> 0, rounds |-> 0, silence |-> 0, messages |-> 1, answers |-> {"watch", "denied", "offline"},
  punching |-> TRUE, cameras |-> 1, scans |-> 2, directs |-> 2, ones |-> 3, cameraOnes |-> 1]
SomeLimits == {Watching, Reaching, Meeting, Answering}
=============================================================================
