--------------------------- MODULE MCRelaySession ---------------------------
(* RelaySession with the bounds of its run. *)
EXTENDS RelaySession

\* Two connections and two stops; and one, with a stop and packets of voice.
SomeLimits == {[acts |-> 4, relays |-> 2, packets |-> 0], [acts |-> 3, relays |-> 1, packets |-> 2]}
=============================================================================
