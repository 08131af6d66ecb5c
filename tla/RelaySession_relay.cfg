\* Connections over TCP. It may end: threads end, and the user stops acting.
CONSTANTS
  Relays = {1, 2}
  Voice = voice
  Screen = screen
  TcpSockets = {1, 2, 3, 4, 5, 6, 7, 8}
  NoTcp = noTcp
  Limits <- SomeLimits
SPECIFICATION LiveSpec
INVARIANTS RelaySafe StoppedMeansClosed
PROPERTY StoppedRelaysEnd
CHECK_DEADLOCK FALSE
