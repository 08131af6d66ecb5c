\* Sessions over UDP: three choices of bounds. It may end: the user stops acting,
\* and threads that have nothing to receive wait for ever.
CONSTANTS
  Sessions = {1, 2}
  Receiver = receiver
  Guess = guess
  Limits <- SomeLimits
SPECIFICATION LiveSpec
INVARIANTS SessionSafe ReachesItsCamera
PROPERTIES SilenceNoticed EchoDies
CHECK_DEADLOCK FALSE
