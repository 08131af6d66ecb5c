\* One attempt to connect. It may end: the user is asked or leaves.
CONSTANTS
  Sockets = {s1, s2, s3}
  NoSocket = null
  Threads <- AllThreads
  MaxAsked = 1
  MaxBacklog = 2
  MaxCount = 2
  Patience = 2
  Attempts = 2
  Limits <- SomeLimits
SPECIFICATION LiveSpec
INVARIANT ConnectionSafe
PROPERTIES MissedTwice SilenceNoticed AttemptEnds LeavingEndsThreads
CHECK_DEADLOCK FALSE
