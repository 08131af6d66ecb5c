\* Sound of either codec switched on, off and on again, and a user interface that may
\* clear. It may stop: the process ends when a thread throws, and
\* arrivals and clears are bounded.
CONSTANTS
  Players = {p1, p2}
  NoPlayer = none
  Net = net
  Ui = ui
  Threads <- AllThreads
  Item <- Packets
  Null = 0
  MIN_CAPACITY_INCREMENT = 2
  Batch = 2
  MaxPackets = 4
  MaxClears = 2
  Limits <- OnceOrAgain
SPECIFICATION LiveSpec
INVARIANTS PlaybackSafe PlaysWhatCame ThrowsOnlyWhenCleared
PROPERTY Drains
CHECK_DEADLOCK FALSE
