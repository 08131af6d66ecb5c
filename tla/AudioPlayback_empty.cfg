\* The comment about an empty list. The process may end.
CONSTANTS
  Players = {p1}
  NoPlayer = none
  Net = net
  Ui = ui
  Threads <- AllThreads
  Item <- Packets
  Null = 0
  MIN_CAPACITY_INCREMENT = 2
  Batch = 2
  MaxPackets = 3
  MaxClears = 1
  Limits <- Once
SPECIFICATION Spec
INVARIANT ParsesOnlyWhenNotEmpty
CHECK_DEADLOCK FALSE
