\* Every interleaving of the reading thread and the player, with the fairness
\* that makes next() return and the reading thread end.
CONSTANTS
  Capacities <- SmallCapacities
  FirstCapacity = 2
  StreamLength = 9
SPECIFICATION LiveSpec
INVARIANTS ReaderSafe NoLostWakeup
PROPERTIES HeldStays NullAfterAllButTheLast BothGoOn
