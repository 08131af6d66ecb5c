\* The three threads of a player, a stop() at any time, a track that may fail.
\* It may stop: play() ends, or sleeps for ever after the track has failed.
CONSTANTS
  Capacities <- TwoSizes
  FirstCapacity = 1
  StreamLength = 2
  Samples <- FourBlocks
SPECIFICATION PlayLiveSpec
INVARIANT PlayerSafe
PROPERTY AllThreadsEnd
CHECK_DEADLOCK FALSE
