\* Three commands of every content for the dispatchers of two generations, one
\* after the other, and one command for two at a time; a user who starts, stops
\* and edits the list.  It may stop: the process dies, or the threads end.
CONSTANTS
  Generations = {1, 2}
  Callers <- AllCallers
  Item = {1, 2, 3}
  Void = 0
  Limits <- SomeLimits
  MaxStarts = 2
  c1 = c1
  c2 = c2
  Cameras = {c1, c2}
SPECIFICATION LiveSpec
INVARIANTS QueueSafe HandledInOrder DiesOnlyOfRaces
PROPERTIES EveryCommandHandled StopEndsDispatchers
CHECK_DEADLOCK FALSE
