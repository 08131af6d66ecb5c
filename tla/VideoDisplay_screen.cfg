\* One thread that decodes, and two that do.
CONSTANTS
  Threads = {t1, t2}
  NoWindow = 0
  Views = {1, 2}
  Resolutions = {1, 2}
  NoThread = nobody
  Net = net
  Nulled = nulled
  Torn = torn
  Limits <- SomeLimits
SPECIFICATION LiveSpec
INVARIANTS DisplaySafe DecodedInOrder LostOnlyInChanges
PROPERTY SurfaceTakenUp
