SPECIFICATION FairSpec
CONSTANTS
  None = None
  Reviews = {s1, b1}
  Benchmarks = {b1}
  Readers = {p1}
  MaxPrs = 1
  MaxFaults = 1
  MaxDrops = 0
  MaxCrashes = 1
PROPERTIES
  EventuallyTerminal
  EventuallyUnregistered
CHECK_DEADLOCK FALSE
