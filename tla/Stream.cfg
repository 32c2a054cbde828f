SPECIFICATION ConnSpec
CONSTANTS
  None = None
  Reviews = {s1}
  Benchmarks = {}
  Readers = {}
  Pages = {c1}
  Capacity = 1
  MaxPrs = 1
  MaxProgress = 2
  MaxFaults = 2
  MaxDrops = 0
  MaxCrashes = 1
INVARIANTS
  LeftMeansStored
PROPERTIES
  LastEventReachesSubscribers
  EventuallyTold
  EventuallyLeft
CHECK_DEADLOCK FALSE
