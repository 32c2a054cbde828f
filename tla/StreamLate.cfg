SPECIFICATION StreamSpec
CONSTANTS
  None = None
  Reviews = {s1}
  Benchmarks = {}
  Readers = {}
  Pages = {c1}
  Capacity = 1
  MaxPrs = 1
  MaxProgress = 0
  MaxFaults = 0
  MaxDrops = 0
  MaxCrashes = 0
PROPERTIES
  SubscriberHearsTheEnd
CHECK_DEADLOCK FALSE
