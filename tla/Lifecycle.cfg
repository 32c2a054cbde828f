SPECIFICATION Spec
CONSTANTS
  None = None
  Reviews = {s1, b1}
  Benchmarks = {b1}
  Readers = {p1}
  MaxPrs = 2
  MaxFaults = 3
  MaxDrops = 1
  MaxCrashes = 1
INVARIANTS
  TypeOK
  WorkingJobIsRegistered
  ExitIsKnown
  CompletedIsBacked
  ReconcileSparesSeenJobs
  AnnouncedFailureStands
PROPERTIES
  ImplementsReviewRecord
CHECK_DEADLOCK FALSE
