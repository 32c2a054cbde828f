SPECIFICATION StorageSpec
CONSTANTS
  Procs = {p1, p2}
  MaxCrashes = 2
  Reviews = {r1, r2}
  Loads = {l1}
  AgentCount = 2
  TurnCount = 1
  MaxErrors = 1
  NULL = NULL
  Texts = {"a", "b"}
  Callers = {c1, c2}
  CacheKeys = {k1, k2}
  MaxComputed = 3
  Dataset <- MCDataset
  Chosen <- MCChosen
  MaxKills = 1
INVARIANTS
  StorageTypeOK
  RecordedIsApplied
  OpenIsMigrated
  FailsOnlyBehind
  CascadeIsWhole
  RowIsWhole
  CacheIsSound
  AssetsAreReady
CHECK_DEADLOCK FALSE
