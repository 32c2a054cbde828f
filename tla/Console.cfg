CONSTANTS
  Models = {"m1", "m2"}
  Blank = Blank
  Unset = Unset
  NoValue = NoValue
  Nothing = Nothing
  Catalogs <- MCCatalogs
  Queries = {{"m1", "m2"}, {"m2"}}
  Aliases = {}
  LooksReasoning = {"m1"}
  PerPage = 1
  Admins = {a1}
  Clients = {a2}
  MaxErrors = 1
  OpenPrs <- MCOpenPrs
  DatasetNames <- MCDatasetNames
  Content <- MCContent
  Library <- MCLibrary
  Gone = "gone"
  Incompatible <- MCIncompatible
  Allowlists <- MCAllowlists
  Catalog = {"m1"}
  Reasons = {"m1"}
  Efforts <- MCEfforts
  Default = "Medium"
  Tails = {c1}
  Lengths = {1, 3}
  Chunk = 2
  Readback = 2
  MaxLines = 3
  MaxFiles = 2
  Reviews = {r1, r2}
  MaxRefresh = 2
  MaxResults = 1
  Speakers = {s1, s2}
  Listed = {s1}
  Kept = 2
  MaxSaid = 3
SPECIFICATION ConsoleSpec
INVARIANTS ConsoleTypeOK CatalogIsWhole FormAgrees LogIsWhole DetailIsBacked PaneIsItsAgents
PROPERTY ShownNeverGoesBack
SYMMETRY MCSymmetry
CHECK_DEADLOCK FALSE
