SPECIFICATION EvaluationSpec
CONSTANTS
  NoCall = NoCall
  Calls = {c1, c2}
  SideBySide = FALSE
  MaxChunks = 5
  Library = {gen, sec, perf}
  Generalists = {gen}
  MaxCalls = 3
  Agents = {a1}
  Places = {f}
  NoPlace = NoPlace
  Sizes = {1, 2}
  Claims = {0, 2}
  Severities = {0, 3}
  Texts = {{"data_integrity", "style_nits"}, {"hypothetical_theoretical", "style_nits"}}
  MaxFindings = 3
  Cap = 2
  Filters = {1, 2}
  Headers <- MCHeaders
  MaxRead = 7
  MaxSections = 2
  SmallFiles = 1
  SmallLines = 3
  MaxPool = 2
  MaxGoldens = 2
  Commands = {q1, q2}
  DefaultLines = 2
  LeastLines = 2
  Asked = {0, 3, 6}
  MaxFile = 4
  MaxEdits = 1
  Roles = {"GEN", "SEC"}
  Fields = {"role_name"}
  SectionNames = {"max_findings", "output_format"}
  MaxAgentFiles = 2
  RulePaths = {"main.py", "lib.rs"}
  GlobPaths <- MCGlobPaths
  BrokenGlobs = {"open"}
  GlobLists = {{"py"}, {"all", "open"}}
  MaxRules = 2
  MaxPieces = 4
INVARIANTS
  EvaluationTypeOK
  SessionIsNumbered
  ToolMessagesMatch
  TranscriptIsWhole
  FindingsAreSound
  ReturnIsWhole
  DiffIsWhole
  ScoreIsWhole
  ToolsTellTheTruth
  PromptIsWhole
  RulesAreWhole
PROPERTIES
  PanelReturns
CHECK_DEADLOCK FALSE
