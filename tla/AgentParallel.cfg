SPECIFICATION Spec
CONSTANTS
  NoCall = NoCall
  Calls = {c1, c2}
  SideBySide = TRUE
  MaxChunks = 3
INVARIANTS
  ToolMessagesMatch
CHECK_DEADLOCK FALSE
