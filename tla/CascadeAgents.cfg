SPECIFICATION CascadeSpec
CONSTANTS
  Reviews = {r1}
  Loads = {p1}
  AgentCount = 2
  TurnCount = 1
  MaxErrors = 0
INVARIANTS
  OneAgentPerSession
CHECK_DEADLOCK FALSE
