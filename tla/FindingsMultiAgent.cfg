SPECIFICATION FindingsSpec
CONSTANTS
  Agents = {a1, a2}
  Places = {f}
  NoPlace = NoPlace
  Sizes = {1, 2}
  Claims = {0}
  Severities = {0, 3}
  Texts = {{}, {"architecture_nits"}}
  MaxFindings = 2
  Cap = 2
INVARIANT MultiAgentCriticalKept
CHECK_DEADLOCK FALSE
