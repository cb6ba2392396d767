SPECIFICATION Spec
CONSTANTS
  a1 = a1
  a2 = a2
  s1 = s1
  d1 = d1
  d2 = d2
  c1 = c1
  NoAgent = NoAgent
  Agents <- TwoAgents
  Connectors <- OneConnector
  Sweepers <- OneSweep
  Admins <- OneAdmin
  MaxTasks = 1
  RetryCap = 1
  MaxEdits = 2
  Down <- PausedRevoked
  ReadsMayFail = FALSE
PROPERTY NoScopeEscalation
