SPECIFICATION Spec
CONSTANTS
  a1 = a1
  a2 = a2
  s1 = s1
  d1 = d1
  d2 = d2
  c1 = c1
  NoAgent = NoAgent
  Agents <- TwoAgents
  Connectors <- NoConnector
  Sweepers <- OneSweep
  Admins <- TwoAdmins
  MaxTasks = 1
  RetryCap = 1
  MaxEdits = 2
  Down <- RevokedOnly
  ReadsMayFail = FALSE
INVARIANT NoMutualBackup
