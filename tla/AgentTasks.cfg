SPECIFICATION FairSpec
CONSTANTS
  a1 = a1
  a2 = a2
  r1 = r1
  r2 = r2
  s1 = s1
  s2 = s2
  NoAgent = NoAgent
  Agents <- MCAgents
  Runners <- TwoRunners
  Sweepers <- TwoSweeps
  MaxTasks = 1
  RetryCap = 1
  MaxRun = 1
  MaxDrain = 1
INVARIANTS
  TypeOK
  ClaimsBounded
  LeaseExclusive
  RunIdentity
PROPERTIES
  TerminalIsFinal
  OnlyStalledReclaimed
  NoTaskStuckRunning
