SPECIFICATION Spec
CONSTANTS
  a1 = a1
  a2 = a2
  r1 = r1
  r2 = r2
  s1 = s1
  s2 = s2
  NoAgent = NoAgent
  Agents <- OneAgent
  Runners <- TwoRunners
  Sweepers <- OneSweep
  MaxTasks = 1
  RetryCap = 3
  MaxRun = 1
  MaxDrain = 1
INVARIANT AssignmentRunsOnce
