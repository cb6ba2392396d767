SPECIFICATION Spec
CONSTANTS
  r1 = r1
  r2 = r2
  t1 = t1
  a1 = a1
  Runs <- TwoRuns
  Tasks <- OneTask
  Agents <- OneAgent
  MaxSteps = 2
  MaxTime = 2
  MaxCost = 2
  Ceiling = 2
  MaxRefused = 1
SYMMETRY Symmetry
INVARIANTS
  TypeOK
  StopTakesHold
  TimeBudgetBinds
  CeilingOvershoot
