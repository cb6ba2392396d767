SPECIFICATION FairSpec
CONSTANTS
  w1 = w1
  w2 = w2
  p1 = p1
  p2 = p2
  Rows <- OneRow
  Passes <- TwoPasses
  Period = 3
  Hours <- TwoHours
  MaxFailures = 3
  MaxPass = 2
  MaxLate = 2
  MaxEdits = 2
INVARIANTS
  TypeOK
  CountIsEarned
  NoDrift
PROPERTIES
  RevivedOnlyByARunInHand
  StatedHourWins
  BrokenRoutineStops
