SPECIFICATION FairSpec
CONSTANTS
  w1 = w1
  c1 = c1
  NoOne = NoOne
  Writers <- OneWriter
  Checkers <- OneChecker
  MaxSeq = 14
  MaxLegacy = 3
  MaxRequests = 1
  MaxFaults = 1
  MaxDamage = 1
  RangeStarts = {1, 2, 4}
INVARIANTS
  TypeOK
  AnchorsAccounted
PROPERTIES
  ImplementsChainedLog
  AnchorExcusesNoAlteration
  FalseAlarmExplained
  LegacyForksHeal
  AlterationRaisesAlarm
