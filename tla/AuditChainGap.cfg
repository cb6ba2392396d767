SPECIFICATION Spec
CONSTANTS
  w1 = w1
  c1 = c1
  NoOne = NoOne
  Writers <- OneWriter
  Checkers <- OneChecker
  MaxSeq = 6
  MaxLegacy = 2
  MaxRequests = 2
  MaxFaults = 0
  MaxDamage = 1
  RangeStarts = {}
INVARIANT OnlyLegacyAcknowledged
