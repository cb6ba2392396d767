SPECIFICATION FairSpec
CONSTANTS
  a1 = a1
  q1 = q1
  q2 = q2
  q3 = q3
  Agents <- OneAgent
  Requests <- OneRequest
  MaxRows = 1
PROPERTY HeldWriteRecoverable
