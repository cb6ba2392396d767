SPECIFICATION Spec
CONSTANTS
  a1 = a1
  q1 = q1
  q2 = q2
  q3 = q3
  Agents <- OneAgent
  Requests <- ThreeRequests
  MaxRows = 2
SYMMETRY Symmetry
INVARIANTS
  TypeOK
  OneExecutor
  StopBoundsWrites
PROPERTIES
  ImplementsCapturedWrite
  ExpiredStaysClosed
