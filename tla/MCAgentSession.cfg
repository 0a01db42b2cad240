CONSTANTS
  q1 = q1
  q2 = q2
  Requests = {q1, q2}
  MaxConns = 2
  MaxRuns = 2
  MaxEvents = 2
  MaxRequests = 3
  MaxRestarts = 1
  History = 1
  Reports = {3}
SYMMETRY RequestSymmetry
SPECIFICATION Spec
INVARIANTS
  LogInOrder
  OneAgent
PROPERTIES
  DeletedStays
CHECK_DEADLOCK FALSE
