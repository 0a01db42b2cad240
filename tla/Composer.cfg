SPECIFICATION Spec
CONSTANTS
  MaxIds = 3
  MaxChecks = 4
  MaxFaults = 3
INVARIANTS
  FailedIsFinal
PROPERTIES
  SendsOnce
  PermitComesBack
CHECK_DEADLOCK FALSE
