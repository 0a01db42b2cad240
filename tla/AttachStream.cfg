SPECIFICATION AttachSpec
CONSTANTS
  Attaches = {a1, a2}
  Asking = {a1}
  MaxConns = 2
  MaxPrints = 1
  OutCap = 1
  ResyncCap = 1
INVARIANTS
  StreamIntact
  NothingLeaks
PROPERTIES
  StrandedIsClosed
  ThinnedIsRedrawn
CHECK_DEADLOCK FALSE
