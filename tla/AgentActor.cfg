SPECIFICATION LiveSpec
CONSTANTS
  QueueCap = 2
  MaxCommands = 3
  MaxAsks = 1
  MaxSays = 1
INVARIANTS
  NothingLost
  QueueOnlyWaits
  InOrder
PROPERTIES
  HandshakeEnds
CHECK_DEADLOCK FALSE
