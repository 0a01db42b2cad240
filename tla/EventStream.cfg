\* A hub of two users: the browser is not told of k2.
CONSTANTS
  k1 = k1
  k2 = k2
  Keys = {k1, k2}
  Mine = {k1}
  HistoryLimit = 1
  ChannelCap = 1
  Offset = 2
  MaxSeq = 3
  MaxDrops = 1
SPECIFICATION LiveSpec
INVARIANTS
  InSync
PROPERTIES
  Converges
  OldSnapshotRejected
CHECK_DEADLOCK FALSE
