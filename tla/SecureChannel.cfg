SPECIFICATION ChannelLiveSpec
CONSTANTS
  Sockets = {s1}
  Requests = {r1}
  NoBulk = NoBulk
  Fragments = 2
  Window = 2
  QueueCap = 2
  DownCap = 1
  SocketCap = 1
  UrgentStreak = 1
  MaxAssemblies = 1
  Modulus = 2
PROPERTIES
  KeysInOrder
  BulkMoves
  RequestsEnd
CHECK_DEADLOCK FALSE
