SPECIFICATION Spec
CONSTANTS
  Apps = {a1, a2}
  Hubs = {h1, h2}
  Codes = {c1, c2}
  Keys = {k1, k2}
  Addresses = {x1, x2}
  Nil = Nil
  MaxMoves = 1
SYMMETRY Symmetric
INVARIANTS
  OneDevicePerCode
  NothingOrphaned
  BookHasItsKey
CHECK_DEADLOCK FALSE
