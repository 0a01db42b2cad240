CONSTANTS
    Hubs = {h1, h2}
    Shells = {s1, s2}
    Svc = svc
    Nil = nil
    MaxCommands = 7
    MaxFaults = 1
SPECIFICATION LiveSpec
INVARIANTS
  OffIsOff
PROPERTIES
  UnitKeepsOwner
  InstalledRuns
CHECK_DEADLOCK FALSE
