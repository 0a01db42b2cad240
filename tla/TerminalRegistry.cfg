SPECIFICATION RegistrySpec
CONSTANTS
  Terminals = {t1, t2}
  Tabs = {g}
  NoTab = NoTab
  MaxConns = 3
  MaxHubRestarts = 1
  MaxMachineRestarts = 1
  MaxCommands = 2
  MaxEdits = 1
INVARIANTS
  DestroyedIsDead
  NoRowForgotten
PROPERTIES
  ListSettles
CHECK_DEADLOCK FALSE
