\* Two requests and no editing, or two editors and one request at a time (Bounds).
SPECIFICATION Spec
CONSTANTS
  Terminals = {t1, t2}
  Tabs = {g1, g2, g3}
  Requests = {r1, r2}
  Editors = {e1, e2}
  NoTab = NoTab
  Gone = Gone
  Machine = Machine
  MaxPanes = 2
  MaxStarts = 3
  MaxSaves = 3
  MaxClock = 1
  MaxRestarts = 1
SYMMETRY Symmetric
CONSTRAINT Bounds
INVARIANTS
  StripIsOrdered
  EmptyTabGoes
  PlacesAgree
PROPERTIES
  AdoptedStays
  EditsBuildOn
CHECK_DEADLOCK FALSE
