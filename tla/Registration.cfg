SPECIFICATION LiveSpec
CONSTANTS
  Logins = {Owner, guest}
  Owner = Owner
  Codes = {k1}
  Tokens = {t1}
  Machines = {m1, m2}
  Hosts = {h1}
  Conns = {c1, c2}
  Requests = {r1, r2}
  Nil = Nil
  MaxStarts = 4
  MaxFaults = 1
INVARIANTS
  SecretIsKept
  RemovedStaysOut
PROPERTIES
  BackOnline
CHECK_DEADLOCK FALSE
