\* Two devices, one machine, two sockets or timers each.
CONSTANTS
  desk = desk
  phone = phone
  m1 = m1
  None = None
  Devices = {desk, phone}
  Machines = {m1}
  MaxSockets = 2
SPECIFICATION LiveSpec
INVARIANTS
  ReleaseIsFinal
PROPERTIES
  TimerSparesConnected
  DisconnectReleases
