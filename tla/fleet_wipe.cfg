SPECIFICATION FairSpec
CONSTANTS
  Devices = {d1}
  Keys = {k1}
  NoKey = NoKey
  LegacyDevices = {}
  Gateways = {g1}
  Sessions = {s1}
  NoDevice = NoDevice
  RequireAuth = TRUE
  KeyTTL = 1
  MaxClock = 0
  Admins = {a1}
  Registrars = {r1}
  SimulatorEnabled = FALSE
PROPERTIES
  WipeReachesDevice
