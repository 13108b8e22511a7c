SPECIFICATION Spec
CONSTANTS
  Devices = {d1}
  Keys = {k1}
  NoKey = NoKey
  LegacyDevices = {d1}
  Gateways = {g1}
  Sessions = {s1, s2}
  NoDevice = NoDevice
  RequireAuth = TRUE
  KeyTTL = 1
  MaxClock = 3
  Admins = {}
  Registrars = {r1}
  SimulatorEnabled = TRUE
SYMMETRY Symmetry
INVARIANTS
  KeyStaleness
  StateRecorded
