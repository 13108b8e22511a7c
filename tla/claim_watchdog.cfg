SPECIFICATION Spec
CONSTANTS
  Services = {s1}
  Captures = {c1, c2}
  Networks <- TwoNetworks
  Timeout = 2
  MinInterval = 3
INVARIANT
  DarkPhonesReboot
