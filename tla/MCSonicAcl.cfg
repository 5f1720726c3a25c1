SPECIFICATION Spec
CONSTANTS
  Hosts = {b, s, o}
  Bridge = b
  Switch = s
  Macs = {g, m, f, ff}
  Gateway = g
  OwnMac = m
  Broadcast = ff
  Vlans = {1, 2}
  MgmtVlan = 1
  NativeVlan = 9
  Pushes <- MCPushes
  MaxPushes = 2
  MaxFaults = 1
  MaxRules = 2
  None = None
INVARIANTS
  RulesMeanThePush
  NeverCutOff
  GuardOrder
