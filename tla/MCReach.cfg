CONSTANTS
  a1 = a1
  a2 = a2
  a3 = a3
  dead = dead
  g1 = g1
  g2 = g2
  Addr <- MCAddr
  Dead <- MCDead
  Home = a1
  Gateways = {g1, g2}
  Subnet <- MCSubnet
  Pushes <- MCPushes
  MaxFaults = 2
  NoAddr = NoAddr
  NoGateway = NoGateway
  NoSetting = NoSetting
SPECIFICATION Spec
INVARIANTS
  UndoneIsUntouched
PROPERTIES
  NeverLost
  Reunites
