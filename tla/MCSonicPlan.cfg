SPECIFICATION Spec
CONSTANTS
  Cages = {1, 2, 3}
  NativeVlan = 9
  Module <- MCModule
  Pushes <- MCPushes
  MaxPushes = 2
  MaxFaults = 1
  None = None
INVARIANTS
  ViewIsSwitch
  BatchAccepted
  SecondApplyEmpty
  IntentReached
  Heals
