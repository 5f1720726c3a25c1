CONSTANTS
  Pushes <- MCPushes
  ByHand <- MCByHand
  MediaRefresh = 3
  MaxFaults = 1
  Calm = 7
SPECIFICATION Spec
INVARIANTS
  Reached
  Rests
  HoldSeesAll
