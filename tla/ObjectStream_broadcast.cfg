SPECIFICATION Spec
CONSTANTS
  Masters = 2
  MaxCalls = 2
  MaxMessages = 2
  MaxList = 2
  Sizes = {2, 4}
  IntMax = 3
INVARIANTS
  BroadcastToAll
CHECK_DEADLOCK FALSE
