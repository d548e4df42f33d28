SPECIFICATION Spec
CONSTANTS
  Items = 5
  End <- MCEnd
  Kind <- MCKind
INVARIANT NoTagLost
CHECK_DEADLOCK FALSE
