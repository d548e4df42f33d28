SPECIFICATION FairSpec
CONSTANTS
  Items = 5
  End <- MCEnd
  Kind <- MCKind
INVARIANTS
  TypeOK
  DeliveredInOrder
  OnlyOverlappedLost
  AcksExact
PROPERTIES
  ParsesTheStream
  FollowedItemParsed
CHECK_DEADLOCK FALSE
