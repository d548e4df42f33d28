SPECIFICATION FairSpec
CONSTANTS
  Masters = 2
  MaxCalls = 2
  MaxMessages = 2
  MaxList = 2
  Sizes = {2, 4}
  IntMax = 3
INVARIANTS
  TypeOK
  IntactUnlessSpoiled
  EndedOnlyIfSpoiled
  ResultExact
PROPERTIES
  EveryMessageReceived
  EndsSpread
CHECK_DEADLOCK FALSE
