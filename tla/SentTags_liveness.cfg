SPECIFICATION FairSpec
CONSTANTS
  AckIds = 2
  QueueLimit = 2
  MaxTags = 2
  BlockingTags = {2}
  Expiring = {1, 2}
  PeerAnswers = {1, 2}
  MayEnd = TRUE
PROPERTY EveryTagResolved
CHECK_DEADLOCK FALSE
