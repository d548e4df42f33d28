SPECIFICATION Spec
CONSTANTS
  AckIds = 2
  QueueLimit = 2
  MaxTags = 3
  BlockingTags = {}
  Expiring = {}
  PeerAnswers = {1, 2, 3}
  MayEnd = FALSE
INVARIANT AckOfTheTag
CHECK_DEADLOCK FALSE
