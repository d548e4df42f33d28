SPECIFICATION LinkFairSpec
CONSTANTS
  AckIds = 2
  QueueLimit = 2
  MaxTags = 2
  BlockingTags = {}
  Expiring = {}
  PeerAnswers = {1, 2}
  MayEnd = TRUE
  MaxOthers = 1
INVARIANT LinkTypeOK
INVARIANT AckedWasDelivered
INVARIANT AllAckedWhenDrained
PROPERTY ImplementsExchange
PROPERTY AllButTheLast
CHECK_DEADLOCK FALSE
