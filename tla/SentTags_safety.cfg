SPECIFICATION Spec
CONSTANTS
  AckIds = 2
  QueueLimit = 2
  MaxTags = 3
  BlockingTags = {}
  Expiring = {1}
  PeerAnswers = {1, 2}
  MayEnd = FALSE
INVARIANT TypeOK
INVARIANT FreshAckExact
INVARIANT DueTimeouts
INVARIANT AckCount
INVARIANT OnlyOverlappedForgotten
CHECK_DEADLOCK FALSE
