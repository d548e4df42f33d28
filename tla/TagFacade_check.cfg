SPECIFICATION FairSpec
CONSTANTS
  MaxMasters = 3
  MaxCalls = 3
  MaxTags = 2
INVARIANT TypeOK
INVARIANT TagsAccounted
INVARIANT OneOfEach
INVARIANT BroadcastReachesAll
INVARIANT EndedOnlyByMisuse
PROPERTY GetReturns
CHECK_DEADLOCK FALSE
