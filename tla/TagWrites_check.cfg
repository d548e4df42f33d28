SPECIFICATION FairSpec
CONSTANTS
  Writes <- MCWrites
  Link <- MCLink
  Size <- MCSize
INVARIANT TypeOK
INVARIANT WholeItemsUnlessTorn
PROPERTY HandledIfInTime
CHECK_DEADLOCK FALSE
