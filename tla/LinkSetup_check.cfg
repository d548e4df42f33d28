SPECIFICATION FairSpec
CONSTANTS
  Masters = {m1, m2}
  m1 = m1
  m2 = m2
  FrontEnd = FrontEnd
  Links = 2
  First = 1060
INVARIANTS
  TypeOK
  LinksAgree
PROPERTIES
  SearchEnds
  StartReturns
CHECK_DEADLOCK FALSE
