SPECIFICATION FairSpec
CONSTANTS
  a = a
  b = b
  c = c
  d = d
  Null = Null
  Node <- MCNode
  EdgeRow <- MCEdge
  Src <- MCSrc
  Dst <- MCDst
  Queries <- MCQueries
  DefaultMaxHops = 4
  UnrolledMaxHops = 3
INVARIANTS
  MeetsEveryPath
PROPERTY
  Terminates
CHECK_DEADLOCK FALSE
