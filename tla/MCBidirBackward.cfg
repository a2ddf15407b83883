SPECIFICATION FairSpec
CONSTANTS
  a = a
  b = b
  c = c
  d = d
  Null = Null
  Node <- MCNode
  EdgeRow <- MCEdge
  Src <- MCSrc
  Dst <- MCDst
  Queries <- BackwardQueries
  DefaultMaxHops = 4
  UnrolledMaxHops = 3
INVARIANT
  PreservesExactSemantics
CHECK_DEADLOCK FALSE
